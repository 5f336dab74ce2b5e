------------------------ MODULE AuthenticationProofs ------------------------
(* Theorems about the two modules of authentication.                       *)
(*                                                                         *)
(* Accounts: for any numbers of accounts, clients, forms, tokens and       *)
(* requests, and any interleaving of their commits.  SignIn: for any       *)
(* number of requests at a time and any limit and window.                  *)
EXTENDS Accounts, SignIn, SequenceTheorems, FiniteSetTheorems, TLAPS

-----------------------------------------------------------------------------
(* Accounts.                                                               *)

(* The shape of a request, by its operation.                               *)
LEMMA Shapes ==
  ASSUME NEW r \in RequestType
  PROVE  /\ r.op \in {"idle", "upsert", "disable", "revoke", "enable", "reset", "change",
                      "reissue", "issue", "login"}
         /\ r.op = "upsert" => r \in [op : {"upsert"}, user : Users, form : Forms,
                                      access : [Kinds -> BOOLEAN], old : SUBSET TokenIds]
         /\ r.op = "disable" => r \in [op : {"disable"}, user : Users, old : SUBSET TokenIds]
         /\ r.op = "revoke" => r \in [op : {"revoke"}, user : Users, kinds : Seq(Kinds),
                                      old : SUBSET TokenIds]
         /\ r.op = "enable" => r \in [op : {"enable"}, user : Users]
         /\ r.op \in {"reset", "change", "reissue"} =>
               r \in [op : {"reset", "change", "reissue"}, user : Users, password : Passwords]
         /\ r.op = "issue" => r \in [op : {"issue"}, user : Users, kind : Kinds]
         /\ r.op = "login" => r \in [op : {"login"}, session : SessionType]
         /\ r.op = "idle" => r = Idle
BY DEF RequestType, Idle

LEMMA Joined ==
  ASSUME NEW S, NEW a \in Seq(S), NEW b \in Seq(S), Len(a) = 1, Len(b) = 1
  PROVE  /\ a \o b \in Seq(S) /\ Len(a \o b) = 2
         /\ (a \o b)[1] = a[1] /\ (a \o b)[2] = b[1]
<1>1. a \o b \in Seq(S) /\ Len(a \o b) = Len(a) + Len(b)
  BY ConcatProperties
<1>2. \A i \in 1 .. Len(a) + Len(b) : (a \o b)[i] = IF i <= Len(a) THEN a[i] ELSE b[i - Len(a)]
  BY ConcatProperties
<1> DEFINE ab == a \o b
<1> HIDE DEF ab
<1>3. ab \in Seq(S) /\ Len(ab) = 2
  BY <1>1 DEF ab
<1>4. ab[1] = a[1]
  <2>1. 1 \in 1 .. Len(a) + Len(b) /\ 1 <= Len(a)
    OBVIOUS
  <2> QED BY <1>2, <2>1, Zenon DEF ab
<1>5. ab[2] = b[1]
  BY <1>2 DEF ab
<1> QED BY <1>3, <1>4, <1>5 DEF ab

LEMMA OffKinds ==
  ASSUME NEW access \in [Kinds -> BOOLEAN]
  PROVE  /\ Off(access) \in Seq(Kinds)
         /\ \A k \in Kinds : ~access[k] => \E i \in 1 .. Len(Off(access)) : Off(access)[i] = k
<1> Kinds = {"api", "mcp"} /\ access["api"] \in BOOLEAN /\ access["mcp"] \in BOOLEAN
  BY DEF Kinds
<1>1. CASE access["api"] /\ access["mcp"]
  <2>1. Off(access) = <<>>
    BY <1>1 DEF Off
  <2> QED BY <1>1, <2>1
<1>2. CASE access["api"] /\ ~access["mcp"]
  <2>1. Off(access) = <<"mcp">>
    BY <1>2 DEF Off
  <2> QED BY <1>2, <2>1
<1>3. CASE ~access["api"] /\ access["mcp"]
  <2>1. Off(access) = <<"api">>
    BY <1>3 DEF Off
  <2> QED BY <1>3, <2>1
<1>4. CASE ~access["api"] /\ ~access["mcp"]
  <2>1. Off(access) = <<"api">> \o <<"mcp">>
    BY <1>4 DEF Off
  <2>2. /\ <<"api">> \in Seq(Kinds) /\ <<"mcp">> \in Seq(Kinds)
        /\ Len(<<"api">>) = 1 /\ Len(<<"mcp">>) = 1 /\ <<"api">>[1] = "api" /\ <<"mcp">>[1] = "mcp"
    OBVIOUS
  <2>4. /\ Off(access) \in Seq(Kinds) /\ Len(Off(access)) = 2
        /\ Off(access)[1] = "api" /\ Off(access)[2] = "mcp"
    BY <2>1, <2>2, Joined
  <2> QED BY <2>4
<1> QED BY <1>1, <1>2, <1>3, <1>4

LEMMA RowFields ==
  ASSUME NEW role \in Roles, NEW enabled \in BOOLEAN, NEW source \in Sources,
         NEW password \in Passwords \cup {None}, NEW must \in BOOLEAN,
         NEW access \in [Kinds -> BOOLEAN], NEW version \in Nat, NEW byForm \in BOOLEAN
  PROVE  [role |-> role, enabled |-> enabled, source |-> source, password |-> password,
          must |-> must, access |-> access, version |-> version, byForm |-> byForm] \in UserRow
BY DEF UserRow

LEMMA UpsertedRow ==
  ASSUME users \in [Users -> UserRow \cup {None}], NEW u \in Users, NEW f \in Forms,
         NEW access \in [Kinds -> BOOLEAN]
  PROVE  /\ Upserted(u, f, access) \in UserRow
         /\ Upserted(u, f, access).role = f.role /\ Upserted(u, f, access).enabled = f.enabled
<1>1. f \in FormType
  BY AccountsAssumption
<1>2. CASE users[u] = None
  BY <1>1, <1>2, AccountsAssumption DEF Upserted, UserRow, FormType
<1>3. CASE users[u] # None
  <2> DEFINE row == users[u]
             must == IF f.must = None THEN None ELSE f.must /\ f.source = Local
  <2>1. /\ row \in UserRow /\ row.must \in BOOLEAN /\ row.version \in Nat
        /\ row.password \in Passwords \cup {None} /\ row.byForm \in BOOLEAN
    BY <1>3 DEF UserRow
  <2>2. /\ f.role \in Roles /\ f.enabled \in BOOLEAN /\ f.source \in Sources
        /\ f.password \in Passwords \cup {None} /\ must \in BOOLEAN \cup {None}
    BY <1>1 DEF FormType
  <2>3. Upserted(u, f, access) =
          [role |-> f.role, enabled |-> f.enabled, source |-> f.source,
           password |-> IF f.source # Local THEN None
                        ELSE IF f.password # None THEN f.password ELSE row.password,
           must |-> IF must = None THEN row.must ELSE must,
           access |-> access,
           version |-> row.version + (IF f.source # row.source THEN 1 ELSE 0),
           byForm |-> IF f.password # None THEN TRUE ELSE row.byForm]
    BY <1>3 DEF Upserted
  <2> DEFINE pw == IF f.source # Local THEN None
                   ELSE IF f.password # None THEN f.password ELSE row.password
             ms == IF must = None THEN row.must ELSE must
             vs == row.version + (IF f.source # row.source THEN 1 ELSE 0)
             bf == IF f.password # None THEN TRUE ELSE row.byForm
  <2>4. pw \in Passwords \cup {None} /\ ms \in BOOLEAN /\ vs \in Nat /\ bf \in BOOLEAN
    <3> HIDE DEF row, must
    <3>1. pw \in Passwords \cup {None}
      BY <2>1, <2>2
    <3>2. ms \in BOOLEAN
      BY <2>1, <2>2
    <3>3. vs \in Nat
      BY <2>1
    <3>4. bf \in BOOLEAN
      BY <2>1
    <3> QED BY <3>1, <3>2, <3>3, <3>4
  <2>5. Upserted(u, f, access) = [role |-> f.role, enabled |-> f.enabled, source |-> f.source,
          password |-> pw, must |-> ms, access |-> access, version |-> vs, byForm |-> bf]
    BY <2>3
  <2> HIDE DEF row, must, pw, ms, vs, bf
  <2>8. Upserted(u, f, access) \in UserRow
    BY <2>2, <2>4, <2>5, RowFields
  <2>9. Upserted(u, f, access).role = f.role /\ Upserted(u, f, access).enabled = f.enabled
    BY <2>3
  <2> QED BY <2>8, <2>9
<1> QED BY <1>2, <1>3

(* A request is sent: its record is new, its client's others stay.         *)
LEMMA BeginType ==
  ASSUME TypeOK, NEW c \in Clients, NEW r \in RequestType, Begin(c, r)
  PROVE  TypeOK'
<1>1. requests' \in 0 .. MaxRequests
  BY AccountsAssumption DEF Begin, Count, TypeOK
<1>2. overlap' \in BOOLEAN
  BY DEF Begin, TypeOK
<1>3. req' \in [Clients -> RequestType]
  BY DEF Begin, TypeOK
<1> QED BY <1>1, <1>2, <1>3 DEF Begin, TypeOK

LEMMA RequestTypeOK ==
  ASSUME TypeOK, AccountsExist, NEW c \in Clients, Request(c)
  PROVE  TypeOK'
<1> USE AccountsAssumption
<1>0. SignedIn(c) => cookie[c] \in SessionType /\ cookie[c].user \in Users
  BY DEF SignedIn, TypeOK, SessionType
<1>t. \A u \in Users, k \in Kinds : TokensOf(u, k) \in SUBSET TokenIds
  BY DEF TokensOf
<1>1. ASSUME NEW u \in Users, NEW f \in Forms, UpsertBegin(c, u, f) PROVE TypeOK'
  <2> DEFINE access == [k \in Kinds |-> IF f.access[k] # None THEN f.access[k]
                                        ELSE users[u] # None /\ users[u].access[k]]
             r == [op |-> "upsert", user |-> u, form |-> f, access |-> access,
                   old |-> UNION {TokensOf(u, k) : k \in {k \in Kinds : ~access[k]}}]
  <2>1. f \in FormType
    OBVIOUS
  <2>2. access \in [Kinds -> BOOLEAN]
    <3>1. ASSUME NEW k \in Kinds, f.access[k] # None PROVE f.access[k] \in BOOLEAN
      BY <2>1, <3>1 DEF FormType
    <3> QED BY <3>1
  <2>3. UNION {TokensOf(u, k) : k \in {k \in Kinds : ~access[k]}} \in SUBSET TokenIds
    BY <1>t
  <2>4. Begin(c, r)
    BY <1>1 DEF UpsertBegin
  <2> HIDE DEF access
  <2>5. r \in RequestType
    BY <2>2, <2>3 DEF RequestType
  <2> HIDE DEF r
  <2> QED BY <2>4, <2>5, BeginType
<1>2. ASSUME NEW u \in Users, DisableBegin(c, u) PROVE TypeOK'
  <2>1. TokensOf(u, "api") \cup TokensOf(u, "mcp") \in SUBSET TokenIds
    BY <1>t DEF Kinds
  <2> QED BY <1>2, <2>1, BeginType DEF DisableBegin, RequestType
<1>3. ASSUME NEW u \in Users, EnableBegin(c, u) PROVE TypeOK'
  BY <1>3, BeginType DEF EnableBegin, RequestType
<1>4. ASSUME NEW u \in Users, NEW p \in Passwords, ResetBegin(c, u, p) PROVE TypeOK'
  BY <1>4, BeginType DEF ResetBegin, RequestType
<1>5. ASSUME NEW u \in Users, NEW p \in Passwords, LoginVerify(c, u, p) PROVE TypeOK'
  <2>1. SessionOf(u) \in SessionType
    BY <1>5 DEF LoginVerify, Authenticates, SessionOf, SessionType, TypeOK, UserRow
  <2> QED BY <1>5, <2>1, BeginType DEF LoginVerify, RequestType
<1>6. ASSUME NEW u \in Users, NEW k \in Kinds, RevokeByAdmin(c, u, k) PROVE TypeOK'
  <2>1. RevokeStage(u, <<k>>, {}) \in RequestType
    BY DEF RevokeStage, RequestType
  <2> QED BY <1>6, <2>1, BeginType DEF RevokeByAdmin
<1>7. ASSUME NEW k \in Kinds, RevokeOwn(c, k) PROVE TypeOK'
  <2>1. RevokeStage(cookie[c].user, <<k>>, {}) \in RequestType
    BY <1>0, <1>7 DEF RevokeOwn, Require, RevokeStage, RequestType
  <2> QED BY <1>7, <2>1, BeginType DEF RevokeOwn
<1>8. ASSUME NEW k \in Kinds, NEW b \in BOOLEAN, SystemToggle(c, k, b) PROVE TypeOK'
  BY <1>8 DEF SystemToggle, Count, TypeOK
<1>9. ASSUME IssueApiBegin(c) \/ IssueMcpBegin(c) PROVE TypeOK'
  <2>1. \A k \in Kinds : [op |-> "issue", user |-> cookie[c].user, kind |-> k] \in RequestType
    BY <1>0, <1>9 DEF IssueApiBegin, IssueMcpBegin, Require, RequestType
  <2> QED BY <1>9, <2>1, BeginType DEF IssueApiBegin, IssueMcpBegin, Kinds
<1>10. ASSUME NEW d \in Directories, NEW b \in BOOLEAN, SystemIdpCreate(c, d, b) PROVE TypeOK'
  BY <1>10 DEF SystemIdpCreate, Count, TypeOK
<1>11. ASSUME NEW p \in Passwords, ChangeBegin(c, p) PROVE TypeOK'
  <2>1. [op |-> "change", user |-> cookie[c].user, password |-> p] \in RequestType
    BY <1>0, <1>11 DEF ChangeBegin, RequestType
  <2> QED BY <1>11, <2>1, BeginType DEF ChangeBegin
<1>12. ASSUME CookieGone(c) PROVE TypeOK'
  BY <1>12 DEF CookieGone, TypeOK
<1> QED BY <1>1, <1>2, <1>3, <1>4, <1>5, <1>6, <1>7, <1>8, <1>9, <1>10, <1>11, <1>12 DEF Request

(* A new password keeps the role and the switch of the account.            *)
LEMMA Rewritten ==
  ASSUME NEW row \in UserRow, NEW p \in Passwords
  PROVE  /\ WithReset(row, p) \in UserRow /\ WithChanged(row, p) \in UserRow
         /\ WithReset(row, p).role = row.role /\ WithReset(row, p).enabled = row.enabled
         /\ WithChanged(row, p).role = row.role /\ WithChanged(row, p).enabled = row.enabled
<1>1. row.version + 1 \in Nat
  BY DEF UserRow
<1>2. WithReset(row, p) \in UserRow
  BY <1>1 DEF UserRow, WithReset
<1>3. WithChanged(row, p) \in UserRow
  BY <1>1 DEF UserRow, WithChanged
<1>4. /\ WithReset(row, p).role = row.role /\ WithReset(row, p).enabled = row.enabled
      /\ WithChanged(row, p).role = row.role /\ WithChanged(row, p).enabled = row.enabled
  BY DEF UserRow, WithReset, WithChanged
<1> QED BY <1>2, <1>3, <1>4

(* What the commits write to system_users are rows, and none is removed.   *)
LEMMA RowsWritten ==
  ASSUME TypeOK, AccountsExist, NEW c \in Clients, Continue(c)
  PROVE  /\ users' \in [Users -> UserRow \cup {None}]
         /\ \A u \in Users : users[u] # None => users'[u] # None
<1> USE AccountsAssumption
<1> DEFINE r == req[c]
<1>1. r \in RequestType /\ users \in [Users -> UserRow \cup {None}]
  BY DEF TypeOK
<1>2. CASE UpsertCommit(c)
  <2>1. r.user \in Users /\ r.form \in Forms /\ r.access \in [Kinds -> BOOLEAN]
    BY <1>1, <1>2, Shapes DEF UpsertCommit
  <2>2. Upserted(r.user, r.form, r.access) \in UserRow
    BY <1>1, <2>1, UpsertedRow
  <2> QED BY <1>1, <1>2, <2>1, <2>2 DEF UpsertCommit
<1>4. CASE DisableCommit(c) \/ EnableCommit(c)
  <2>1. r.user \in Users /\ users[r.user] \in UserRow
    BY <1>1, <1>4, Shapes DEF DisableCommit, EnableCommit, AccountsExist
  <2> DEFINE row == users[r.user]
  <2>2. [row EXCEPT !.enabled = FALSE] \in UserRow /\ [row EXCEPT !.enabled = TRUE] \in UserRow
    BY <2>1 DEF UserRow
  <2>3. \E new \in UserRow : users' = [users EXCEPT ![r.user] = new]
    BY <1>4, <2>2 DEF DisableCommit, EnableCommit
  <2> QED BY <1>1, <2>1, <2>3
<1>5. CASE ResetCommit(c) \/ ChangeCommit(c)
  <2>1. r.user \in Users /\ r.password \in Passwords /\ users[r.user] \in UserRow
    BY <1>1, <1>5, Shapes DEF ResetCommit, ChangeCommit, AccountsExist
  <2>2. \E new \in UserRow : users' = [users EXCEPT ![r.user] = new]
    BY <1>5, <2>1, Rewritten DEF ResetCommit, ChangeCommit
  <2> QED BY <1>1, <2>1, <2>2
<1>6. CASE users' = users
  BY <1>1, <1>6
<1> QED BY <1>2, <1>4, <1>5, <1>6
    DEF Continue, RevokeTokens, RevokeDone, IssueCommit, LoginFinish, ChangeReissue

LEMMA Revoking ==
  ASSUME NEW tok \in TokenType
  PROVE  [tok EXCEPT !.revoked = TRUE] \in TokenType
BY DEF TokenType

(* The other tables, the cookies and the requests after a commit.          *)
LEMMA ContinueTypeOK ==
  ASSUME TypeOK, AccountsExist, NEW c \in Clients, Continue(c)
  PROVE  TypeOK'
<1> USE AccountsAssumption
<1> DEFINE r == req[c]
<1>1. r \in RequestType /\ req \in [Clients -> RequestType]
  BY DEF TypeOK
<1>t. tokens \in [TokenIds -> TokenType \cup {None}]
  BY DEF TypeOK
<1>2. users' \in [Users -> UserRow \cup {None}]
  BY RowsWritten
<1>3. ASSUME NEW q \in RequestType, req' = [req EXCEPT ![c] = q]
      PROVE  req' \in [Clients -> RequestType]
  BY <1>1, <1>3
<1>i. Idle \in RequestType
  BY DEF RequestType
<1>4. CASE UpsertCommit(c)
  <2>1. r.user \in Users /\ r.access \in [Kinds -> BOOLEAN] /\ r.old \in SUBSET TokenIds
    BY <1>1, <1>4, Shapes DEF UpsertCommit
  <2>2. RevokeStage(r.user, Off(r.access), r.old) \in RequestType
    BY <2>1, OffKinds DEF RevokeStage, RequestType
  <2> QED BY <1>2, <1>3, <1>4, <2>2 DEF UpsertCommit, TypeOK
<1>5. CASE DisableCommit(c)
  <2>1. r.user \in Users /\ r.old \in SUBSET TokenIds
    BY <1>1, <1>5, Shapes DEF DisableCommit
  <2>2. <<"api", "mcp">> \in Seq(Kinds)
    BY DEF Kinds
  <2>3. RevokeStage(r.user, <<"api", "mcp">>, r.old) \in RequestType
    BY <2>1, <2>2 DEF RevokeStage, RequestType
  <2> QED BY <1>2, <1>3, <1>5, <2>3 DEF DisableCommit, TypeOK
<1>6. CASE EnableCommit(c) \/ ResetCommit(c)
  BY <1>2, <1>3, <1>6, <1>i DEF EnableCommit, ResetCommit, TypeOK
<1>7. CASE RevokeTokens(c)
  <2>1. r.op = "revoke" /\ r.kinds # <<>>
    BY <1>7 DEF RevokeTokens
  <2>2. r \in [op : {"revoke"}, user : Users, kinds : Seq(Kinds), old : SUBSET TokenIds]
    BY <1>1, <2>1, Shapes
  <2>3. Tail(r.kinds) \in Seq(Kinds)
    BY <2>1, <2>2
  <2>4. [r EXCEPT !.kinds = Tail(r.kinds)] \in RequestType
    BY <2>2, <2>3 DEF RequestType
  <2>5. req' = [req EXCEPT ![c] = [r EXCEPT !.kinds = Tail(r.kinds)]]
    BY <1>7 DEF RevokeTokens
  <2>6. tokens' \in [TokenIds -> TokenType \cup {None}]
    <3>1. ASSUME NEW t \in TokenIds
          PROVE  (IF t \in TokensOf(r.user, Head(r.kinds))
                  THEN [tokens[t] EXCEPT !.revoked = TRUE] ELSE tokens[t]) \in TokenType \cup {None}
      <4>1. t \in TokensOf(r.user, Head(r.kinds)) => tokens[t] \in TokenType
        BY <1>t DEF TokensOf
      <4> QED BY <1>t, <4>1, Revoking
    <3> QED BY <1>7, <3>1 DEF RevokeTokens
  <2> QED BY <1>2, <1>3, <1>7, <2>4, <2>5, <2>6 DEF RevokeTokens, TypeOK
<1>8. CASE RevokeDone(c)
  <2>1. r.old \in SUBSET TokenIds
    BY <1>1, <1>8, Shapes DEF RevokeDone
  <2> QED BY <1>2, <1>3, <1>8, <1>i, <2>1 DEF RevokeDone, TypeOK
<1>9. CASE IssueCommit(c)
  <2>1. r.user \in Users /\ r.kind \in Kinds
    BY <1>1, <1>9, Shapes DEF IssueCommit
  <2>2. ASSUME NEW t \in TokenIds PROVE Issued(r.user, r.kind, t) \in [TokenIds -> TokenType \cup {None}]
    <3>1. ASSUME NEW s \in TokenIds
          PROVE  (IF s = t THEN [user |-> r.user, kind |-> r.kind, revoked |-> FALSE, expired |-> FALSE]
                  ELSE IF s \in TokensOf(r.user, r.kind) THEN [tokens[s] EXCEPT !.revoked = TRUE]
                  ELSE tokens[s]) \in TokenType \cup {None}
      <4>1. s \in TokensOf(r.user, r.kind) => tokens[s] \in TokenType
        BY <1>t DEF TokensOf
      <4>2. [user |-> r.user, kind |-> r.kind, revoked |-> FALSE, expired |-> FALSE] \in TokenType
        BY <2>1 DEF TokenType
      <4> QED BY <1>t, <4>1, <4>2, Revoking
    <3> QED BY <3>1 DEF Issued
  <2>3. tokens' \in [TokenIds -> TokenType \cup {None}]
    BY <1>9, <2>2 DEF IssueCommit
  <2> QED BY <1>2, <1>3, <1>9, <1>i, <2>3 DEF IssueCommit, TypeOK
<1>10. CASE LoginFinish(c)
  <2>1. r.session \in SessionType
    BY <1>1, <1>10, Shapes DEF LoginFinish
  <2>2. cookie' \in [Clients -> SessionType \cup {None}]
    BY <1>10, <2>1 DEF LoginFinish, TypeOK
  <2> QED BY <1>2, <1>3, <1>10, <1>i, <2>2 DEF LoginFinish, TypeOK
<1>11. CASE ChangeCommit(c)
  <2>1. r.op = "change"
    BY <1>11 DEF ChangeCommit
  <2>2. r \in [op : {"reset", "change", "reissue"}, user : Users, password : Passwords]
    BY <1>1, <2>1, Shapes
  <2>3. [r EXCEPT !.op = "reissue"] \in RequestType
    BY <2>2 DEF RequestType
  <2> QED BY <1>2, <1>3, <1>11, <2>3 DEF ChangeCommit, TypeOK
<1>12. CASE ChangeReissue(c)
  <2>1. r.user \in Users /\ users[r.user] \in UserRow
    BY <1>1, <1>12, Shapes DEF ChangeReissue, AccountsExist, TypeOK
  <2>2. SessionOf(r.user) \in SessionType
    BY <2>1 DEF SessionOf, SessionType, UserRow
  <2>3. cookie' \in [Clients -> SessionType \cup {None}]
    BY <1>12, <2>2 DEF ChangeReissue, TypeOK
  <2> QED BY <1>2, <1>3, <1>12, <1>i, <2>3 DEF ChangeReissue, TypeOK
<1> QED BY <1>4, <1>5, <1>6, <1>7, <1>8, <1>9, <1>10, <1>11, <1>12 DEF Continue

(* One client's request changes, and no row is removed.                    *)
LEMMA OneRequest ==
  ASSUME TypeOK, AccountsExist, NEW c \in Clients, NEW q,
         req' = [req EXCEPT ![c] = q],
         \A u \in Users : users[u] # None => users'[u] # None,
         q.op \in {"disable", "enable", "reset", "change", "reissue"} =>
            q.user \in Users /\ users'[q.user] # None,
         q.op = "login" => q.session.user \in Users /\ users'[q.session.user] # None,
         \A d \in Clients : cookie'[d] # None =>
            cookie'[d] = cookie[d] \/ (cookie'[d].user \in Users /\ users'[cookie'[d].user] # None)
  PROVE  AccountsExist'
<1>1. ASSUME NEW d \in Clients PROVE req'[d] = IF d = c THEN q ELSE req[d]
  BY DEF TypeOK
<1>2. ASSUME NEW d \in Clients, req[d].op \in {"disable", "enable", "reset", "change", "reissue"}
      PROVE  req[d].user \in Users /\ users'[req[d].user] # None
  <2>1. req[d].user \in Users
    BY <1>2, Shapes DEF TypeOK
  <2> QED BY <1>2, <2>1 DEF AccountsExist
<1>3. ASSUME NEW d \in Clients, req[d].op = "login"
      PROVE  req[d].session.user \in Users /\ users'[req[d].session.user] # None
  <2>1. req[d].session.user \in Users
    BY <1>3, Shapes DEF TypeOK, SessionType
  <2> QED BY <1>3, <2>1 DEF AccountsExist
<1>4. ASSUME NEW d \in Clients, cookie'[d] # None PROVE users'[cookie'[d].user] # None
  <2>1. CASE cookie'[d] = cookie[d]
    <3>1. cookie[d] # None /\ cookie[d].user \in Users
      BY <1>4, <2>1 DEF TypeOK, SessionType
    <3> QED BY <2>1, <3>1 DEF AccountsExist
  <2> QED BY <1>4, <2>1
<1> QED BY <1>1, <1>2, <1>3, <1>4 DEF AccountsExist

LEMMA RequestExist ==
  ASSUME TypeOK, AccountsExist, NEW c \in Clients, Request(c)
  PROVE  AccountsExist'
<1>0. SignedIn(c) => cookie[c].user \in Users /\ users[cookie[c].user] # None
  BY DEF SignedIn, TypeOK, SessionType
<1>1. ASSUME NEW q, Begin(c, q),
             q.op \in {"disable", "enable", "reset", "change", "reissue"} =>
                q.user \in Users /\ users[q.user] # None,
             q.op = "login" => q.session.user \in Users /\ users[q.session.user] # None
      PROVE  AccountsExist'
  <2>1. req' = [req EXCEPT ![c] = q] /\ users' = users /\ cookie' = cookie
    BY <1>1 DEF Begin
  <2>2. \A d \in Clients : cookie'[d] = cookie[d]
    BY <2>1
  <2> HIDE DEF Begin
  <2> QED BY <1>1, <2>1, <2>2, OneRequest
<1>2. ASSUME NEW u \in Users, NEW f \in Forms, UpsertBegin(c, u, f) PROVE AccountsExist'
  <2>1. PICK q : Begin(c, q) /\ q.op = "upsert"
    BY <1>2 DEF UpsertBegin
  <2> QED BY <1>1, <2>1
<1>3. ASSUME NEW u \in Users, DisableBegin(c, u) \/ EnableBegin(c, u) PROVE AccountsExist'
  <2>1. users[u] # None
    BY <1>3 DEF DisableBegin, EnableBegin
  <2>2. CASE DisableBegin(c, u)
    BY <1>1, <2>1, <2>2 DEF DisableBegin
  <2>3. CASE EnableBegin(c, u)
    BY <1>1, <2>1, <2>3 DEF EnableBegin
  <2> QED BY <1>3, <2>2, <2>3
<1>4. ASSUME NEW u \in Users, NEW p \in Passwords, ResetBegin(c, u, p) PROVE AccountsExist'
  BY <1>1, <1>4 DEF ResetBegin
<1>5. ASSUME NEW u \in Users, NEW p \in Passwords, LoginVerify(c, u, p) PROVE AccountsExist'
  <2>1. users[u] # None /\ SessionOf(u).user = u
    BY <1>5 DEF LoginVerify, Authenticates, SessionOf
  <2> QED BY <1>1, <1>5, <2>1 DEF LoginVerify
<1>6. ASSUME NEW u \in Users, NEW k \in Kinds, RevokeByAdmin(c, u, k) PROVE AccountsExist'
  BY <1>1, <1>6 DEF RevokeByAdmin, RevokeStage
<1>7. ASSUME NEW k \in Kinds, RevokeOwn(c, k) PROVE AccountsExist'
  BY <1>1, <1>7 DEF RevokeOwn, RevokeStage
<1>8. CASE IssueApiBegin(c) \/ IssueMcpBegin(c)
  <2>1. PICK q : Begin(c, q) /\ q.op = "issue"
    BY <1>8 DEF IssueApiBegin, IssueMcpBegin
  <2> QED BY <1>1, <2>1
<1>9. ASSUME NEW p \in Passwords, ChangeBegin(c, p) PROVE AccountsExist'
  BY <1>0, <1>1, <1>9 DEF ChangeBegin
<1>10. ASSUME users' = users, req' = req, \A d \in Clients : cookie'[d] # None => cookie'[d] = cookie[d]
       PROVE  AccountsExist'
  BY <1>10 DEF AccountsExist
<1>11. CASE CookieGone(c)
  BY <1>10, <1>11 DEF CookieGone, TypeOK
<1>12. ASSUME NEW k \in Kinds, NEW b \in BOOLEAN, SystemToggle(c, k, b) PROVE AccountsExist'
  BY <1>10, <1>12 DEF SystemToggle
<1>13. ASSUME NEW d \in Directories, NEW b \in BOOLEAN, SystemIdpCreate(c, d, b) PROVE AccountsExist'
  BY <1>10, <1>13 DEF SystemIdpCreate
<1> QED BY <1>2, <1>3, <1>4, <1>5, <1>6, <1>7, <1>8, <1>9, <1>11, <1>12, <1>13 DEF Request

LEMMA ContinueExist ==
  ASSUME TypeOK, AccountsExist, NEW c \in Clients, Continue(c)
  PROVE  AccountsExist'
<1> DEFINE r == req[c]
<1>r. r \in RequestType
  BY DEF TypeOK
<1>1. \A u \in Users : users[u] # None => users'[u] # None
  BY RowsWritten
<1>2. ASSUME NEW q, req' = [req EXCEPT ![c] = q], cookie' = cookie,
             q.op \notin {"disable", "enable", "reset", "change", "login"},
             q.op = "reissue" => q.user \in Users /\ users'[q.user] # None
      PROVE  AccountsExist'
  <2>1. \A d \in Clients : cookie'[d] = cookie[d]
    BY <1>2
  <2> QED BY <1>1, <1>2, <2>1, OneRequest
<1>3. CASE UpsertCommit(c)
  BY <1>2, <1>3 DEF UpsertCommit, RevokeStage
<1>4. CASE DisableCommit(c)
  BY <1>2, <1>4 DEF DisableCommit, RevokeStage
<1>5. CASE EnableCommit(c) \/ ResetCommit(c) \/ RevokeDone(c) \/ IssueCommit(c)
  BY <1>2, <1>5 DEF EnableCommit, ResetCommit, RevokeDone, IssueCommit, Idle
<1>6. CASE RevokeTokens(c)
  <2>1. req' = [req EXCEPT ![c] = [r EXCEPT !.kinds = Tail(r.kinds)]]
    BY <1>6 DEF RevokeTokens
  <2>2. r \in [op : {"revoke"}, user : Users, kinds : Seq(Kinds), old : SUBSET TokenIds]
    BY <1>r, <1>6, Shapes DEF RevokeTokens
  <2>3. [r EXCEPT !.kinds = Tail(r.kinds)].op = "revoke"
    BY <2>2
  <2> QED BY <1>2, <1>6, <2>1, <2>3 DEF RevokeTokens
<1>7. CASE LoginFinish(c)
  <2>1. r.session.user \in Users /\ users[r.session.user] # None
    BY <1>7, Shapes DEF LoginFinish, TypeOK, SessionType, AccountsExist
  <2>2. \A d \in Clients : cookie'[d] = cookie[d] \/ cookie'[d] = r.session
    BY <1>7 DEF LoginFinish, TypeOK
  <2>3. Idle.op = "idle" /\ req' = [req EXCEPT ![c] = Idle] /\ users' = users
    BY <1>7 DEF LoginFinish, Idle
  <2> QED BY <1>1, <2>1, <2>2, <2>3, OneRequest
<1>8. CASE ChangeCommit(c)
  <2>1. r \in [op : {"reset", "change", "reissue"}, user : Users, password : Passwords]
    BY <1>r, <1>8, Shapes DEF ChangeCommit
  <2>2. r.user \in Users /\ users'[r.user] # None
    BY <1>1, <1>8, <2>1 DEF ChangeCommit, AccountsExist
  <2>3. [r EXCEPT !.op = "reissue"].op = "reissue" /\ [r EXCEPT !.op = "reissue"].user = r.user
    BY <2>1
  <2>4. req' = [req EXCEPT ![c] = [r EXCEPT !.op = "reissue"]] /\ cookie' = cookie
    BY <1>8 DEF ChangeCommit
  <2> HIDE DEF r
  <2> QED BY <1>2, <2>2, <2>3, <2>4
<1>9. CASE ChangeReissue(c)
  <2>1. r.user \in Users /\ users[r.user] # None
    BY <1>r, <1>9, Shapes DEF ChangeReissue, AccountsExist
  <2>2. SessionOf(r.user).user = r.user
    BY DEF SessionOf
  <2>3. \A d \in Clients : cookie'[d] = cookie[d] \/ cookie'[d] = SessionOf(r.user)
    BY <1>9 DEF ChangeReissue, TypeOK
  <2>4. Idle.op = "idle" /\ req' = [req EXCEPT ![c] = Idle] /\ users' = users
    BY <1>9 DEF ChangeReissue, Idle
  <2> QED BY <1>1, <2>1, <2>2, <2>3, <2>4, OneRequest
<1> QED BY <1>3, <1>4, <1>5, <1>6, <1>7, <1>8, <1>9 DEF Continue

(* A failed request, a restart, an expiry and a stuttering step.           *)
LEMMA OthersTypeOK ==
  ASSUME TypeOK, AccountsExist,
         \/ \E c \in Clients : Fail(c)
         \/ \E t \in TokenIds : TokenExpires(t)
         \/ Restart
         \/ UNCHANGED vars
  PROVE  TypeOK' /\ AccountsExist'
<1> USE AccountsAssumption
<1>i. Idle \in RequestType /\ Idle.op = "idle"
  BY DEF RequestType, Idle
<1>1. ASSUME NEW c \in Clients, Fail(c) PROVE TypeOK' /\ AccountsExist'
  <2>1. TypeOK'
    BY <1>1, <1>i DEF Fail, TypeOK
  <2>2. \A d \in Clients : cookie'[d] = cookie[d]
    BY <1>1 DEF Fail
  <2>3. AccountsExist'
    BY <1>1, <1>i, <2>2, OneRequest DEF Fail
  <2> QED BY <2>1, <2>3
<1>2. ASSUME NEW t \in TokenIds, TokenExpires(t) PROVE TypeOK' /\ AccountsExist'
  <2>1. tokens[t] \in TokenType
    BY <1>2 DEF TokenExpires, TypeOK
  <2>2. [tokens[t] EXCEPT !.expired = TRUE] \in TokenType
    BY <2>1 DEF TokenType
  <2>3. TypeOK'
    BY <1>2, <2>2 DEF TokenExpires, TypeOK
  <2>4. AccountsExist'
    BY <1>2 DEF TokenExpires, AccountsExist
  <2> QED BY <2>3, <2>4
<1>3. CASE Restart
  <2>1. TypeOK'
    BY <1>3, <1>i DEF Restart, TypeOK
  <2>2. \A d \in Clients : req'[d].op = "idle" /\ (cookie'[d] = cookie[d] \/ cookie'[d] = None)
    BY <1>3, <1>i DEF Restart
  <2>3. users' = users
    BY <1>3 DEF Restart
  <2> QED BY <2>1, <2>2, <2>3 DEF AccountsExist
<1>4. CASE UNCHANGED vars
  <2>1. TypeOK'
    BY <1>4 DEF vars, TypeOK
  <2>2. AccountsExist'
    BY <1>4 DEF vars, AccountsExist
  <2> QED BY <2>1, <2>2
<1> QED BY <1>1, <1>2, <1>3, <1>4

LEMMA TypeStep ==
  ASSUME TypeOK, AccountsExist, [Next]_vars
  PROVE  TypeOK' /\ AccountsExist'
BY RequestTypeOK, RequestExist, ContinueTypeOK, ContinueExist, OthersTypeOK DEF Next

(* The tables, the cookies and the requests keep their types, and no       *)
(* request or session ever refers to an account that does not exist: no    *)
(* handler removes a row of system_users.                                  *)
THEOREM TypeCorrect == Spec => [](TypeOK /\ AccountsExist)
<1>1. Init => TypeOK /\ AccountsExist
  <2> SUFFICES ASSUME Init PROVE TypeOK /\ AccountsExist
    OBVIOUS
  <2>1. Idle \in RequestType /\ Idle.op = "idle"
    BY DEF RequestType, Idle
  <2>2. /\ users \in [Users -> UserRow \cup {None}] /\ requests \in 0 .. MaxRequests
        /\ settings \in [Kinds -> BOOLEAN] /\ directory \in [Directories -> BOOLEAN]
    BY AccountsAssumption DEF Init
  <2>3. /\ tokens \in [TokenIds -> TokenType \cup {None}]
        /\ cookie \in [Clients -> SessionType \cup {None}]
    BY DEF Init
  <2>4. req \in [Clients -> RequestType] /\ overlap \in BOOLEAN /\ retired \subseteq TokenIds
    BY <2>1 DEF Init
  <2>5. TypeOK
    BY <2>2, <2>3, <2>4 DEF TypeOK
  <2>6. AccountsExist
    BY <2>1 DEF Init, AccountsExist
  <2> QED BY <2>5, <2>6
<1>2. TypeOK /\ AccountsExist /\ [Next]_vars => TypeOK' /\ AccountsExist'
  BY TypeStep
<1> QED BY <1>1, <1>2, PTL DEF Spec

-----------------------------------------------------------------------------
(* The last administrator.                                                 *)

(* Administrators stay and no removal starts.                              *)
LEMMA AdminsStay ==
  ASSUME AdminInv, overlap' = overlap,
         \A u \in Users : IsEnabledAdmin(u) => IsEnabledAdmin(u)',
         \A d \in Clients : Removal(req'[d]) => req'[d] = req[d]
  PROVE  AdminInv'
<1> SUFFICES ASSUME ~overlap PROVE AdminInv'
  BY DEF AdminInv
<1>1. \E u \in Users : IsEnabledAdmin(u)'
  BY DEF AdminInv
<1>2. ASSUME NEW c \in Clients, Removal(req'[c])
      PROVE  /\ \E u \in Users \ {req'[c].user} : IsEnabledAdmin(u)'
             /\ \A d \in Clients : Removal(req'[d]) => d = c
  <2>1. req'[c] = req[c] /\ Removal(req[c])
    BY <1>2
  <2>2. \E u \in Users \ {req[c].user} : IsEnabledAdmin(u)
    BY <2>1 DEF AdminInv
  <2>3. \A d \in Clients : Removal(req[d]) => d = c
    BY <2>1 DEF AdminInv
  <2> QED BY <2>1, <2>2, <2>3
<1> QED BY <1>1, <1>2 DEF AdminInv

(* A request is sent: a removal is guarded, the others do not count.       *)
LEMMA AdminBegin ==
  ASSUME TypeOK, AdminInv, NEW c \in Clients, NEW q, Begin(c, q),
         Removal(q) /\ (\E u \in Users : IsEnabledAdmin(u)) =>
            \E u \in Users \ {q.user} : IsEnabledAdmin(u)
  PROVE  AdminInv'
<1>1. /\ users' = users /\ req' = [req EXCEPT ![c] = q] /\ req[c] = Idle
      /\ overlap' = (overlap \/ (Removal(q) /\ \E d \in Clients : Removal(req[d])))
  BY DEF Begin
<1>2. ASSUME NEW d \in Clients PROVE req'[d] = IF d = c THEN q ELSE req[d]
  BY <1>1 DEF TypeOK
<1>3. \A u : IsEnabledAdmin(u)' <=> IsEnabledAdmin(u)
  BY <1>1 DEF IsEnabledAdmin
<1>4. ~Removal(req[c])
  BY <1>1 DEF Removal, Idle
<1> SUFFICES ASSUME ~overlap' PROVE AdminInv'
  BY DEF AdminInv
<1>5. ~overlap /\ \E u \in Users : IsEnabledAdmin(u)
  BY <1>1 DEF AdminInv
<1>6. CASE Removal(q)
  <2>1. \A d \in Clients : ~Removal(req[d])
    BY <1>1, <1>6
  <2>2. \E u \in Users \ {q.user} : IsEnabledAdmin(u)
    BY <1>5, <1>6
  <2>3. \A d \in Clients : Removal(req'[d]) => d = c
    BY <1>2, <2>1
  <2>4. req'[c].user = q.user
    BY <1>2
  <2> QED BY <1>3, <1>5, <2>2, <2>3, <2>4 DEF AdminInv
<1>7. CASE ~Removal(q)
  <2>1. \A d \in Clients : Removal(req'[d]) => req'[d] = req[d]
    BY <1>2, <1>7
  <2>2. overlap' = overlap
    <3>1. overlap \in BOOLEAN
      BY DEF TypeOK
    <3> QED BY <1>1, <1>7, <3>1
  <2> QED BY <1>3, <2>1, <2>2, AdminsStay
<1> QED BY <1>6, <1>7

LEMMA AdminRequest ==
  ASSUME TypeOK, AdminInv, NEW c \in Clients, Request(c)
  PROVE  AdminInv'
<1>1. ASSUME NEW q, Begin(c, q), ~Removal(q) PROVE AdminInv'
  BY <1>1, AdminBegin
<1>2. ASSUME NEW u \in Users, NEW role, NEW enabled \in BOOLEAN,
             GuardAdminAccess(c, u, role, enabled), ~(enabled /\ role = "ADMIN"),
             \E v \in Users : IsEnabledAdmin(v)
      PROVE  \E v \in Users \ {u} : IsEnabledAdmin(v)
  <2>1. CASE users[u] # None /\ users[u].role = "ADMIN"
    BY <1>2, <2>1 DEF GuardAdminAccess, EnabledAdmins
  <2>2. CASE ~(users[u] # None /\ users[u].role = "ADMIN")
    BY <1>2, <2>2 DEF IsEnabledAdmin
  <2> QED BY <2>1, <2>2
<1>3. ASSUME NEW u \in Users, NEW f \in Forms, UpsertBegin(c, u, f) PROVE AdminInv'
  <2>1. f.enabled \in BOOLEAN
    BY AccountsAssumption DEF FormType
  <2>2. PICK q : Begin(c, q) /\ q.op = "upsert" /\ q.user = u /\ q.form = f
    BY <1>3 DEF UpsertBegin
  <2>3. GuardAdminAccess(c, u, f.role, f.enabled)
    BY <1>3 DEF UpsertBegin
  <2>4. Removal(q) => ~(f.enabled /\ f.role = "ADMIN")
    BY <2>2 DEF Removal
  <2> QED BY <1>2, <2>1, <2>2, <2>3, <2>4, AdminBegin
<1>4. ASSUME NEW u \in Users, DisableBegin(c, u) PROVE AdminInv'
  <2>1. PICK q : Begin(c, q) /\ q.user = u
    BY <1>4 DEF DisableBegin
  <2>2. GuardAdminAccess(c, u, users[u].role, FALSE)
    BY <1>4 DEF DisableBegin
  <2>3. (\E v \in Users : IsEnabledAdmin(v)) => \E v \in Users \ {u} : IsEnabledAdmin(v)
    BY <1>2, <2>2
  <2> QED BY <2>1, <2>3, AdminBegin
<1>5. ASSUME NEW u \in Users, EnableBegin(c, u) PROVE AdminInv'
  BY <1>1, <1>5 DEF EnableBegin, Removal
<1>6. ASSUME NEW u \in Users, NEW p \in Passwords, ResetBegin(c, u, p) \/ LoginVerify(c, u, p) PROVE AdminInv'
  BY <1>1, <1>6 DEF ResetBegin, LoginVerify, Removal
<1>7. ASSUME NEW u \in Users, NEW k \in Kinds, RevokeByAdmin(c, u, k) PROVE AdminInv'
  BY <1>1, <1>7 DEF RevokeByAdmin, RevokeStage, Removal
<1>8. ASSUME NEW k \in Kinds, RevokeOwn(c, k) PROVE AdminInv'
  BY <1>1, <1>8 DEF RevokeOwn, RevokeStage, Removal
<1>9. CASE IssueApiBegin(c) \/ IssueMcpBegin(c)
  BY <1>1, <1>9 DEF IssueApiBegin, IssueMcpBegin, Removal
<1>10. ASSUME NEW p \in Passwords, ChangeBegin(c, p) PROVE AdminInv'
  BY <1>1, <1>10 DEF ChangeBegin, Removal
<1>11. ASSUME UNCHANGED <<users, req, overlap>> PROVE AdminInv'
  BY <1>11 DEF AdminInv, IsEnabledAdmin
<1> QED BY <1>3, <1>4, <1>5, <1>6, <1>7, <1>8, <1>9, <1>10, <1>11
    DEF Request, CookieGone, SystemToggle, SystemIdpCreate

(* A commit adds administrators or is the one removal in flight.           *)
LEMMA AdminContinue ==
  ASSUME TypeOK, AccountsExist, AdminInv, NEW c \in Clients, Continue(c)
  PROVE  AdminInv'
<1> DEFINE r == req[c]
<1>r. r \in RequestType /\ users \in [Users -> UserRow \cup {None}]
  BY DEF TypeOK
<1>o. overlap' = overlap
  BY DEF Continue, UpsertCommit, DisableCommit, EnableCommit, ResetCommit, RevokeTokens,
         RevokeDone, IssueCommit, LoginFinish, ChangeCommit, ChangeReissue
<1>1. ASSUME NEW q, req' = [req EXCEPT ![c] = q], ~Removal(q)
      PROVE  \A d \in Clients : Removal(req'[d]) => req'[d] = req[d] /\ d # c
  BY <1>1 DEF TypeOK
<1>2. ASSUME NEW q, req' = [req EXCEPT ![c] = q], ~Removal(q),
             \A u \in Users : IsEnabledAdmin(u) => IsEnabledAdmin(u)'
      PROVE  AdminInv'
  BY <1>o, <1>1, <1>2, AdminsStay
(* A removal is committed: the other administrator it left is there.       *)
<1>3. ASSUME NEW q, req' = [req EXCEPT ![c] = q], ~Removal(q), Removal(r),
             \A u \in Users : u # r.user => users'[u] = users[u]
      PROVE  AdminInv'
  <2> SUFFICES ASSUME ~overlap PROVE AdminInv'
    BY <1>o DEF AdminInv
  <2>1. PICK u \in Users \ {r.user} : IsEnabledAdmin(u)
    BY <1>3 DEF AdminInv
  <2>2. IsEnabledAdmin(u)'
    BY <1>3, <2>1 DEF IsEnabledAdmin
  <2>3. \A d \in Clients : ~Removal(req'[d])
    <3>1. \A d \in Clients : Removal(req[d]) => d = c
      BY <1>3 DEF AdminInv
    <3> QED BY <1>1, <1>3, <3>1
  <2> QED BY <2>2, <2>3 DEF AdminInv
<1>s. \A u, kinds, old : ~Removal(RevokeStage(u, kinds, old))
  BY DEF Removal, RevokeStage
<1>i. ~Removal(Idle)
  BY DEF Removal, Idle
<1>4. CASE UpsertCommit(c)
  <2>1. r \in [op : {"upsert"}, user : Users, form : Forms, access : [Kinds -> BOOLEAN],
               old : SUBSET TokenIds]
    BY <1>r, <1>4, Shapes DEF UpsertCommit
  <2>2. PICK new \in UserRow : /\ users' = [users EXCEPT ![r.user] = new]
                               /\ new.role = r.form.role /\ new.enabled = r.form.enabled
    <3> DEFINE up == Upserted(r.user, r.form, r.access)
    <3>1. up \in UserRow /\ up.role = r.form.role /\ up.enabled = r.form.enabled
      BY <1>r, <2>1, UpsertedRow
    <3>2. users' = [users EXCEPT ![r.user] = up]
      BY <1>4 DEF UpsertCommit
    <3> HIDE DEF up
    <3> QED BY <3>1, <3>2
  <2>3. PICK q : req' = [req EXCEPT ![c] = q] /\ ~Removal(q)
    BY <1>4, <1>s DEF UpsertCommit
  <2>4. \A u \in Users : users'[u] = IF u = r.user THEN new ELSE users[u]
    BY <1>r, <2>1, <2>2
  <2>5. CASE Removal(r)
    BY <1>3, <2>3, <2>4, <2>5
  <2>6. CASE ~Removal(r)
    <3>1. r.form.role = "ADMIN" /\ r.form.enabled
      BY <2>1, <2>6 DEF Removal
    <3>2. new # None
      BY AccountsAssumption
    <3>3. \A u \in Users : IsEnabledAdmin(u) => IsEnabledAdmin(u)'
      BY <2>2, <2>4, <3>1, <3>2 DEF IsEnabledAdmin
    <3> QED BY <1>2, <2>3, <3>3
  <2> QED BY <2>5, <2>6
<1>5. CASE DisableCommit(c)
  <2>1. r.user \in Users /\ Removal(r)
    BY <1>r, <1>5, Shapes DEF DisableCommit, Removal
  <2>2. \A u \in Users : u # r.user => users'[u] = users[u]
    BY <1>r, <1>5, <2>1 DEF DisableCommit
  <2>3. PICK q : req' = [req EXCEPT ![c] = q] /\ ~Removal(q)
    BY <1>5, <1>s DEF DisableCommit
  <2> QED BY <1>3, <2>1, <2>2, <2>3
<1>6. ASSUME NEW q, req' = [req EXCEPT ![c] = q], ~Removal(q), r.user \in Users,
             users[r.user] \in UserRow, NEW new \in UserRow,
             users' = [users EXCEPT ![r.user] = new],
             new.role = users[r.user].role, users[r.user].enabled => new.enabled
      PROVE  AdminInv'
  <2>1. \A u \in Users : users'[u] = IF u = r.user THEN new ELSE users[u]
    BY <1>r, <1>6
  <2>2. new # None
    BY AccountsAssumption
  <2>3. \A u \in Users : IsEnabledAdmin(u) => IsEnabledAdmin(u)'
    BY <1>6, <2>1, <2>2 DEF IsEnabledAdmin
  <2> QED BY <1>2, <1>6, <2>3
<1>7. CASE EnableCommit(c)
  <2>1. r.user \in Users /\ users[r.user] \in UserRow
    BY <1>r, <1>7, Shapes DEF EnableCommit, AccountsExist
  <2>2. [users[r.user] EXCEPT !.enabled = TRUE] \in UserRow
    BY <2>1 DEF UserRow
  <2>3. /\ [users[r.user] EXCEPT !.enabled = TRUE].role = users[r.user].role
        /\ [users[r.user] EXCEPT !.enabled = TRUE].enabled
    BY <2>1 DEF UserRow
  <2> QED BY <1>6, <1>7, <1>i, <2>1, <2>2, <2>3 DEF EnableCommit
<1>8. CASE ResetCommit(c)
  <2>1. r.user \in Users /\ users[r.user] \in UserRow /\ r.password \in Passwords
    BY <1>r, <1>8, Shapes DEF ResetCommit, AccountsExist
  <2>2. /\ WithReset(users[r.user], r.password) \in UserRow
        /\ WithReset(users[r.user], r.password).role = users[r.user].role
        /\ WithReset(users[r.user], r.password).enabled = users[r.user].enabled
    BY <2>1, Rewritten
  <2> QED BY <1>6, <1>8, <1>i, <2>1, <2>2 DEF ResetCommit
<1>9. CASE ChangeCommit(c)
  <2>1. r.user \in Users /\ users[r.user] \in UserRow /\ r.password \in Passwords
    BY <1>r, <1>9, Shapes DEF ChangeCommit, AccountsExist
  <2>2. /\ WithChanged(users[r.user], r.password) \in UserRow
        /\ WithChanged(users[r.user], r.password).role = users[r.user].role
        /\ WithChanged(users[r.user], r.password).enabled = users[r.user].enabled
    BY <2>1, Rewritten
  <2>3. PICK q : req' = [req EXCEPT ![c] = q] /\ q = [r EXCEPT !.op = "reissue"]
    BY <1>9 DEF ChangeCommit
  <2>4. r \in [op : {"reset", "change", "reissue"}, user : Users, password : Passwords]
    BY <1>r, <1>9, Shapes DEF ChangeCommit
  <2>5. q.op = "reissue"
    BY <2>3, <2>4
  <2>6. ~Removal(q)
    BY <2>5 DEF Removal
  <2> QED BY <1>6, <1>9, <2>1, <2>2, <2>3, <2>6 DEF ChangeCommit
<1>10. CASE RevokeTokens(c)
  <2>1. PICK q : req' = [req EXCEPT ![c] = q] /\ q = [r EXCEPT !.kinds = Tail(r.kinds)]
    BY <1>10 DEF RevokeTokens
  <2>2. r \in [op : {"revoke"}, user : Users, kinds : Seq(Kinds), old : SUBSET TokenIds]
    BY <1>r, <1>10, Shapes DEF RevokeTokens
  <2>3. q.op = "revoke"
    BY <2>1, <2>2
  <2>4. ~Removal(q)
    BY <2>3 DEF Removal
  <2>5. \A u \in Users : IsEnabledAdmin(u) => IsEnabledAdmin(u)'
    BY <1>10 DEF RevokeTokens, IsEnabledAdmin
  <2> QED BY <1>2, <2>1, <2>4, <2>5
<1>11. CASE RevokeDone(c) \/ IssueCommit(c) \/ LoginFinish(c) \/ ChangeReissue(c)
  <2>1. req' = [req EXCEPT ![c] = Idle] /\ users' = users
    BY <1>11 DEF RevokeDone, IssueCommit, LoginFinish, ChangeReissue
  <2>2. \A u \in Users : IsEnabledAdmin(u) => IsEnabledAdmin(u)'
    BY <2>1 DEF IsEnabledAdmin
  <2> QED BY <1>2, <1>i, <2>1, <2>2
<1> QED BY <1>4, <1>5, <1>7, <1>8, <1>9, <1>10, <1>11 DEF Continue

(* For any number of administrators, clients and requests, and any forms:  *)
(* as long as no two requests that may take an administrator's access away *)
(* were in flight together, an enabled administrator remains.              *)
THEOREM AnAdministratorRemains == Spec => []AdministratorRemains
<1>1. Init => AdminInv
  BY AccountsAssumption DEF Init, AdminInv, IsEnabledAdmin, Removal, Idle
<1>2. TypeOK /\ AccountsExist /\ AdminInv /\ [Next]_vars => AdminInv'
  <2> SUFFICES ASSUME TypeOK, AccountsExist, AdminInv, [Next]_vars PROVE AdminInv'
    OBVIOUS
  <2>i. Idle \in RequestType /\ ~Removal(Idle)
    BY DEF RequestType, Removal, Idle
  <2>1. ASSUME overlap' = overlap, users' = users,
               \A d \in Clients : req'[d] = req[d] \/ req'[d] = Idle
        PROVE  AdminInv'
    BY <2>i, <2>1, AdminsStay DEF IsEnabledAdmin
  <2>2. ASSUME NEW c \in Clients, Fail(c) PROVE AdminInv'
    BY <2>1, <2>2 DEF Fail, TypeOK
  <2>3. CASE Restart
    BY <2>1, <2>3 DEF Restart
  <2>4. CASE (\E t \in TokenIds : TokenExpires(t)) \/ UNCHANGED vars
    BY <2>1, <2>4 DEF TokenExpires, vars
  <2> QED BY <2>2, <2>3, <2>4, AdminRequest, AdminContinue DEF Next
<1>3. AdminInv => AdministratorRemains
  BY DEF AdminInv, AdministratorRemains
<1> QED BY <1>1, <1>2, <1>3, TypeCorrect, PTL DEF Spec

-----------------------------------------------------------------------------
(* Sessions and credentials.                                               *)

(* A row and what a commit makes of it: a later session_version, or the    *)
(* same one with the same source and, unless a form set it, password.      *)
Follows(old, new) ==
    \/ new.version > old.version
    \/ /\ new.version = old.version
       /\ new.source = old.source
       /\ new.source = Local /\ ~new.byForm => ~old.byForm /\ new.password = old.password

LEMMA UpsertFollows ==
  ASSUME users \in [Users -> UserRow \cup {None}], NEW u \in Users, NEW f \in Forms,
         NEW access \in [Kinds -> BOOLEAN], users[u] # None
  PROVE  Follows(users[u], Upserted(u, f, access))
<1> DEFINE new == Upserted(u, f, access)
<1>1. users[u] \in UserRow
  OBVIOUS
<1>2. /\ new.source = f.source
      /\ new.version = users[u].version + (IF f.source # users[u].source THEN 1 ELSE 0)
  BY DEF Upserted
<1>3. users[u].version \in Nat
  BY <1>1 DEF UserRow
<1>4. CASE f.source # users[u].source
  <2>1. new.version = users[u].version + 1
    BY <1>2, <1>4
  <2> HIDE DEF new
  <2>2. new.version > users[u].version
    BY <1>3, <2>1
  <2> QED BY <2>2 DEF Follows, new
<1>5. CASE f.source = users[u].source
  <2>1. new.version = users[u].version /\ new.source = users[u].source
    BY <1>2, <1>3, <1>5
  <2>2. /\ new.byForm = IF f.password # None THEN TRUE ELSE users[u].byForm
        /\ new.password = IF f.source # Local THEN None
                          ELSE IF f.password # None THEN f.password ELSE users[u].password
    BY DEF Upserted
  <2> HIDE DEF new
  <2>3. new.source = Local /\ ~new.byForm => ~users[u].byForm /\ new.password = users[u].password
    BY <1>2, <2>2
  <2> QED BY <2>1, <2>3 DEF Follows, new
<1> QED BY <1>4, <1>5

(* Every commit makes of every row one that follows it.                    *)
LEMMA RowsFollow ==
  ASSUME TypeOK, AccountsExist, NEW c \in Clients, Continue(c),
         NEW u \in Users, users[u] # None
  PROVE  Follows(users[u], users'[u])
<1> DEFINE r == req[c]
<1>r. r \in RequestType /\ users \in [Users -> UserRow \cup {None}]
  BY DEF TypeOK
<1>1. users[u] \in UserRow /\ users[u].version \in Nat
  BY <1>r DEF UserRow
<1>2. ASSUME users'[u] = users[u] PROVE Follows(users[u], users'[u])
  BY <1>2 DEF Follows
<1>3. CASE UpsertCommit(c)
  <2>1. r.user \in Users /\ r.form \in Forms /\ r.access \in [Kinds -> BOOLEAN]
    BY <1>r, <1>3, Shapes DEF UpsertCommit
  <2>2. CASE u = r.user
    <3>1. users'[u] = Upserted(u, r.form, r.access)
      BY <1>r, <1>3, <2>2 DEF UpsertCommit
    <3> QED BY <1>r, <2>1, <3>1, UpsertFollows
  <2>3. CASE u # r.user
    BY <1>r, <1>2, <1>3, <2>3 DEF UpsertCommit
  <2> QED BY <2>2, <2>3
<1>4. CASE DisableCommit(c) \/ EnableCommit(c)
  <2>1. CASE u = r.user
    <3>1. PICK b \in BOOLEAN : users'[u] = [users[u] EXCEPT !.enabled = b]
      BY <1>r, <1>4, <2>1 DEF DisableCommit, EnableCommit
    <3>2. /\ users'[u].version = users[u].version /\ users'[u].source = users[u].source
          /\ users'[u].byForm = users[u].byForm /\ users'[u].password = users[u].password
      BY <1>1, <3>1 DEF UserRow
    <3> QED BY <3>2 DEF Follows
  <2>2. CASE u # r.user
    BY <1>r, <1>2, <1>4, <2>2 DEF DisableCommit, EnableCommit
  <2> QED BY <2>1, <2>2
<1>5. CASE ResetCommit(c) \/ ChangeCommit(c)
  <2>1. CASE u = r.user
    <3>1. users'[u] = WithReset(users[u], r.password) \/ users'[u] = WithChanged(users[u], r.password)
      BY <1>r, <1>5, <2>1 DEF ResetCommit, ChangeCommit
    <3>2. users'[u].version = users[u].version + 1
      BY <1>1, <3>1 DEF WithReset, WithChanged, UserRow
    <3>3. users'[u].version > users[u].version
      BY <1>1, <3>2
    <3> QED BY <3>3 DEF Follows
  <2>2. CASE u # r.user
    BY <1>r, <1>2, <1>5, <2>2 DEF ResetCommit, ChangeCommit
  <2> QED BY <2>1, <2>2
<1>6. CASE users' = users
  BY <1>2, <1>6
<1> QED BY <1>3, <1>4, <1>5, <1>6
    DEF Continue, RevokeTokens, RevokeDone, IssueCommit, LoginFinish, ChangeReissue

LEMMA DatedFollows ==
  ASSUME NEW s \in SessionType, Dated(s), users[s.user] \in UserRow, users'[s.user] \in UserRow,
         Follows(users[s.user], users'[s.user])
  PROVE  Dated(s)'
<1> DEFINE row == users[s.user]
           new == users'[s.user]
<1>1. s.version \in Nat /\ row.version \in Nat /\ new.version \in Nat
  BY DEF SessionType, UserRow
<1>2. /\ s.version <= row.version
      /\ s.version = row.version =>
            s.source = row.source /\ (row.source = Local /\ ~row.byForm => s.password = row.password)
  BY DEF Dated
<1>3. \/ new.version > row.version
      \/ /\ new.version = row.version /\ new.source = row.source
         /\ new.source = Local /\ ~new.byForm => ~row.byForm /\ new.password = row.password
  BY DEF Follows
<1> HIDE DEF row, new
<1>4. /\ s.version <= new.version
      /\ s.version = new.version =>
            s.source = new.source /\ (new.source = Local /\ ~new.byForm => s.password = new.password)
  BY <1>1, <1>2, <1>3
<1> QED BY <1>4 DEF Dated, new

LEMMA FreshSession ==
  ASSUME NEW u \in Users, users[u] \in UserRow
  PROVE  SessionOf(u) \in SessionType /\ Dated(SessionOf(u))
BY DEF SessionOf, SessionType, UserRow, Dated

(* A step keeps the sessions it has, and adds dated ones.                  *)
LEMMA SessionsKept ==
  ASSUME TypeOK, AccountsExist, TypeOK', AccountsExist', SessionInv,
         \A u \in Users : users[u] # None => users'[u] # None /\ Follows(users[u], users'[u]),
         \A d \in Clients : cookie'[d] # None =>
            \/ cookie'[d] = cookie[d]
            \/ req[d].op = "login" /\ cookie'[d] = req[d].session
            \/ users' = users /\ \E u \in Users : users[u] # None /\ cookie'[d] = SessionOf(u),
         \A d \in Clients : req'[d].op = "login" =>
            \/ req'[d] = req[d]
            \/ users' = users /\ \E u \in Users : users[u] # None /\ req'[d].session = SessionOf(u)
  PROVE  SessionInv'
<1>1. ASSUME NEW s \in SessionType, Dated(s), users[s.user] # None PROVE Dated(s)'
  <2>1. s.user \in Users
    BY DEF SessionType
  <2>2. Follows(users[s.user], users'[s.user])
    BY <1>1, <2>1
  <2>3. users[s.user] \in UserRow
    BY <1>1, <2>1 DEF TypeOK
  <2>4. users'[s.user] \in UserRow
    BY <1>1, <2>1 DEF TypeOK
  <2> QED BY <1>1, <2>2, <2>3, <2>4, DatedFollows
<1>2. ASSUME NEW s, NEW u \in Users, users[u] # None, users' = users, s = SessionOf(u)
      PROVE  Dated(s)'
  <2>1. users[u] \in UserRow
    BY <1>2 DEF TypeOK
  <2>2. s.user = u /\ Dated(s)
    BY <1>2, <2>1, FreshSession DEF SessionOf
  <2> QED BY <1>2, <2>2 DEF Dated
<1>3. ASSUME NEW d \in Clients, req[d].op = "login"
      PROVE  req[d].session \in SessionType /\ users[req[d].session.user] # None /\ Dated(req[d].session)
  BY <1>3, Shapes DEF TypeOK, AccountsExist, SessionInv
<1>4. ASSUME NEW d \in Clients, NEW s, s = cookie'[d], s # None PROVE Dated(s)'
  <2>1. CASE s = cookie[d]
    <3>1. s \in SessionType /\ users[s.user] # None /\ Dated(s)
      BY <1>4, <2>1 DEF TypeOK, AccountsExist, SessionInv
    <3> QED BY <1>1, <3>1
  <2>2. CASE req[d].op = "login" /\ s = req[d].session
    BY <1>1, <1>3, <2>2
  <2>3. CASE users' = users /\ \E u \in Users : users[u] # None /\ s = SessionOf(u)
    BY <1>2, <2>3
  <2> QED BY <1>4, <2>1, <2>2, <2>3
<1>5. ASSUME NEW d \in Clients, req'[d].op = "login", NEW s, s = req'[d].session PROVE Dated(s)'
  <2>1. CASE req'[d] = req[d]
    BY <1>1, <1>3, <1>5, <2>1
  <2>2. CASE users' = users /\ \E u \in Users : users[u] # None /\ s = SessionOf(u)
    BY <1>2, <2>2
  <2> QED BY <1>5, <2>1, <2>2
<1>6. \A d \in Clients : cookie'[d] # None => Dated(cookie[d])'
  BY <1>4 DEF Dated
<1>7. \A d \in Clients : req'[d].op = "login" => Dated(req[d].session)'
  BY <1>5 DEF Dated
<1> QED BY <1>6, <1>7 DEF SessionInv

LEMMA SessionStep ==
  ASSUME TypeOK, AccountsExist, SessionInv, [Next]_vars
  PROVE  SessionInv'
<1>t. TypeOK' /\ AccountsExist'
  BY TypeStep
<1>i. Idle.op = "idle"
  BY DEF Idle
<1>1. ASSUME users' = users,
             \A d \in Clients : cookie'[d] = cookie[d] \/ cookie'[d] = None,
             \A d \in Clients : req'[d].op = "login" =>
                req'[d] = req[d] \/ \E u \in Users : users[u] # None /\ req'[d].session = SessionOf(u)
      PROVE  SessionInv'
  <2>1. \A u \in Users : users[u] # None => users'[u] # None /\ Follows(users[u], users'[u])
    BY <1>1 DEF Follows
  <2> QED BY <1>t, <1>1, <2>1, SessionsKept
<1>2. ASSUME NEW c \in Clients, NEW q, Begin(c, q),
             q.op = "login" => \E u \in Users : users[u] # None /\ q.session = SessionOf(u)
      PROVE  SessionInv'
  <2>1. req' = [req EXCEPT ![c] = q] /\ users' = users /\ cookie' = cookie
    BY <1>2 DEF Begin
  <2>2. \A d \in Clients : req'[d] = IF d = c THEN q ELSE req[d]
    BY <2>1 DEF TypeOK
  <2> QED BY <1>1, <1>2, <2>1, <2>2
<1>3. ASSUME NEW c \in Clients, Request(c) PROVE SessionInv'
  <2>1. ASSUME NEW u \in Users, NEW f \in Forms, UpsertBegin(c, u, f) PROVE SessionInv'
    BY <1>2, <2>1 DEF UpsertBegin
  <2>2. ASSUME NEW u \in Users, DisableBegin(c, u) PROVE SessionInv'
    BY <1>2, <2>2 DEF DisableBegin
  <2>3. ASSUME NEW u \in Users, EnableBegin(c, u) PROVE SessionInv'
    BY <1>2, <2>3 DEF EnableBegin
  <2>4. ASSUME NEW u \in Users, NEW p \in Passwords, ResetBegin(c, u, p) PROVE SessionInv'
    BY <1>2, <2>4 DEF ResetBegin
  <2>5. ASSUME NEW u \in Users, NEW p \in Passwords, LoginVerify(c, u, p) PROVE SessionInv'
    BY <1>2, <2>5 DEF LoginVerify, Authenticates
  <2>6. ASSUME NEW u \in Users, NEW k \in Kinds, RevokeByAdmin(c, u, k) PROVE SessionInv'
    BY <1>2, <2>6 DEF RevokeByAdmin, RevokeStage
  <2>7. ASSUME NEW k \in Kinds, RevokeOwn(c, k) PROVE SessionInv'
    BY <1>2, <2>7 DEF RevokeOwn, RevokeStage
  <2>8. ASSUME IssueApiBegin(c) PROVE SessionInv'
    BY <1>2, <2>8 DEF IssueApiBegin
  <2>9. ASSUME IssueMcpBegin(c) PROVE SessionInv'
    BY <1>2, <2>9 DEF IssueMcpBegin
  <2>10. ASSUME NEW p \in Passwords, ChangeBegin(c, p) PROVE SessionInv'
    BY <1>2, <2>10 DEF ChangeBegin
  <2>11. ASSUME CookieGone(c) PROVE SessionInv'
    BY <1>1, <2>11 DEF CookieGone, TypeOK
  <2>12. ASSUME NEW k \in Kinds, NEW b \in BOOLEAN, SystemToggle(c, k, b) PROVE SessionInv'
    BY <1>1, <2>12 DEF SystemToggle
  <2>13. ASSUME NEW d \in Directories, NEW b \in BOOLEAN, SystemIdpCreate(c, d, b) PROVE SessionInv'
    BY <1>1, <2>13 DEF SystemIdpCreate
  <2> QED BY <1>3, <2>1, <2>2, <2>3, <2>4, <2>5, <2>6, <2>7, <2>8, <2>9, <2>10, <2>11, <2>12, <2>13
          DEF Request
<1>4. ASSUME NEW c \in Clients, Continue(c) PROVE SessionInv'
  <2>1. \A u \in Users : users[u] # None => users'[u] # None /\ Follows(users[u], users'[u])
    BY <1>4, RowsWritten, RowsFollow
  <2>r. req[c] \in RequestType
    BY DEF TypeOK
  <2>2. \A d \in Clients : req'[d].op = "login" => req'[d] = req[d]
    <3>1. ASSUME NEW q, req' = [req EXCEPT ![c] = q], q.op # "login"
          PROVE  \A d \in Clients : req'[d].op = "login" => req'[d] = req[d]
      BY <3>1 DEF TypeOK
    <3>2. CASE UpsertCommit(c) \/ DisableCommit(c)
      BY <3>1, <3>2 DEF UpsertCommit, DisableCommit, RevokeStage
    <3>3. CASE \/ EnableCommit(c) \/ ResetCommit(c) \/ RevokeDone(c) \/ IssueCommit(c)
               \/ LoginFinish(c) \/ ChangeReissue(c)
      <4>1. req' = [req EXCEPT ![c] = Idle]
        BY <3>3 DEF EnableCommit, ResetCommit, RevokeDone, IssueCommit, LoginFinish, ChangeReissue
      <4> QED BY <1>i, <3>1, <4>1
    <3>4. CASE RevokeTokens(c)
      <4>1. req' = [req EXCEPT ![c] = [req[c] EXCEPT !.kinds = Tail(req[c].kinds)]]
        BY <3>4 DEF RevokeTokens
      <4>2. req[c] \in [op : {"revoke"}, user : Users, kinds : Seq(Kinds), old : SUBSET TokenIds]
        BY <2>r, <3>4, Shapes DEF RevokeTokens
      <4>3. [req[c] EXCEPT !.kinds = Tail(req[c].kinds)].op = "revoke"
        BY <4>2
      <4> QED BY <3>1, <4>1, <4>3
    <3>5. CASE ChangeCommit(c)
      <4>1. req' = [req EXCEPT ![c] = [req[c] EXCEPT !.op = "reissue"]]
        BY <3>5 DEF ChangeCommit
      <4>2. req[c] \in [op : {"reset", "change", "reissue"}, user : Users, password : Passwords]
        BY <2>r, <3>5, Shapes DEF ChangeCommit
      <4>3. [req[c] EXCEPT !.op = "reissue"].op = "reissue"
        BY <4>2
      <4> QED BY <3>1, <4>1, <4>3
    <3> QED BY <1>4, <3>2, <3>3, <3>4, <3>5 DEF Continue
  <2>3. \A d \in Clients : cookie'[d] # None =>
           \/ cookie'[d] = cookie[d]
           \/ req[d].op = "login" /\ cookie'[d] = req[d].session
           \/ users' = users /\ \E u \in Users : users[u] # None /\ cookie'[d] = SessionOf(u)
    <3>1. CASE LoginFinish(c)
      BY <3>1 DEF LoginFinish, TypeOK
    <3>2. CASE ChangeReissue(c)
      <4>1. req[c].user \in Users /\ users[req[c].user] # None
        BY <2>r, <3>2, Shapes DEF ChangeReissue, AccountsExist
      <4> QED BY <3>2, <4>1 DEF ChangeReissue, TypeOK
    <3>3. CASE cookie' = cookie
      BY <3>3
    <3> QED BY <1>4, <3>1, <3>2, <3>3 DEF Continue, UpsertCommit, DisableCommit, EnableCommit,
               ResetCommit, RevokeTokens, RevokeDone, IssueCommit, ChangeCommit
  <2> QED BY <1>t, <2>1, <2>2, <2>3, SessionsKept
<1>5. ASSUME NEW c \in Clients, Fail(c) PROVE SessionInv'
  BY <1>1, <1>5, <1>i DEF Fail, TypeOK
<1>6. CASE Restart
  BY <1>1, <1>6, <1>i DEF Restart
<1>7. CASE (\E t \in TokenIds : TokenExpires(t)) \/ UNCHANGED vars
  BY <1>1, <1>7 DEF TokenExpires, vars
<1> QED BY <1>3, <1>4, <1>5, <1>6, <1>7 DEF Next

(* For every interleaving of sign-ins, user forms, password changes and    *)
(* resets: a session that is accepted was opened with the source, and with *)
(* the password unless a form has set it, that the account has now.        *)
THEOREM SessionsFollowCredentials == Spec => []SessionFollowsCredential
<1>1. Init => SessionInv
  BY DEF Init, SessionInv, Idle
<1>2. TypeOK /\ AccountsExist /\ SessionInv /\ [Next]_vars => SessionInv'
  BY SessionStep
<1>3. SessionInv => SessionFollowsCredential
  BY DEF SessionInv, Dated, SessionFollowsCredential, SignedIn
<1> QED BY <1>1, <1>2, <1>3, TypeCorrect, PTL DEF Spec

-----------------------------------------------------------------------------
(* Suspensions and tokens.                                                 *)

Suspends(r) == r.op \in {"upsert", "disable", "revoke"}

(* The part of TokenInv about one request.                                 *)
Covered(r) ==
    \A t \in r.old :
       /\ tokens[t] # None
       /\ tokens[t].revoked \/ (tokens[t].user = r.user /\ tokens[t].kind \in Pending(r))

(* A token is not removed, not given to another, and not un-revoked.       *)
TokenFollows(old, new) ==
    /\ new # None
    /\ new.user = old.user
    /\ new.kind = old.kind
    /\ old.revoked => new.revoked

TokensFollow == \A t \in TokenIds : tokens[t] # None => TokenFollows(tokens[t], tokens'[t])

LEMMA TokenUpdates ==
  ASSUME NEW tok \in TokenType
  PROVE  /\ TokenFollows(tok, tok)
         /\ TokenFollows(tok, [tok EXCEPT !.revoked = TRUE])
         /\ TokenFollows(tok, [tok EXCEPT !.expired = TRUE])
<1>1. \A x \in TokenType : x # None
  BY AccountsAssumption
<1>2. [tok EXCEPT !.revoked = TRUE] \in TokenType /\ [tok EXCEPT !.expired = TRUE] \in TokenType
  BY DEF TokenType
<1>3. TokenFollows(tok, [tok EXCEPT !.revoked = TRUE])
  BY <1>1, <1>2 DEF TokenFollows, TokenType
<1>4. TokenFollows(tok, [tok EXCEPT !.expired = TRUE])
  BY <1>1, <1>2 DEF TokenFollows, TokenType
<1> QED BY <1>1, <1>3, <1>4 DEF TokenFollows

LEMMA TokensStep ==
  ASSUME TypeOK, [Next]_vars
  PROVE  TokensFollow
<1>1. tokens \in [TokenIds -> TokenType \cup {None}]
  BY DEF TypeOK
<1>2. ASSUME \A t \in TokenIds : tokens[t] # None =>
                \/ tokens'[t] = tokens[t]
                \/ tokens'[t] = [tokens[t] EXCEPT !.revoked = TRUE]
                \/ tokens'[t] = [tokens[t] EXCEPT !.expired = TRUE]
      PROVE  TokensFollow
  <2>1. ASSUME NEW t \in TokenIds, tokens[t] # None PROVE TokenFollows(tokens[t], tokens'[t])
    <3>1. tokens[t] \in TokenType
      BY <1>1, <2>1
    <3> QED BY <1>2, <2>1, <3>1, TokenUpdates
  <2> QED BY <2>1 DEF TokensFollow
<1>3. CASE tokens' = tokens
  BY <1>2, <1>3
<1>4. ASSUME NEW c \in Clients, RevokeTokens(c) PROVE TokensFollow
  BY <1>2, <1>4 DEF RevokeTokens
<1>5. ASSUME NEW c \in Clients, IssueCommit(c) PROVE TokensFollow
  BY <1>2, <1>5 DEF IssueCommit, Issued
<1>6. ASSUME NEW x \in TokenIds, TokenExpires(x) PROVE TokensFollow
  <2>1. tokens' = [tokens EXCEPT ![x] = [tokens[x] EXCEPT !.expired = TRUE]]
    BY <1>6 DEF TokenExpires
  <2>2. \A t \in TokenIds : tokens'[t] = tokens[t] \/ tokens'[t] = [tokens[t] EXCEPT !.expired = TRUE]
    BY <1>1, <2>1
  <2> QED BY <1>2, <2>2
<1>7. ASSUME NEW c \in Clients, Request(c) PROVE tokens' = tokens
  BY <1>7 DEF Request, UpsertBegin, DisableBegin, EnableBegin, ResetBegin, LoginVerify, RevokeByAdmin,
     RevokeOwn, SystemToggle, IssueApiBegin, IssueMcpBegin, SystemIdpCreate, ChangeBegin, CookieGone, Begin
<1>8. ASSUME NEW c \in Clients, Continue(c) PROVE TokensFollow
  BY <1>3, <1>4, <1>5, <1>8 DEF Continue, UpsertCommit, DisableCommit, EnableCommit, ResetCommit,
     RevokeDone, LoginFinish, ChangeCommit, ChangeReissue
<1> QED BY <1>3, <1>6, <1>7, <1>8 DEF Next, Fail, Restart, vars

LEMMA CoveredFollows ==
  ASSUME TokensFollow, NEW r \in RequestType, Suspends(r), Covered(r)
  PROVE  Covered(r)'
<1>1. r.old \in SUBSET TokenIds
  BY Shapes DEF Suspends
<1>2. ASSUME NEW t \in r.old
      PROVE  /\ tokens'[t] # None
             /\ tokens'[t].revoked \/ (tokens'[t].user = r.user /\ tokens'[t].kind \in Pending(r))
  <2>1. t \in TokenIds /\ tokens[t] # None
    BY <1>1 DEF Covered
  <2> QED BY <2>1 DEF Covered, TokensFollow, TokenFollows
<1> QED BY <1>2 DEF Covered

(* A step that retires nothing keeps what it finds covered.                *)
LEMMA SuspensionsKept ==
  ASSUME TypeOK, TokenInv, TokensFollow, retired' = retired,
         \A d \in Clients : Suspends(req'[d]) =>
            req'[d] = req[d] \/ \E r : req'[d] = r /\ Covered(r)'
  PROVE  TokenInv'
<1>1. ASSUME NEW t \in retired PROVE tokens'[t] # None /\ tokens'[t].revoked
  BY DEF TypeOK, TokenInv, TokensFollow, TokenFollows
<1>2. ASSUME NEW d \in Clients, NEW r, r = req'[d], Suspends(r) PROVE Covered(r)'
  <2>1. CASE r = req[d]
    <3>1. r \in RequestType /\ Covered(r)
      BY <1>2, <2>1 DEF TypeOK, TokenInv, Suspends, Covered
    <3> QED BY <1>2, <3>1, CoveredFollows
  <2> QED BY <1>2, <2>1
<1>3. ASSUME NEW d \in Clients, Suspends(req'[d])
      PROVE  \A t \in req'[d].old :
                /\ tokens'[t] # None
                /\ tokens'[t].revoked \/ (tokens'[t].user = req'[d].user /\ tokens'[t].kind \in Pending(req'[d]))
  BY <1>2, <1>3 DEF Covered
<1> QED BY <1>1, <1>3 DEF TokenInv, Suspends

LEMMA RevokeStagePending ==
  ASSUME NEW u, NEW kinds, NEW old
  PROVE  /\ RevokeStage(u, kinds, old).op = "revoke" /\ RevokeStage(u, kinds, old).user = u
         /\ RevokeStage(u, kinds, old).old = old
         /\ Pending(RevokeStage(u, kinds, old)) =
               {k \in Kinds : \E i \in 1 .. Len(kinds) : kinds[i] = k}
BY DEF RevokeStage, Pending

LEMMA TokenRequest ==
  ASSUME TypeOK, TokenInv, TokensFollow, NEW c \in Clients, Request(c)
  PROVE  TokenInv'
<1>1. ASSUME UNCHANGED <<tokens, retired, req>> PROVE TokenInv'
  BY <1>1 DEF TokenInv
<1>2. ASSUME NEW q, Begin(c, q), Suspends(q) => Covered(q) PROVE TokenInv'
  <2>1. req' = [req EXCEPT ![c] = q] /\ tokens' = tokens /\ retired' = retired
    BY <1>2 DEF Begin
  <2>2. \A d \in Clients : req'[d] = IF d = c THEN q ELSE req[d]
    BY <2>1 DEF TypeOK
  <2>3. Suspends(q) => Covered(q)'
    BY <1>2, <2>1 DEF Covered
  <2> QED BY <2>1, <2>2, <2>3, SuspensionsKept
<1>3. ASSUME NEW u \in Users, NEW f \in Forms, UpsertBegin(c, u, f) PROVE TokenInv'
  <2> DEFINE access == [k \in Kinds |-> IF f.access[k] # None THEN f.access[k]
                                        ELSE users[u] # None /\ users[u].access[k]]
             q == [op |-> "upsert", user |-> u, form |-> f, access |-> access,
                   old |-> UNION {TokensOf(u, k) : k \in {k \in Kinds : ~access[k]}}]
  <2>1. Begin(c, q)
    BY <1>3 DEF UpsertBegin
  <2> HIDE DEF access
  <2>2. Pending(q) = {k \in Kinds : ~access[k]}
    BY DEF Pending
  <2>3. ASSUME NEW t \in q.old
        PROVE  tokens[t] # None /\ tokens[t].user = q.user /\ tokens[t].kind \in Pending(q)
    <3>1. PICK k \in Kinds : ~access[k] /\ t \in TokensOf(u, k)
      BY <2>3
    <3>2. tokens[t] # None /\ tokens[t].user = u /\ tokens[t].kind = k
      BY <3>1 DEF TokensOf
    <3> QED BY <2>2, <3>1, <3>2
  <2> HIDE DEF q
  <2>4. Covered(q)
    BY <2>3 DEF Covered
  <2> QED BY <1>2, <2>1, <2>4
<1>4. ASSUME NEW u \in Users, DisableBegin(c, u) PROVE TokenInv'
  <2> DEFINE q == [op |-> "disable", user |-> u,
                   old |-> TokensOf(u, "api") \cup TokensOf(u, "mcp")]
  <2>1. Begin(c, q)
    BY <1>4 DEF DisableBegin
  <2>2. Pending(q) = Kinds
    BY DEF Pending
  <2>3. ASSUME NEW t \in q.old
        PROVE  tokens[t] # None /\ tokens[t].user = q.user /\ tokens[t].kind \in Pending(q)
    BY <2>2, <2>3 DEF TokensOf, Kinds
  <2> HIDE DEF q
  <2>4. Covered(q)
    BY <2>3 DEF Covered
  <2> QED BY <1>2, <2>1, <2>4
<1>5. \A u, kinds : Covered(RevokeStage(u, kinds, {}))
  BY DEF Covered, RevokeStage
<1>6. ASSUME NEW u \in Users, NEW k \in Kinds, RevokeByAdmin(c, u, k) PROVE TokenInv'
  BY <1>2, <1>5, <1>6 DEF RevokeByAdmin
<1>7. ASSUME NEW k \in Kinds, RevokeOwn(c, k) PROVE TokenInv'
  BY <1>2, <1>5, <1>7 DEF RevokeOwn
<1>8. ASSUME NEW u \in Users, EnableBegin(c, u) PROVE TokenInv'
  BY <1>2, <1>8 DEF EnableBegin, Suspends
<1>9. ASSUME NEW u \in Users, NEW p \in Passwords, ResetBegin(c, u, p) \/ LoginVerify(c, u, p) PROVE TokenInv'
  BY <1>2, <1>9 DEF ResetBegin, LoginVerify, Suspends
<1>10. CASE IssueApiBegin(c) \/ IssueMcpBegin(c)
  BY <1>2, <1>10 DEF IssueApiBegin, IssueMcpBegin, Suspends
<1>11. ASSUME NEW p \in Passwords, ChangeBegin(c, p) PROVE TokenInv'
  BY <1>2, <1>11 DEF ChangeBegin, Suspends
<1> QED BY <1>1, <1>3, <1>4, <1>6, <1>7, <1>8, <1>9, <1>10, <1>11
    DEF Request, CookieGone, SystemToggle, SystemIdpCreate

LEMMA TokenContinue ==
  ASSUME TypeOK, TokenInv, TokensFollow, NEW c \in Clients, Continue(c)
  PROVE  TokenInv'
<1>p. PICK r : r = req[c]
  OBVIOUS
<1> USE <1>p
<1>r. r \in RequestType
  BY DEF TypeOK
<1>c. Suspends(r) => Covered(r)
  BY DEF TokenInv, Suspends, Covered
<1>2. ASSUME NEW q, req' = [req EXCEPT ![c] = q], retired' = retired, Suspends(q) => Covered(q)'
      PROVE  TokenInv'
  <2>1. \A d \in Clients : req'[d] = IF d = c THEN q ELSE req[d]
    BY <1>2 DEF TypeOK
  <2> QED BY <1>2, <2>1, SuspensionsKept
(* From one stage of a suspension to the next, while the tokens stay.      *)
<1>3. ASSUME NEW kinds, NEW u, NEW old, Covered(r), old = r.old, u = r.user, tokens' = tokens,
             Pending(r) \subseteq {k \in Kinds : \E i \in 1 .. Len(kinds) : kinds[i] = k}
      PROVE  Covered(RevokeStage(u, kinds, old))'
  <2>1. PICK q : q = RevokeStage(u, kinds, old)
    OBVIOUS
  <2>2. q.user = u /\ q.old = old /\ Pending(r) \subseteq Pending(q)
    BY <1>3, <2>1, RevokeStagePending
  <2>3. Covered(q)
    BY <1>3, <2>2 DEF Covered
  <2>4. Covered(q)'
    BY <1>3, <2>3 DEF Covered
  <2> QED BY <2>1, <2>4
<1>4. CASE UpsertCommit(c)
  <2>1. r \in [op : {"upsert"}, user : Users, form : Forms, access : [Kinds -> BOOLEAN],
               old : SUBSET TokenIds]
    BY <1>r, <1>4, Shapes DEF UpsertCommit
  <2>2. Pending(r) = {k \in Kinds : ~r.access[k]}
    BY <2>1 DEF Pending
  <2>3. Covered(r)
    BY <1>c, <1>4 DEF UpsertCommit, Suspends
  <2>4. PICK user, kinds, old : user = r.user /\ kinds = Off(r.access) /\ old = r.old
    OBVIOUS
  <2>5. Pending(r) \subseteq {k \in Kinds : \E i \in 1 .. Len(kinds) : kinds[i] = k}
    BY <2>1, <2>2, <2>4, OffKinds
  <2>6. tokens' = tokens /\ retired' = retired /\ req' = [req EXCEPT ![c] = RevokeStage(user, kinds, old)]
    BY <1>4, <2>4 DEF UpsertCommit
  <2>7. Covered(RevokeStage(user, kinds, old))'
    BY <1>3, <2>3, <2>4, <2>5, <2>6
  <2> QED BY <1>2, <2>6, <2>7
<1>5. CASE DisableCommit(c)
  <2>1. Covered(r)
    BY <1>c, <1>5 DEF DisableCommit, Suspends
  <2>2. PICK user, kinds, old : user = r.user /\ kinds = <<"api", "mcp">> /\ old = r.old
    OBVIOUS
  <2>3. Pending(r) \subseteq {k \in Kinds : \E i \in 1 .. Len(kinds) : kinds[i] = k}
    <3>1. Pending(r) \subseteq Kinds
      BY <1>5 DEF Pending, DisableCommit
    <3>2. Len(kinds) = 2 /\ kinds[1] = "api" /\ kinds[2] = "mcp"
      BY <2>2
    <3> QED BY <3>1, <3>2 DEF Kinds
  <2>4. tokens' = tokens /\ retired' = retired /\ req' = [req EXCEPT ![c] = RevokeStage(user, kinds, old)]
    BY <1>5, <2>2 DEF DisableCommit
  <2>5. Covered(RevokeStage(user, kinds, old))'
    BY <1>3, <2>1, <2>2, <2>3, <2>4
  <2> QED BY <1>2, <2>4, <2>5
<1>6. CASE RevokeTokens(c)
  <2>1. r.op = "revoke" /\ r.kinds # <<>>
    BY <1>6 DEF RevokeTokens
  <2>2. r \in [op : {"revoke"}, user : Users, kinds : Seq(Kinds), old : SUBSET TokenIds]
    BY <1>r, <2>1, Shapes
  <2>3. Covered(r) /\ Covered(r)'
    BY <1>c, <1>r, <2>1, CoveredFollows DEF Suspends
  <2>4. PICK q : q = [r EXCEPT !.kinds = Tail(r.kinds)]
    OBVIOUS
  <2>5. req' = [req EXCEPT ![c] = q] /\ retired' = retired
    BY <1>6, <2>4 DEF RevokeTokens
  <2>6. q.op = "revoke" /\ q.user = r.user /\ q.old = r.old /\ q.kinds = Tail(r.kinds)
    BY <2>2, <2>4
  <2>7. ASSUME NEW k \in Pending(r), k # Head(r.kinds) PROVE k \in Pending(q)
    <3>1. PICK i \in 1 .. Len(r.kinds) : r.kinds[i] = k /\ k \in Kinds
      BY <2>1, <2>7 DEF Pending
    <3>2. r.kinds \in Seq(Kinds)
      BY <2>2
    <3>3. i # 1
      BY <2>1, <2>7, <3>1, <3>2
    <3>4. i - 1 \in 1 .. Len(Tail(r.kinds)) /\ Tail(r.kinds)[i - 1] = k
      BY <2>1, <3>1, <3>2, <3>3
    <3> QED BY <2>6, <3>1, <3>4 DEF Pending
  <2>8. ASSUME NEW t \in r.old
        PROVE  /\ tokens'[t] # None
               /\ tokens'[t].revoked \/ (tokens'[t].user = r.user /\ tokens'[t].kind \in Pending(q))
    <3>1. t \in TokenIds /\ tokens[t] # None /\ tokens'[t] # None
      BY <2>2, <2>3 DEF Covered
    <3>2. CASE tokens[t].revoked
      BY <3>1, <3>2 DEF TokensFollow, TokenFollows
    <3>3. CASE ~tokens[t].revoked /\ tokens[t].kind = Head(r.kinds)
      <4>1. t \in TokensOf(r.user, Head(r.kinds))
        BY <2>3, <3>1, <3>3 DEF Covered, TokensOf
      <4>2. tokens'[t] = [tokens[t] EXCEPT !.revoked = TRUE]
        BY <1>6, <3>1, <4>1 DEF RevokeTokens
      <4>3. tokens[t] \in TokenType
        BY <3>1 DEF TypeOK
      <4>4. tokens'[t].revoked
        BY <4>2, <4>3 DEF TokenType
      <4> QED BY <3>1, <4>4
    <3>4. CASE ~tokens[t].revoked /\ tokens[t].kind # Head(r.kinds)
      <4>1. tokens[t].user = r.user /\ tokens[t].kind \in Pending(r)
        BY <2>3, <3>4 DEF Covered
      <4>2. tokens[t].kind \in Pending(q)
        BY <2>7, <3>4, <4>1
      <4> QED BY <3>1, <4>1, <4>2 DEF TokensFollow, TokenFollows
    <3> QED BY <3>2, <3>3, <3>4
  <2>9. Covered(q)'
    BY <2>6, <2>8 DEF Covered
  <2> QED BY <1>2, <2>5, <2>9
<1>7. CASE RevokeDone(c)
  <2>1. Covered(r) /\ Covered(r)' /\ Pending(r) = {}
    <3>1. r.op = "revoke" /\ r.kinds = <<>>
      BY <1>7 DEF RevokeDone
    <3>2. Pending(r) = {}
      BY <3>1 DEF Pending
    <3> QED BY <1>c, <1>r, <3>1, <3>2, CoveredFollows DEF Suspends
  <2>2. \A t \in r.old : tokens[t] # None /\ tokens[t].revoked
    BY <2>1 DEF Covered
  <2>3. tokens' = tokens /\ req' = [req EXCEPT ![c] = Idle] /\ retired' = retired \cup r.old
    BY <1>7 DEF RevokeDone
  <2>4. \A t \in retired' : tokens'[t] # None /\ tokens'[t].revoked
    BY <2>2, <2>3 DEF TokenInv
  <2>5. \A d \in Clients : req'[d] = IF d = c THEN Idle ELSE req[d]
    BY <2>3 DEF TypeOK
  <2> QED BY <2>3, <2>4, <2>5 DEF TokenInv, Idle
<1>8. CASE \/ EnableCommit(c) \/ ResetCommit(c) \/ IssueCommit(c) \/ LoginFinish(c) \/ ChangeReissue(c)
  <2>1. req' = [req EXCEPT ![c] = Idle] /\ retired' = retired
    BY <1>8 DEF EnableCommit, ResetCommit, IssueCommit, LoginFinish, ChangeReissue
  <2>2. ~Suspends(Idle)
    BY DEF Suspends, Idle
  <2> QED BY <1>2, <2>1, <2>2
<1>9. CASE ChangeCommit(c)
  <2>1. PICK q : q = [r EXCEPT !.op = "reissue"]
    OBVIOUS
  <2>2. r \in [op : {"reset", "change", "reissue"}, user : Users, password : Passwords]
    BY <1>r, <1>9, Shapes DEF ChangeCommit
  <2>3. q.op = "reissue"
    BY <2>1, <2>2
  <2>4. req' = [req EXCEPT ![c] = q] /\ retired' = retired
    BY <1>9, <2>1 DEF ChangeCommit
  <2> QED BY <1>2, <2>3, <2>4 DEF Suspends
<1> QED BY <1>4, <1>5, <1>6, <1>7, <1>8, <1>9 DEF Continue

(* For every interleaving of suspensions, re-enablements and issues: a     *)
(* token that existed when its account was disabled, or lost the access it *)
(* is for, is not accepted again once that request was answered.           *)
THEOREM SuspensionsRetireTokens == Spec => []SuspensionRetiresTokens
<1>1. Init => TokenInv
  BY DEF Init, TokenInv, Idle
<1>2. TypeOK /\ AccountsExist /\ TokenInv /\ [Next]_vars => TokenInv'
  <2> SUFFICES ASSUME TypeOK, TokenInv, [Next]_vars PROVE TokenInv'
    OBVIOUS
  <2>1. TokensFollow
    BY TokensStep
  <2>2. ASSUME retired' = retired, \A d \in Clients : req'[d] = req[d] \/ req'[d] = Idle PROVE TokenInv'
    <3>1. ~Suspends(Idle)
      BY DEF Suspends, Idle
    <3> QED BY <2>1, <2>2, <3>1, SuspensionsKept
  <2>3. ASSUME NEW c \in Clients, Fail(c) PROVE TokenInv'
    BY <2>2, <2>3 DEF Fail, TypeOK
  <2>4. CASE Restart
    BY <2>2, <2>4 DEF Restart
  <2>5. CASE (\E t \in TokenIds : TokenExpires(t)) \/ UNCHANGED vars
    BY <2>2, <2>5 DEF TokenExpires, vars
  <2> QED BY <2>1, <2>3, <2>4, <2>5, TokenRequest, TokenContinue DEF Next
<1>3. TokenInv => SuspensionRetiresTokens
  BY DEF TokenInv, SuspensionRetiresTokens, ApiTokenAccepted, McpTokenAccepted
<1> QED BY <1>1, <1>2, <1>3, TypeCorrect, PTL DEF Spec

-----------------------------------------------------------------------------
(* SignIn: the failure limiter.                                            *)

-----------------------------------------------------------------------------
(* Arithmetic.  h: the other requests; A, K, T: failures of the window     *)
(* noted, kept, and kept from the first of the window on; F, o: requests   *)
(* that verify a password of the window, or an older one.                  *)

Fits(h, A, F, K, T, o) ==
    LET spare == h - o - (T - K)
    IN  /\ spare >= 0
        /\ A - K <= h * spare + h - o
        /\ A - K + F + T - LIMIT <= h * spare + h - o
        /\ T < LIMIT => A - K <= h * spare

LEMMA Product ==
  ASSUME NEW h \in Nat, NEW a \in Int, NEW b \in Int, a <= b
  PROVE  /\ h * a \in Int /\ h * b \in Int /\ h * a <= h * b
         /\ a < b => h * a + h <= h * b
<1>1. \A c \in Nat : h * c \in Nat
  OBVIOUS
<1>2. b - a \in Nat /\ h * b = h * a + h * (b - a)
  OBVIOUS
<1>3. a < b => b - a - 1 \in Nat /\ h * b = h * a + h + h * (b - a - 1)
  OBVIOUS
<1> QED BY <1>1, <1>2, <1>3

(* Nothing of the window is noted yet.                                     *)
LEMMA FitsNone ==
  ASSUME NEW h \in Nat, NEW F \in Nat, NEW o \in Nat, o <= h, F + o <= h + 1
  PROVE  Fits(h, 0, F, 0, 0, o)
<1>1. h * (h - o) >= 0 /\ h * (h - o) \in Int
  <2>1. h - o \in Int /\ 0 <= h - o /\ h * 0 = 0
    OBVIOUS
  <2> QED BY <2>1, Product
<1> PICK y : y = h * (h - o)
  OBVIOUS
<1>2. h - o - (0 - 0) = h - o
  OBVIOUS
<1> QED BY <1>1, <1>2, SignInAssumption DEF Fits

(* A request passes the check.                                             *)
LEMMA FitsPass ==
  ASSUME NEW h \in Nat, NEW A \in Nat, NEW F \in Nat, NEW K \in Nat, NEW T \in Nat, NEW o \in Nat,
         NEW U \in Nat, NEW G, G = F + 1, Fits(h, A, F, K, T, o), G + o <= h + 1, K <= U, U <= T,
         U < LIMIT, T <= LIMIT
  PROVE  Fits(h, A, G, K, U, o)
<1> PICK s, r : s = h - o - (T - K) /\ r = h - o - (U - K)
  OBVIOUS
<1>1. s \in Int /\ r \in Int /\ s <= r /\ (U < T => s < r)
  OBVIOUS
<1> PICK y, z : y = h * s /\ z = h * r
  OBVIOUS
<1>2. y \in Int /\ z \in Int /\ y <= z /\ (U < T => y + h <= z)
  BY <1>1, Product
<1>3. s >= 0 /\ A - K <= y + h - o /\ (T < LIMIT => A - K <= y)
  BY DEF Fits
<1>4. LIMIT \in Nat
  BY SignInAssumption
<1>5. r >= 0 /\ A - K <= z
  BY <1>1, <1>2, <1>3, <1>4
<1>6. A - K <= z + h - o /\ A - K + G + U - LIMIT <= z + h - o
  BY <1>2, <1>4, <1>5
<1> QED BY <1>5, <1>6 DEF Fits

(* The check drops failures from before the window.                        *)
LEMMA FitsDrop ==
  ASSUME NEW h \in Nat, NEW A \in Nat, NEW F \in Nat, NEW K \in Nat, NEW T \in Nat, NEW o \in Nat,
         NEW U \in Nat, Fits(h, A, F, K, T, o), K <= U, U <= T, T <= LIMIT
  PROVE  Fits(h, A, F, K, U, o)
<1> PICK s, r : s = h - o - (T - K) /\ r = h - o - (U - K)
  OBVIOUS
<1>1. s \in Int /\ r \in Int /\ s <= r /\ (U < T => s < r)
  OBVIOUS
<1> PICK y, z : y = h * s /\ z = h * r
  OBVIOUS
<1>2. y \in Int /\ z \in Int /\ y <= z /\ (U < T => y + h <= z)
  BY <1>1, Product
<1>3. /\ s >= 0 /\ A - K <= y + h - o /\ (T < LIMIT => A - K <= y)
      /\ A - K + F + T - LIMIT <= y + h - o
  BY DEF Fits
<1>4. LIMIT \in Nat
  BY SignInAssumption
<1>5. r >= 0 /\ (U < LIMIT => A - K <= z)
  BY <1>1, <1>2, <1>3, <1>4
<1>6. A - K <= z + h - o /\ A - K + F + U - LIMIT <= z + h - o
  BY <1>2, <1>3, <1>4
<1> QED BY <1>5, <1>6 DEF Fits

(* A request from before the window ends.                                  *)
LEMMA FitsEnd ==
  ASSUME NEW h \in Nat, NEW A \in Nat, NEW F \in Nat, NEW K \in Nat, NEW T \in Nat, NEW o \in Nat,
         Fits(h, A, F, K, T, o)
  PROVE  Fits(h, A, F, K, T, o - 1)
<1> PICK s, r : s = h - o - (T - K) /\ r = h - (o - 1) - (T - K)
  OBVIOUS
<1>1. s \in Int /\ r \in Int /\ s <= r
  OBVIOUS
<1> PICK y, z : y = h * s /\ z = h * r
  OBVIOUS
<1>2. y \in Int /\ z \in Int /\ y <= z
  BY <1>1, Product
<1>3. /\ s >= 0 /\ A - K <= y + h - o /\ (T < LIMIT => A - K <= y)
      /\ A - K + F + T - LIMIT <= y + h - o
  BY DEF Fits
<1>4. LIMIT \in Nat
  BY SignInAssumption
<1>5. r >= 0 /\ (T < LIMIT => A - K <= z)
  BY <1>1, <1>2, <1>3, <1>4
<1>6. A - K <= z + h - (o - 1) /\ A - K + F + T - LIMIT <= z + h - (o - 1)
  BY <1>2, <1>3, <1>4
<1> QED BY <1>5, <1>6 DEF Fits

(* So does one of the window.                                              *)
LEMMA FitsFewer ==
  ASSUME NEW h \in Nat, NEW A \in Nat, NEW F \in Nat, NEW K \in Nat, NEW T \in Nat, NEW o \in Nat,
         Fits(h, A, F, K, T, o)
  PROVE  Fits(h, A, F - 1, K, T, o)
<1> PICK s : s = h - o - (T - K)
  OBVIOUS
<1> PICK y : y = h * s
  OBVIOUS
<1>1. s \in Int /\ y \in Int
  BY Product
<1>2. /\ s >= 0 /\ A - K <= y + h - o /\ (T < LIMIT => A - K <= y)
      /\ A - K + F + T - LIMIT <= y + h - o
  BY DEF Fits
<1>3. A - K + (F - 1) + T - LIMIT <= y + h - o
  BY <1>1, <1>2, SignInAssumption
<1> QED BY <1>2, <1>3 DEF Fits

(* A password of the window is refused.                                    *)
LEMMA FitsNew ==
  ASSUME NEW h \in Nat, NEW A \in Nat, NEW F \in Nat, NEW K \in Nat, NEW T \in Nat, NEW o \in Nat,
         NEW J \in Nat, NEW U \in Nat, Fits(h, A, F, K, T, o), F >= 1, o <= h,
         \/ T < LIMIT /\ J = K + 1 /\ U = T + 1
         \/ T = LIMIT /\ J = K /\ J <= U /\ U <= LIMIT
  PROVE  Fits(h, A + 1, F - 1, J, U, o)
<1> PICK s, r : s = h - o - (T - K) /\ r = h - o - (U - J)
  OBVIOUS
<1>4. LIMIT \in Nat
  BY SignInAssumption
<1>1. s \in Int /\ r \in Int /\ s <= r /\ (T = LIMIT /\ U < LIMIT => s < r)
  BY <1>4
<1> PICK y, z : y = h * s /\ z = h * r
  OBVIOUS
<1>2. y \in Int /\ z \in Int /\ y <= z /\ (T = LIMIT /\ U < LIMIT => y + h <= z)
  BY <1>1, Product
<1>3. /\ s >= 0 /\ A - K <= y + h - o /\ (T < LIMIT => A - K <= y)
      /\ A - K + F + T - LIMIT <= y + h - o
  BY DEF Fits
<1>5. r >= 0 /\ (U < LIMIT => (A + 1) - J <= z)
  BY <1>1, <1>2, <1>3, <1>4
<1>6. (A + 1) - J <= z + h - o /\ (A + 1) - J + (F - 1) + U - LIMIT <= z + h - o
  BY <1>2, <1>3, <1>4
<1> QED BY <1>5, <1>6 DEF Fits

(* An older one is refused.                                                *)
LEMMA FitsOld ==
  ASSUME NEW h \in Nat, NEW A \in Nat, NEW F \in Nat, NEW K \in Nat, NEW T \in Nat, NEW o \in Nat,
         NEW J \in Nat, NEW U \in Nat, Fits(h, A, F, K, T, o), o >= 1, o <= h,
         \/ T = 0 /\ K = 0 /\ U = 0 /\ J = 0
         \/ T < LIMIT /\ J = K /\ U = T + 1
         \/ T = LIMIT /\ J = K - 1 /\ J <= U /\ U <= LIMIT
  PROVE  Fits(h, A, F, J, U, o - 1)
<1> PICK s, r : s = h - o - (T - K) /\ r = h - (o - 1) - (U - J)
  OBVIOUS
<1>4. LIMIT \in Nat \ {0}
  BY SignInAssumption
<1>1. s \in Int /\ r \in Int /\ s <= r /\ (T = LIMIT /\ U < LIMIT => s < r)
  BY <1>4
<1> PICK y, z : y = h * s /\ z = h * r
  OBVIOUS
<1>2. y \in Int /\ z \in Int /\ y <= z /\ (T = LIMIT /\ U < LIMIT => y + h <= z)
  BY <1>1, Product
<1>3. /\ s >= 0 /\ A - K <= y + h - o /\ (T < LIMIT => A - K <= y)
      /\ A - K + F + T - LIMIT <= y + h - o
  BY DEF Fits
<1>5. r >= 0 /\ (U < LIMIT => A - J <= z)
  BY <1>1, <1>2, <1>3, <1>4
<1>6. A - J <= z + h - (o - 1) /\ A - J + F + U - LIMIT <= z + h - (o - 1)
  BY <1>2, <1>3, <1>4
<1> QED BY <1>5, <1>6 DEF Fits

LEMMA FitsBound ==
  ASSUME NEW h \in Nat, NEW A \in Nat, NEW F \in Nat, NEW K \in Nat, NEW T \in Nat, NEW o \in Nat,
         Fits(h, A, F, K, T, o), K <= T
  PROVE  A + F <= LIMIT + (h + 1) * h
<1> PICK s : s = h - o - (T - K)
  OBVIOUS
<1>1. s \in Int /\ s <= h
  OBVIOUS
<1> PICK y, z : y = h * s /\ z = h * h
  OBVIOUS
<1>2. y \in Int /\ z \in Int /\ y <= z
  BY <1>1, Product
<1>3. A - K + F + T - LIMIT <= y + h - o
  BY DEF Fits
<1>4. (h + 1) * h = z + h
  OBVIOUS
<1> QED BY <1>2, <1>3, <1>4, SignInAssumption

-----------------------------------------------------------------------------
(* The list of failures.                                                   *)

Distinct(S) == \A f, g \in S : f.n = g.n => f = g

(* A finite set has no endless descent of subsets.                         *)
LEMMA SmallestSet ==
  ASSUME NEW S, IsFiniteSet(S), NEW X, X \subseteq SUBSET S, X # {}
  PROVE  \E M \in X : \A Y \in X : Y \subseteq M => Y = M
<1>1. FiniteSubsetsOf(S) = SUBSET S
  BY FS_FiniteSubsetsOfFinite
<1>2. IsWellFoundedOn(StrictSubsetOrdering(S), SUBSET S)
  BY <1>1, FS_StrictSubsetOrderingWellFounded
<1>3. PICK M \in X : \A Y \in X : ~(<<Y, M>> \in StrictSubsetOrdering(S))
  BY <1>2, WFMin
<1> QED BY <1>3 DEF StrictSubsetOrdering

LEMMA First ==
  ASSUME NEW S, IsFiniteSet(S), S \subseteq Failure, S # {}
  PROVE  \E d \in S : \A f \in S : d.n <= f.n
<1> DEFINE Before(f) == {g \in S : g.n <= f.n}
           X == {Before(f) : f \in S}
<1>1. X \subseteq SUBSET S /\ X # {}
  OBVIOUS
<1>2. \E M \in X : \A Y \in X : Y \subseteq M => Y = M
  <2> HIDE DEF X
  <2> QED BY <1>1, SmallestSet
<1> PICK M \in X : \A Y \in X : Y \subseteq M => Y = M
  BY <1>2
<1>3. PICK d \in S : M = Before(d)
  OBVIOUS
<1>4. ASSUME NEW f \in S, f.n < d.n PROVE FALSE
  <2>1. Before(f) \subseteq Before(d) /\ d \notin Before(f) /\ d \in Before(d)
    BY <1>4 DEF Failure
  <2> QED BY <1>3, <2>1
<1> QED BY <1>4 DEF Failure

LEMMA LatestOf ==
  ASSUME NEW S, IsFiniteSet(S), S \subseteq Failure, S # {}
  PROVE  Latest(S) \in S /\ \A f \in S : f.n <= Latest(S).n
<1> DEFINE After(f) == {g \in S : f.n <= g.n}
           X == {After(f) : f \in S}
<1>1. X \subseteq SUBSET S /\ X # {}
  OBVIOUS
<1>2. \E M \in X : \A Y \in X : Y \subseteq M => Y = M
  <2> HIDE DEF X
  <2> QED BY <1>1, SmallestSet
<1> PICK M \in X : \A Y \in X : Y \subseteq M => Y = M
  BY <1>2
<1>3. PICK d \in S : M = After(d)
  OBVIOUS
<1>4. ASSUME NEW f \in S, d.n < f.n PROVE FALSE
  <2>1. After(f) \subseteq After(d) /\ d \notin After(f) /\ d \in After(d)
    BY <1>4 DEF Failure
  <2> QED BY <1>3, <2>1
<1>5. \A f \in S : f.n <= d.n
  BY <1>4 DEF Failure
<1> QED BY <1>5 DEF Latest

(* A failure is added, and the first one is dropped from a full list.      *)
LEMMA Added ==
  ASSUME NEW S, IsFiniteSet(S), S \subseteq Failure, Distinct(S), Cardinality(S) <= LIMIT,
         NEW e \in Failure, \A f \in S : f.n < e.n
  PROVE  /\ Kept(S \cup {e}) \subseteq S \cup {e} /\ IsFiniteSet(Kept(S \cup {e}))
         /\ Cardinality(Kept(S \cup {e})) <= LIMIT
         /\ \/ Cardinality(S) < LIMIT /\ Kept(S \cup {e}) = S \cup {e}
            \/ /\ Cardinality(S) = LIMIT
               /\ \E d \in S : /\ \A f \in S : d.n <= f.n
                               /\ Kept(S \cup {e}) = (S \ {d}) \cup {e}
<1> DEFINE R == S \cup {e}
           After(f) == {g \in R : f.n <= g.n}
<1>l. LIMIT \in Nat \ {0} /\ Cardinality(S) \in Nat
  BY SignInAssumption, FS_CardinalityType
<1>e. e \notin S
  BY DEF Failure
<1>1. IsFiniteSet(R) /\ Cardinality(R) = Cardinality(S) + 1
  BY <1>e, FS_AddElement
<1>2. \A f \in R : f \in Kept(R) <=> Cardinality(After(f)) <= LIMIT
  BY DEF Kept
<1>3. ASSUME NEW f
      PROVE  /\ Cardinality(After(f)) <= Cardinality(R) /\ Cardinality(After(f)) \in Nat
             /\ Cardinality(R) = Cardinality(After(f)) => R = After(f)
  <2>1. After(f) \in SUBSET R
    OBVIOUS
  <2> HIDE DEF After, R
  <2>2. IsFiniteSet(After(f)) /\ Cardinality(After(f)) <= Cardinality(R)
        /\ (Cardinality(R) = Cardinality(After(f)) => R = After(f))
    BY <1>1, <2>1, FS_Subset
  <2> QED BY <2>2, FS_CardinalityType
<1>4. Kept(R) \subseteq R
  BY DEF Kept
<1>5. IsFiniteSet(Kept(R))
  BY <1>1, <1>4, FS_Subset
<1>6. CASE Cardinality(S) < LIMIT
  <2>1. ASSUME NEW f \in R PROVE f \in Kept(R)
    <3> HIDE DEF R, After
    <3> QED BY <1>l, <1>1, <1>2, <1>3, <1>6
  <2>2. Kept(R) = R
    BY <1>4, <2>1
  <2> QED BY <1>l, <1>1, <1>5, <1>6, <2>2
<1>7. CASE Cardinality(S) = LIMIT
  <2>1. S # {}
    BY <1>l, <1>7, FS_EmptySet
  <2>2. PICK d \in S : \A f \in S : d.n <= f.n
    BY <2>1, First
  <2> HIDE DEF After
  <2>3. After(d) = R
    BY <2>2 DEF After, Failure
  <2>4. d \notin Kept(R)
    <3>1. Cardinality(After(d)) = LIMIT + 1 /\ d \in R
      BY <1>1, <1>7, <2>3
    <3> HIDE DEF R
    <3> QED BY <1>l, <1>2, <3>1
  <2>5. ASSUME NEW f \in R, f # d PROVE f \in Kept(R)
    <3>1. d \notin After(f)
      <4>1. CASE f = e
        BY <4>1 DEF After, Failure
      <4>2. CASE f \in S
        BY <2>2, <2>5, <4>2 DEF After, Distinct, Failure
      <4> QED BY <4>1, <4>2
    <3>2. After(f) # R
      BY <3>1
    <3>3. Cardinality(After(f)) <= LIMIT
      <4> HIDE DEF R
      <4> QED BY <1>l, <1>1, <1>3, <1>7, <3>2
    <3> QED BY <1>2, <2>5, <3>3
  <2>6. Kept(R) = (S \ {d}) \cup {e}
    BY <1>4, <1>e, <2>4, <2>5
  <2>7. Kept(R) = R \ {d}
    BY <1>e, <2>6
  <2>8. Cardinality(Kept(R)) = LIMIT
    <3>1. d \in R
      OBVIOUS
    <3> HIDE DEF R
    <3>2. Cardinality(R \ {d}) = Cardinality(R) - 1
      BY <1>1, <3>1, FS_RemoveElement
    <3> QED BY <1>l, <1>1, <1>7, <2>7, <3>2
  <2> QED BY <1>l, <1>4, <1>5, <1>7, <2>2, <2>6, <2>8
<1> QED BY <1>l, <1>6, <1>7

(* Failures of a window in a list, and those from its first one on.        *)
LEMMA Counted ==
  ASSUME NEW S, IsFiniteSet(S), S \subseteq Failure, NEW t
  PROVE  /\ In(S, t) \subseteq Since(S, t) /\ Since(S, t) \subseteq S
         /\ IsFiniteSet(In(S, t)) /\ IsFiniteSet(Since(S, t))
         /\ Cardinality(In(S, t)) \in Nat /\ Cardinality(Since(S, t)) \in Nat
         /\ Cardinality(In(S, t)) <= Cardinality(Since(S, t))
         /\ Cardinality(Since(S, t)) <= Cardinality(S)
         /\ Cardinality(In(S, t)) = 0 => In(S, t) = {} /\ Since(S, t) = {} /\ Cardinality(Since(S, t)) = 0
<1>1. In(S, t) \subseteq Since(S, t) /\ Since(S, t) \subseteq S
  BY DEF In, Since, Failure
<1>2. IsFiniteSet(Since(S, t)) /\ Cardinality(Since(S, t)) <= Cardinality(S)
  BY <1>1, FS_Subset
<1>3. IsFiniteSet(In(S, t)) /\ Cardinality(In(S, t)) <= Cardinality(Since(S, t))
  BY <1>1, <1>2, FS_Subset
<1>4. Cardinality(In(S, t)) = 0 => In(S, t) = {}
  BY <1>3, FS_EmptySet
<1>5. In(S, t) = {} => Since(S, t) = {}
  BY DEF Since
<1>6. Since(S, t) = {} => Cardinality(Since(S, t)) = 0
  BY FS_EmptySet
<1> QED BY <1>1, <1>2, <1>3, <1>4, <1>5, <1>6, FS_CardinalityType

LEMMA AddedIn ==
  ASSUME NEW S, IsFiniteSet(S), S \subseteq Failure, Distinct(S), Cardinality(S) <= LIMIT,
         NEW e \in Failure, \A f \in S : f.n < e.n, NEW t, e \in In({e}, t),
         NEW R, R = Kept(S \cup {e})
  PROVE  \/ /\ Cardinality(Since(S, t)) < LIMIT
            /\ Cardinality(In(R, t)) = Cardinality(In(S, t)) + 1
            /\ Cardinality(Since(R, t)) = Cardinality(Since(S, t)) + 1
         \/ /\ Cardinality(Since(S, t)) = LIMIT
            /\ Cardinality(In(R, t)) = Cardinality(In(S, t))
            /\ Cardinality(Since(R, t)) <= LIMIT
<1>l. LIMIT \in Nat \ {0} /\ Cardinality(S) \in Nat
  BY SignInAssumption, FS_CardinalityType
<1>e. e \notin S
  BY DEF Failure
<1>c. /\ In(S, t) \subseteq Since(S, t) /\ Since(S, t) \subseteq S
      /\ IsFiniteSet(In(S, t)) /\ IsFiniteSet(Since(S, t))
      /\ Cardinality(In(S, t)) \in Nat /\ Cardinality(Since(S, t)) \in Nat
      /\ Cardinality(Since(S, t)) <= Cardinality(S)
  BY Counted
<1>r. R \subseteq S \cup {e} /\ IsFiniteSet(R) /\ Cardinality(R) <= LIMIT
  BY Added
<1>1. ASSUME NEW D, D \cap In(S, t) = {}, R = (S \ D) \cup {e}, D \cap Since(S, t) = {}
      PROVE  /\ Cardinality(In(R, t)) = Cardinality(In(S, t)) + 1
             /\ Cardinality(Since(R, t)) = Cardinality(Since(S, t)) + 1
  <2>1. In(R, t) = In(S, t) \cup {e}
    BY <1>1 DEF In
  <2>2. Since(R, t) = Since(S, t) \cup {e}
    <3>1. \A f \in S : f \in Since(R, t) <=> f \in Since(S, t)
      <4> SUFFICES ASSUME NEW f \in S PROVE f \in Since(R, t) <=> f \in Since(S, t)
        OBVIOUS
      <4>1. ~(e.n <= f.n)
        BY DEF Failure
      <4>2. f \in Since(R, t) <=> f \in R /\ \E g \in In(S, t) : g.n <= f.n
        BY <2>1, <4>1 DEF Since
      <4>3. f \in Since(S, t) <=> \E g \in In(S, t) : g.n <= f.n
        BY DEF Since
      <4> QED BY <1>1, <4>2, <4>3
    <3>2. e \in Since(R, t)
      BY <1>1, <2>1 DEF Since, Failure
    <3> QED BY <1>r, <1>c, <3>1, <3>2 DEF Since
  <2>3. e \notin In(S, t) /\ e \notin Since(S, t)
    BY <1>c, <1>e
  <2>4. /\ Cardinality(In(S, t) \cup {e}) = Cardinality(In(S, t)) + 1
        /\ Cardinality(Since(S, t) \cup {e}) = Cardinality(Since(S, t)) + 1
    BY <1>c, <2>3, FS_AddElement
  <2> QED BY <2>1, <2>2, <2>4
<1>2. CASE Cardinality(S) < LIMIT /\ R = S \cup {e}
  <2> PICK D : D = {}
    OBVIOUS
  <2>1. R = (S \ D) \cup {e} /\ D \cap In(S, t) = {} /\ D \cap Since(S, t) = {}
    BY <1>2
  <2>2. Cardinality(Since(S, t)) < LIMIT
    BY <1>2, <1>l, <1>c
  <2> QED BY <1>1, <1>2, <2>1, <2>2
<1>3. CASE \E d \in S : (\A f \in S : d.n <= f.n) /\ R = (S \ {d}) \cup {e} /\ Cardinality(S) = LIMIT
  <2> PICK d \in S : (\A f \in S : d.n <= f.n) /\ R = (S \ {d}) \cup {e} /\ Cardinality(S) = LIMIT
    BY <1>3
  <2>1. CASE d \in Since(S, t)
    <3>1. d \in In(S, t)
      BY <2>1 DEF Since, In, Distinct, Failure
    <3>2. Since(S, t) = S
      BY <3>1 DEF Since
    <3>3. In(R, t) = (In(S, t) \ {d}) \cup {e}
      BY DEF In
    <3>4. IsFiniteSet(In(S, t) \ {d}) /\ Cardinality(In(S, t) \ {d}) = Cardinality(In(S, t)) - 1
      BY <1>c, <3>1, FS_RemoveElement
    <3>5. Cardinality(In(R, t)) = Cardinality(In(S, t)) - 1 + 1
      BY <1>c, <1>e, <3>3, <3>4, FS_AddElement
    <3>6. Cardinality(Since(R, t)) <= Cardinality(R) /\ Cardinality(Since(R, t)) \in Nat
      BY <1>r, Counted
    <3>7. Cardinality(R) \in Nat
      BY <1>r, FS_CardinalityType
    <3> QED BY <1>c, <1>l, <1>r, <3>2, <3>5, <3>6, <3>7
  <2>2. CASE d \notin Since(S, t)
    <3>1. {d} \cap Since(S, t) = {} /\ {d} \cap In(S, t) = {}
      BY <1>c, <2>2
    <3>3. R = (S \ {d}) \cup {e}
      OBVIOUS
    <3>2. Cardinality(Since(S, t)) < LIMIT
      BY <1>c, <1>l, <2>2, FS_Subset
    <3> QED BY <1>1, <3>1, <3>2, <3>3
  <2> QED BY <2>1, <2>2
<1>4. \/ Cardinality(S) < LIMIT /\ R = S \cup {e}
      \/ /\ Cardinality(S) = LIMIT
         /\ \E d \in S : (\A f \in S : d.n <= f.n) /\ R = (S \ {d}) \cup {e}
  BY Added
<1> QED BY <1>2, <1>3, <1>4

LEMMA AddedOld ==
  ASSUME NEW S, IsFiniteSet(S), S \subseteq Failure, Distinct(S), Cardinality(S) <= LIMIT,
         NEW e \in Failure, \A f \in S : f.n < e.n, NEW t, e \notin In({e}, t),
         NEW R, R = Kept(S \cup {e})
  PROVE  \/ /\ Cardinality(Since(S, t)) = 0 /\ Cardinality(In(S, t)) = 0
            /\ Cardinality(Since(R, t)) = 0 /\ Cardinality(In(R, t)) = 0
         \/ /\ Cardinality(Since(S, t)) < LIMIT
            /\ Cardinality(In(R, t)) = Cardinality(In(S, t))
            /\ Cardinality(Since(R, t)) = Cardinality(Since(S, t)) + 1
         \/ /\ Cardinality(Since(S, t)) = LIMIT
            /\ Cardinality(In(R, t)) = Cardinality(In(S, t)) - 1
            /\ Cardinality(Since(R, t)) <= LIMIT
<1>l. LIMIT \in Nat \ {0} /\ Cardinality(S) \in Nat
  BY SignInAssumption, FS_CardinalityType
<1>e. e \notin S
  BY DEF Failure
<1>c. /\ In(S, t) \subseteq Since(S, t) /\ Since(S, t) \subseteq S
      /\ IsFiniteSet(In(S, t)) /\ IsFiniteSet(Since(S, t))
      /\ Cardinality(In(S, t)) \in Nat /\ Cardinality(Since(S, t)) \in Nat
      /\ Cardinality(Since(S, t)) <= Cardinality(S)
  BY Counted
<1>r. R \subseteq S \cup {e} /\ IsFiniteSet(R) /\ Cardinality(R) <= LIMIT
  BY Added
<1>0. CASE In(S, t) = {}
  <2>1. In(R, t) = {}
    BY <1>0, <1>r DEF In
  <2>2. Since(R, t) = {} /\ Since(S, t) = {}
    BY <1>0, <2>1 DEF Since
  <2> QED BY <1>0, <2>1, <2>2, FS_EmptySet
<1>1. ASSUME NEW D, D \cap In(S, t) = {}, R = (S \ D) \cup {e}, D \cap Since(S, t) = {},
             In(S, t) # {}
      PROVE  /\ Cardinality(In(R, t)) = Cardinality(In(S, t))
             /\ Cardinality(Since(R, t)) = Cardinality(Since(S, t)) + 1
  <2>1. In(R, t) = In(S, t)
    BY <1>1 DEF In
  <2>2. Since(R, t) = Since(S, t) \cup {e}
    <3>1. \A f \in S : f \in Since(R, t) <=> f \in Since(S, t)
      BY <1>1, <2>1 DEF Since
    <3>2. e \in Since(R, t)
      <4>1. PICK g \in In(S, t) : TRUE
        BY <1>1
      <4>2. g \in S /\ g.n <= e.n
        BY <4>1 DEF In, Failure
      <4> QED BY <1>1, <2>1, <4>1, <4>2 DEF Since
    <3> QED BY <1>r, <1>c, <3>1, <3>2 DEF Since
  <2>3. e \notin Since(S, t)
    BY <1>c, <1>e
  <2>4. Cardinality(Since(S, t) \cup {e}) = Cardinality(Since(S, t)) + 1
    BY <1>c, <2>3, FS_AddElement
  <2> QED BY <2>1, <2>2, <2>4
<1>2. CASE In(S, t) # {} /\ Cardinality(S) < LIMIT /\ R = S \cup {e}
  <2> PICK D : D = {}
    OBVIOUS
  <2>1. R = (S \ D) \cup {e} /\ D \cap In(S, t) = {} /\ D \cap Since(S, t) = {}
    BY <1>2
  <2>2. Cardinality(Since(S, t)) < LIMIT
    BY <1>2, <1>l, <1>c
  <2> QED BY <1>1, <1>2, <2>1, <2>2
<1>3. CASE /\ In(S, t) # {}
           /\ \E d \in S : (\A f \in S : d.n <= f.n) /\ R = (S \ {d}) \cup {e} /\ Cardinality(S) = LIMIT
  <2> PICK d \in S : (\A f \in S : d.n <= f.n) /\ R = (S \ {d}) \cup {e} /\ Cardinality(S) = LIMIT
    BY <1>3
  <2>1. CASE d \in Since(S, t)
    <3>1. d \in In(S, t)
      BY <2>1 DEF Since, In, Distinct, Failure
    <3>2. Since(S, t) = S
      BY <3>1 DEF Since
    <3>3. In(R, t) = In(S, t) \ {d}
      BY DEF In
    <3>4. Cardinality(In(R, t)) = Cardinality(In(S, t)) - 1
      <4>1. Cardinality(In(S, t) \ {d}) = Cardinality(In(S, t)) - 1
        BY <1>c, <3>1, FS_RemoveElement
      <4> QED BY <3>3, <4>1
    <3>6. Cardinality(Since(R, t)) <= Cardinality(R) /\ Cardinality(Since(R, t)) \in Nat
      BY <1>r, Counted
    <3>7. Cardinality(R) \in Nat
      BY <1>r, FS_CardinalityType
    <3> QED BY <1>c, <1>l, <1>r, <3>2, <3>4, <3>6, <3>7
  <2>2. CASE d \notin Since(S, t)
    <3>1. {d} \cap Since(S, t) = {} /\ {d} \cap In(S, t) = {}
      BY <1>c, <2>2
    <3>3. R = (S \ {d}) \cup {e}
      OBVIOUS
    <3>2. Cardinality(Since(S, t)) < LIMIT
      BY <1>c, <1>l, <2>2, FS_Subset
    <3> QED BY <1>1, <1>3, <3>1, <3>2, <3>3
  <2> QED BY <2>1, <2>2
<1>4. \/ Cardinality(S) < LIMIT /\ R = S \cup {e}
      \/ /\ Cardinality(S) = LIMIT
         /\ \E d \in S : (\A f \in S : d.n <= f.n) /\ R = (S \ {d}) \cup {e}
  BY Added
<1> QED BY <1>0, <1>2, <1>3, <1>4

-----------------------------------------------------------------------------
(* The requests.                                                           *)

Requests == [Handlers -> Nat \cup {NoTime}]

PresentIn(g, t) == {h \in Handlers : g[h] # NoTime /\ t <= g[h] /\ g[h] < t + WINDOW}

TryingIn(g, P, t) == PresentIn(g, t) \cap P

OlderIn(g, t) == {h \in Handlers : g[h] # NoTime /\ g[h] < t}

With(g, h, v) == [g EXCEPT ![h] = v]

LEMMA Counting ==
  ASSUME NEW g \in Requests, NEW t \in Nat
  PROVE  /\ IsFiniteSet(PresentIn(g, t)) /\ IsFiniteSet(OlderIn(g, t))
         /\ Cardinality(PresentIn(g, t)) \in Nat /\ Cardinality(OlderIn(g, t)) \in Nat
         /\ Cardinality(Handlers) \in Nat
         /\ Cardinality(PresentIn(g, t)) + Cardinality(OlderIn(g, t)) <= Cardinality(Handlers)
         /\ \A h \in Handlers : g[h] = NoTime =>
               Cardinality(PresentIn(g, t)) + Cardinality(OlderIn(g, t)) <= Cardinality(Handlers) - 1
<1> DEFINE F == PresentIn(g, t)
           o == OlderIn(g, t)
<1>1. IsFiniteSet(Handlers) /\ F \in SUBSET Handlers /\ o \in SUBSET Handlers
  BY SignInAssumption DEF PresentIn, OlderIn
<1>2. F \cap o = {}
  BY DEF PresentIn, OlderIn, Requests
<1>3. \A h \in Handlers : g[h] = NoTime => h \notin F /\ h \notin o
  BY DEF PresentIn, OlderIn
<1> HIDE DEF F, o
<1>4. IsFiniteSet(F) /\ IsFiniteSet(o)
  BY <1>1, FS_Subset
<1>5. Cardinality(F) \in Nat /\ Cardinality(o) \in Nat /\ Cardinality(Handlers) \in Nat
  BY <1>1, <1>4, FS_CardinalityType
<1>6. IsFiniteSet(F \cup o) /\ Cardinality(F \cup o) = Cardinality(F) + Cardinality(o)
  <2>1. Cardinality(F \cap o) = 0
    BY <1>2, FS_EmptySet
  <2> QED BY <1>4, <1>5, <2>1, FS_Union
<1>7. Cardinality(F \cup o) <= Cardinality(Handlers)
  <2>1. F \cup o \in SUBSET Handlers
    BY <1>1
  <2> QED BY <1>1, <2>1, FS_Subset
<1>8. ASSUME NEW h \in Handlers, g[h] = NoTime
      PROVE  Cardinality(F \cup o) <= Cardinality(Handlers) - 1
  <2>1. F \cup o \in SUBSET (Handlers \ {h})
    BY <1>1, <1>3, <1>8
  <2>2. IsFiniteSet(Handlers \ {h}) /\ Cardinality(Handlers \ {h}) = Cardinality(Handlers) - 1
    BY <1>1, FS_RemoveElement
  <2>3. Cardinality(F \cup o) <= Cardinality(Handlers \ {h})
    BY <2>1, <2>2, FS_Subset
  <2> QED BY <2>2, <2>3
<1>9. /\ Cardinality(F) + Cardinality(o) <= Cardinality(Handlers)
      /\ \A h \in Handlers : g[h] = NoTime => Cardinality(F) + Cardinality(o) <= Cardinality(Handlers) - 1
  BY <1>6, <1>7, <1>8
<1> QED BY <1>4, <1>5, <1>9 DEF F, o

(* Those past the check.                                                   *)
LEMMA CountedTrying ==
  ASSUME NEW g \in Requests, NEW P, NEW t \in Nat
  PROVE  /\ IsFiniteSet(TryingIn(g, P, t)) /\ Cardinality(TryingIn(g, P, t)) \in Nat
         /\ Cardinality(TryingIn(g, P, t)) <= Cardinality(PresentIn(g, t))
         /\ \A h \in PresentIn(g, t) : h \notin P =>
               Cardinality(TryingIn(g, P, t)) + 1 <= Cardinality(PresentIn(g, t))
         /\ \A h \in TryingIn(g, P, t) : Cardinality(TryingIn(g, P, t)) >= 1
<1> DEFINE F == TryingIn(g, P, t)
           Q == PresentIn(g, t)
<1>1. IsFiniteSet(Q) /\ Cardinality(Q) \in Nat
  BY Counting
<1>2. F \subseteq Q /\ \A h \in Q : h \notin P => F \subseteq Q \ {h}
  BY DEF TryingIn
<1> HIDE DEF F, Q
<1>3. IsFiniteSet(F) /\ Cardinality(F) <= Cardinality(Q)
  BY <1>1, <1>2, FS_Subset
<1>4. Cardinality(F) \in Nat
  BY <1>3, FS_CardinalityType
<1>5. ASSUME NEW h \in Q, h \notin P PROVE Cardinality(F) + 1 <= Cardinality(Q)
  <2>1. IsFiniteSet(Q \ {h}) /\ Cardinality(Q \ {h}) = Cardinality(Q) - 1
    BY <1>1, FS_RemoveElement
  <2>2. Cardinality(F) <= Cardinality(Q \ {h})
    BY <1>2, <1>5, <2>1, FS_Subset
  <2> QED BY <1>1, <1>4, <2>1, <2>2
<1>6. ASSUME NEW h \in F PROVE Cardinality(F) >= 1
  BY <1>3, <1>4, FS_EmptySet
<1> QED BY <1>3, <1>4, <1>5, <1>6 DEF F, Q

(* A request ends.                                                         *)
LEMMA Freed ==
  ASSUME NEW g \in Requests, NEW h \in Handlers, g[h] # NoTime, NEW t \in Nat,
         NEW k, k = With(g, h, NoTime)
  PROVE  /\ k \in Requests /\ k[h] = NoTime
         /\ g[h] < t => /\ Cardinality(OlderIn(g, t)) >= 1
                        /\ Cardinality(OlderIn(k, t)) = Cardinality(OlderIn(g, t)) - 1
                        /\ Cardinality(PresentIn(k, t)) = Cardinality(PresentIn(g, t))
         /\ t <= g[h] /\ g[h] < t + WINDOW =>
               /\ Cardinality(PresentIn(g, t)) >= 1
               /\ Cardinality(PresentIn(k, t)) = Cardinality(PresentIn(g, t)) - 1
               /\ Cardinality(OlderIn(k, t)) = Cardinality(OlderIn(g, t))
         /\ t + WINDOW <= g[h] => /\ Cardinality(PresentIn(k, t)) = Cardinality(PresentIn(g, t))
                                  /\ Cardinality(OlderIn(k, t)) = Cardinality(OlderIn(g, t))
<1>1. k \in Requests /\ k[h] = NoTime /\ \A i \in Handlers : i # h => k[i] = g[i]
  BY DEF Requests, With
<1>2. g[h] \in Nat /\ t + WINDOW \in Nat /\ t < t + WINDOW
  BY SignInAssumption DEF Requests
<1>3. CASE g[h] < t
  <2>1. h \in OlderIn(g, t) /\ OlderIn(k, t) = OlderIn(g, t) \ {h} /\ PresentIn(k, t) = PresentIn(g, t)
    BY <1>1, <1>2, <1>3 DEF OlderIn, PresentIn
  <2>2. Cardinality(OlderIn(g, t) \ {h}) = Cardinality(OlderIn(g, t)) - 1
    BY <2>1, Counting, FS_RemoveElement
  <2>3. Cardinality(OlderIn(k, t)) \in Nat /\ Cardinality(OlderIn(g, t)) \in Nat
    BY <1>1, Counting
  <2>4. Cardinality(OlderIn(g, t)) >= 1 /\ Cardinality(OlderIn(k, t)) = Cardinality(OlderIn(g, t)) - 1
    <3>1. Cardinality(OlderIn(k, t)) = Cardinality(OlderIn(g, t) \ {h})
      BY <2>1
    <3> PICK a, b, c : /\ a = Cardinality(OlderIn(g, t)) /\ b = Cardinality(OlderIn(k, t))
                       /\ c = Cardinality(OlderIn(g, t) \ {h})
      OBVIOUS
    <3>2. a \in Nat /\ b \in Nat /\ c = a - 1 /\ b = c
      BY <2>2, <2>3, <3>1
    <3>3. a >= 1 /\ b = a - 1
      BY <3>2
    <3> QED BY <3>3
  <2>5. ~(t <= g[h]) /\ ~(t + WINDOW <= g[h])
    BY <1>2, <1>3
  <2> QED BY <1>1, <2>1, <2>4, <2>5
<1>4. CASE t <= g[h] /\ g[h] < t + WINDOW
  <2>1. h \in PresentIn(g, t) /\ PresentIn(k, t) = PresentIn(g, t) \ {h} /\ OlderIn(k, t) = OlderIn(g, t)
    BY <1>1, <1>2, <1>4 DEF OlderIn, PresentIn
  <2>2. Cardinality(PresentIn(g, t) \ {h}) = Cardinality(PresentIn(g, t)) - 1
    BY <2>1, Counting, FS_RemoveElement
  <2>3. Cardinality(PresentIn(k, t)) \in Nat /\ Cardinality(PresentIn(g, t)) \in Nat
    BY <1>1, Counting
  <2>4. Cardinality(PresentIn(g, t)) >= 1 /\ Cardinality(PresentIn(k, t)) = Cardinality(PresentIn(g, t)) - 1
    <3>1. Cardinality(PresentIn(k, t)) = Cardinality(PresentIn(g, t) \ {h})
      BY <2>1
    <3> PICK a, b, c : /\ a = Cardinality(PresentIn(g, t)) /\ b = Cardinality(PresentIn(k, t))
                       /\ c = Cardinality(PresentIn(g, t) \ {h})
      OBVIOUS
    <3>2. a \in Nat /\ b \in Nat /\ c = a - 1 /\ b = c
      BY <2>2, <2>3, <3>1
    <3>3. a >= 1 /\ b = a - 1
      BY <3>2
    <3> QED BY <3>3
  <2>5. ~(g[h] < t) /\ ~(t + WINDOW <= g[h])
    BY <1>2, <1>4
  <2> QED BY <1>1, <2>1, <2>4, <2>5
<1>5. CASE t + WINDOW <= g[h]
  <2>1. PresentIn(k, t) = PresentIn(g, t) /\ OlderIn(k, t) = OlderIn(g, t)
    BY <1>1, <1>2, <1>5 DEF OlderIn, PresentIn
  <2> QED BY <1>1, <1>2, <1>5, <2>1
<1> QED BY <1>2, <1>3, <1>4, <1>5

LEMMA FreedTrying ==
  ASSUME NEW g \in Requests, NEW P, NEW h \in Handlers, NEW t \in Nat, NEW k, k = With(g, h, NoTime)
  PROVE  /\ h \in TryingIn(g, P, t) =>
               Cardinality(TryingIn(k, P \ {h}, t)) = Cardinality(TryingIn(g, P, t)) - 1
         /\ h \notin TryingIn(g, P, t) =>
               Cardinality(TryingIn(k, P \ {h}, t)) = Cardinality(TryingIn(g, P, t))
<1>1. TryingIn(k, P \ {h}, t) = TryingIn(g, P, t) \ {h}
  BY DEF TryingIn, PresentIn, With, Requests
<1>2. IsFiniteSet(TryingIn(g, P, t))
  BY CountedTrying
<1> PICK X : X = TryingIn(g, P, t)
  OBVIOUS
<1>3. Cardinality(X \ {h}) = IF h \in X THEN Cardinality(X) - 1 ELSE Cardinality(X)
  BY <1>2, FS_RemoveElement
<1>4. /\ h \in X => Cardinality(X \ {h}) = Cardinality(X) - 1
      /\ h \notin X => Cardinality(X \ {h}) = Cardinality(X)
  BY <1>3
<1> QED BY <1>1, <1>4

(* A request reads the clock.                                              *)
LEMMA Started ==
  ASSUME NEW g \in Requests, NEW h \in Handlers, g[h] = NoTime, NEW t \in Nat, NEW c \in Nat, t <= c,
         NEW k, k = With(g, h, c)
  PROVE  /\ k \in Requests
         /\ Cardinality(OlderIn(k, t)) = Cardinality(OlderIn(g, t))
         /\ c < t + WINDOW => Cardinality(PresentIn(k, t)) = Cardinality(PresentIn(g, t)) + 1
         /\ ~(c < t + WINDOW) => Cardinality(PresentIn(k, t)) = Cardinality(PresentIn(g, t))
<1>1. k \in Requests /\ k[h] = c /\ \A i \in Handlers : i # h => k[i] = g[i]
  BY DEF Requests, With
<1>2. c # NoTime /\ t + WINDOW \in Nat
  BY SignInAssumption
<1>3. OlderIn(k, t) = OlderIn(g, t)
  BY <1>1, <1>2 DEF OlderIn
<1>4. CASE c < t + WINDOW
  <2>1. h \notin PresentIn(g, t) /\ PresentIn(k, t) = PresentIn(g, t) \cup {h}
    BY <1>1, <1>2, <1>4 DEF PresentIn
  <2>2. Cardinality(PresentIn(g, t) \cup {h}) = Cardinality(PresentIn(g, t)) + 1
    BY <2>1, Counting, FS_AddElement
  <2> QED BY <1>1, <1>3, <1>4, <2>1, <2>2
<1>5. CASE ~(c < t + WINDOW)
  <2>1. PresentIn(k, t) = PresentIn(g, t)
    BY <1>1, <1>2, <1>5 DEF PresentIn
  <2> QED BY <1>1, <1>3, <1>5, <2>1
<1> QED BY <1>4, <1>5

LEMMA StartedTrying ==
  ASSUME NEW g \in Requests, NEW P, NEW h \in Handlers, h \notin P, NEW t, NEW c,
         NEW k, k = With(g, h, c)
  PROVE  TryingIn(k, P, t) = TryingIn(g, P, t)
BY DEF TryingIn, PresentIn, With, Requests

(* A request passes the check.                                             *)
LEMMA PassedTrying ==
  ASSUME NEW g \in Requests, NEW P, NEW h \in Handlers, h \notin P, NEW t \in Nat
  PROVE  /\ h \in PresentIn(g, t) =>
               Cardinality(TryingIn(g, P \cup {h}, t)) = Cardinality(TryingIn(g, P, t)) + 1
         /\ h \notin PresentIn(g, t) => TryingIn(g, P \cup {h}, t) = TryingIn(g, P, t)
<1>1. CASE h \in PresentIn(g, t)
  <2>1. TryingIn(g, P \cup {h}, t) = TryingIn(g, P, t) \cup {h} /\ h \notin TryingIn(g, P, t)
    BY <1>1 DEF TryingIn
  <2>2. Cardinality(TryingIn(g, P, t) \cup {h}) = Cardinality(TryingIn(g, P, t)) + 1
    BY <2>1, CountedTrying, FS_AddElement
  <2> QED BY <1>1, <2>1, <2>2
<1>2. CASE h \notin PresentIn(g, t)
  BY <1>2 DEF TryingIn
<1> QED BY <1>1, <1>2

-----------------------------------------------------------------------------
(* The invariant of one window.                                            *)

Others == Cardinality(Handlers) - 1

WithinOf(g, P, R, S, t) ==
    Cardinality(In(R, t)) + Cardinality(TryingIn(g, P, t)) > 0 =>
        Fits(Others, Cardinality(In(R, t)), Cardinality(TryingIn(g, P, t)), Cardinality(In(S, t)),
             Cardinality(Since(S, t)), Cardinality(OlderIn(g, t)))

Most == LIMIT + Cardinality(Handlers) * Cardinality(Handlers) - 1

LEMMA MostIsNumber == Most \in Int
<1>1. Cardinality(Handlers) \in Nat
  BY SignInAssumption, FS_CardinalityType
<1>2. \A i \in Nat : i * i \in Nat
  OBVIOUS
<1>3. Cardinality(Handlers) * Cardinality(Handlers) \in Nat
  BY <1>1, <1>2
<1> QED BY <1>3, SignInAssumption DEF Most

Guessed(g, R, t) == Cardinality(In(R, t)) + Cardinality(PresentIn(g, t)) <= Most

WaitingOf(g, P, t) == PresentIn(g, t) = Handlers /\ P = {}

LEMMA Restated ==
  ASSUME NEW t
  PROVE  /\ Within(t) <=> WithinOf(handler, verifying, tries, failures, t)
         /\ Within(t)' <=> WithinOf(handler', verifying', tries', failures', t)
         /\ Present(t) = PresentIn(handler, t) /\ Present(t)' = PresentIn(handler', t)
         /\ Waiting(t) <=> WaitingOf(handler, verifying, t)
         /\ Waiting(t)' <=> WaitingOf(handler', verifying', t)
<1>1. /\ Present(t) = PresentIn(handler, t) /\ Present(t)' = PresentIn(handler', t)
      /\ Older(t) = OlderIn(handler, t) /\ Older(t)' = OlderIn(handler', t)
  BY DEF Present, Older, PresentIn, OlderIn
<1>2. /\ Trying(t) = TryingIn(handler, verifying, t)
      /\ Trying(t)' = TryingIn(handler', verifying', t)
  BY <1>1 DEF Trying, TryingIn
<1>3. Within(t) <=> WithinOf(handler, verifying, tries, failures, t)
  BY <1>1, <1>2 DEF Within, WithinOf, Fits, Others
<1>4. Within(t)' <=> WithinOf(handler', verifying', tries', failures', t)
  BY <1>1, <1>2 DEF Within, WithinOf, Fits, Others
<1>5. /\ Waiting(t) <=> WaitingOf(handler, verifying, t)
      /\ Waiting(t)' <=> WaitingOf(handler', verifying', t)
  BY <1>1 DEF Waiting, WaitingOf
<1> QED BY <1>1, <1>3, <1>4, <1>5

(* The lists of failures that occur: S is kept of R.                       *)
Lists(R, S) ==
    /\ R \subseteq Failure /\ IsFiniteSet(R) /\ S \subseteq R
    /\ Distinct(R) /\ Cardinality(S) <= LIMIT

LEMMA Numbers ==
  ASSUME NEW g \in Requests, NEW P, NEW R, NEW S, Lists(R, S), NEW t \in Nat
  PROVE  /\ Cardinality(In(R, t)) \in Nat /\ Cardinality(TryingIn(g, P, t)) \in Nat
         /\ Cardinality(OlderIn(g, t)) \in Nat
         /\ Cardinality(In(S, t)) \in Nat /\ Cardinality(Since(S, t)) \in Nat
         /\ Cardinality(In(S, t)) <= Cardinality(Since(S, t)) /\ Cardinality(Since(S, t)) <= LIMIT
         /\ Cardinality(In(S, t)) <= Cardinality(In(R, t))
         /\ Cardinality(In(S, t)) = 0 => Cardinality(Since(S, t)) = 0
         /\ Cardinality(Handlers) \in Nat /\ LIMIT \in Nat \ {0}
         /\ IsFiniteSet(S) /\ S \subseteq Failure /\ Distinct(S)
<1>1. IsFiniteSet(S) /\ S \subseteq Failure /\ Distinct(S)
  BY FS_Subset DEF Lists, Distinct
<1>2. IsFiniteSet(In(R, t)) /\ Cardinality(In(R, t)) \in Nat
  BY Counted DEF Lists
<1>3. Cardinality(In(S, t)) <= Cardinality(In(R, t))
  <2>1. In(S, t) \subseteq In(R, t)
    BY DEF In, Lists
  <2> QED BY <1>2, <2>1, FS_Subset
<1>4. Cardinality(S) \in Nat /\ Cardinality(S) <= LIMIT /\ LIMIT \in Nat \ {0}
  BY <1>1, FS_CardinalityType, SignInAssumption DEF Lists
<1>5. /\ Cardinality(In(S, t)) \in Nat /\ Cardinality(Since(S, t)) \in Nat
      /\ Cardinality(In(S, t)) <= Cardinality(Since(S, t))
      /\ Cardinality(Since(S, t)) <= Cardinality(S)
      /\ Cardinality(In(S, t)) = 0 => Cardinality(Since(S, t)) = 0
  BY <1>1, Counted
<1> QED BY <1>1, <1>2, <1>3, <1>4, <1>5, Counting, CountedTrying

(* What the inequalities say of the guesses.                               *)
LEMMA WithinGuesses ==
  ASSUME NEW g \in Requests, NEW P, NEW R, NEW S, Lists(R, S), NEW t \in Nat, WithinOf(g, P, R, S, t)
  PROVE  /\ Cardinality(In(R, t)) <= Most
         /\ ~WaitingOf(g, P, t) /\ P \subseteq Handlers => Guessed(g, R, t)
<1> PICK A, F, K, T, o, h, Q :
       /\ A = Cardinality(In(R, t)) /\ F = Cardinality(TryingIn(g, P, t))
       /\ K = Cardinality(In(S, t)) /\ T = Cardinality(Since(S, t))
       /\ o = Cardinality(OlderIn(g, t)) /\ h = Others /\ Q = Cardinality(PresentIn(g, t))
  OBVIOUS
<1>1. A \in Nat /\ F \in Nat /\ K \in Nat /\ T \in Nat /\ o \in Nat /\ K <= T
  BY Numbers
<1>2. /\ h + 1 = Cardinality(Handlers) /\ h + 1 \in Nat /\ h \in Int /\ LIMIT \in Nat \ {0}
      /\ IsFiniteSet(Handlers)
  BY Numbers, SignInAssumption DEF Others
<1>3. Q \in Nat /\ Q <= h + 1 /\ PresentIn(g, t) \subseteq Handlers
  <2>1. Q + o <= Cardinality(Handlers) /\ Q \in Nat
    BY Counting
  <2> QED BY <1>1, <1>2, <2>1 DEF PresentIn
<1>4. ASSUME ~WaitingOf(g, P, t), P \subseteq Handlers
      PROVE  Q < h + 1 \/ F >= 1
  <2>1. CASE PresentIn(g, t) # Handlers
    <3>1. Q # Cardinality(Handlers)
      BY <1>2, <1>3, <2>1, FS_Subset
    <3> QED BY <1>2, <1>3, <3>1
  <2>2. CASE PresentIn(g, t) = Handlers
    <3>1. PICK i \in P : TRUE
      BY <1>4, <2>2 DEF WaitingOf
    <3>2. i \in TryingIn(g, P, t)
      BY <1>4, <2>2, <3>1 DEF TryingIn
    <3> QED BY <3>2, CountedTrying
  <2> QED BY <2>1, <2>2
<1>5. CASE A + F > 0
  <2>1. Fits(h, A, F, K, T, o)
    BY <1>5 DEF WithinOf
  <2>2. h \in Nat
    BY <1>1, <1>2, <2>1 DEF Fits
  <2>3. A + F <= LIMIT + (h + 1) * h
    BY <1>1, <2>1, <2>2, FitsBound
  <2> PICK y : y = (h + 1) * h
    OBVIOUS
  <2>4. Most = LIMIT + y + h
    <3>1. (h + 1) * (h + 1) = y + h + 1 /\ y \in Int
      BY <2>2
    <3>2. Cardinality(Handlers) * Cardinality(Handlers) = y + h + 1
      BY <1>2, <3>1
    <3> QED BY <1>2, <2>2, <3>1, <3>2 DEF Most
  <2>5. y \in Int
    BY <2>2
  <2>6. A <= Most
    BY <1>1, <1>2, <2>2, <2>3, <2>4, <2>5
  <2>7. ASSUME Q < h + 1 \/ F >= 1 PROVE A + Q <= Most
    BY <1>1, <1>2, <1>3, <2>2, <2>3, <2>4, <2>5, <2>7
  <2> QED BY <1>4, <2>6, <2>7 DEF Guessed
<1>6. CASE A + F = 0
  <2>1. A = 0 /\ F = 0
    BY <1>1, <1>6
  <2>2. h + 1 <= Most /\ 0 <= Most /\ Most \in Int
    <3> PICK m : m = h + 1
      OBVIOUS
    <3>1. \A i \in Nat : i * i \in Nat /\ i <= i * i
      <4> TAKE i \in Nat
      <4>1. CASE i = 0
        BY <4>1
      <4>2. CASE i # 0
        <5>1. i - 1 \in Nat /\ i * i = i + i * (i - 1)
          BY <4>2
        <5>2. \A a, b \in Nat : a * b \in Nat
          OBVIOUS
        <5> QED BY <5>1, <5>2
      <4> QED BY <4>1, <4>2
    <3>2. m * m \in Nat /\ m <= m * m
      BY <1>2, <3>1
    <3>3. Most = LIMIT + m * m - 1
      BY <1>2 DEF Most
    <3> PICK y : y = m * m
      OBVIOUS
    <3> QED BY <1>2, <3>2, <3>3
  <2> QED BY <1>2, <1>3, <2>1, <2>2 DEF Guessed
<1> QED BY <1>1, <1>5, <1>6

(* What the check of a request that read the time now leaves.             *)
Checked(S, now) == {f \in S : now - f.at < WINDOW}

(* The check drops failures that no window still open holds.               *)
LEMMA Dropped ==
  ASSUME NEW S, IsFiniteSet(S), S \subseteq Failure, NEW t \in Nat, NEW c \in Nat, c < t + WINDOW,
         NEW D, D = Checked(S, c)
  PROVE  /\ In(D, t) = In(S, t)
         /\ Cardinality(Since(D, t)) <= Cardinality(Since(S, t))
<1>1. In(D, t) = In(S, t)
  <2>1. ASSUME NEW f \in In(S, t) PROVE c - f.at < WINDOW
    <3>1. f.at \in Nat /\ t <= f.at
      BY <2>1 DEF In, Failure
    <3> QED BY <3>1, SignInAssumption
  <2> QED BY <2>1 DEF In, Checked
<1>2. Since(D, t) \subseteq Since(S, t)
  BY <1>1 DEF Since, Checked
<1> QED BY <1>1, <1>2, Counted, FS_Subset

(* A request of the window passes the check.                               *)
LEMMA WithinPass ==
  ASSUME NEW g \in Requests, NEW P, NEW R, NEW S, Lists(R, S), NEW t \in Nat, WithinOf(g, P, R, S, t),
         NEW h \in Handlers, h \in PresentIn(g, t), h \notin P,
         NEW D, D \subseteq S, In(D, t) = In(S, t),
         Cardinality(Since(D, t)) <= Cardinality(Since(S, t)), Cardinality(Since(D, t)) < LIMIT
  PROVE  WithinOf(g, P \cup {h}, R, D, t)
<1> PICK A, F, K, T, o, U, j :
       /\ A = Cardinality(In(R, t)) /\ F = Cardinality(TryingIn(g, P, t))
       /\ K = Cardinality(In(S, t)) /\ T = Cardinality(Since(S, t))
       /\ o = Cardinality(OlderIn(g, t)) /\ U = Cardinality(Since(D, t)) /\ j = Others
  OBVIOUS
<1>1. /\ A \in Nat /\ F \in Nat /\ K \in Nat /\ T \in Nat /\ o \in Nat /\ K <= T /\ T <= LIMIT
      /\ K <= A /\ (K = 0 => T = 0) /\ IsFiniteSet(S) /\ S \subseteq Failure
  BY Numbers
<1>2. F + 1 + o <= j + 1 /\ j \in Nat
  <2> PICK Q : Q = Cardinality(PresentIn(g, t))
    OBVIOUS
  <2>1. Q + o <= Cardinality(Handlers) /\ Q \in Nat /\ Cardinality(Handlers) \in Nat
    BY Counting
  <2>2. F + 1 <= Q
    BY CountedTrying
  <2> QED BY <1>1, <2>1, <2>2 DEF Others
<1>3. U \in Nat /\ K <= U
  <2>1. IsFiniteSet(D) /\ D \subseteq Failure
    BY <1>1, FS_Subset
  <2>2. Cardinality(Since(D, t)) \in Nat /\ Cardinality(In(D, t)) <= Cardinality(Since(D, t))
    BY <2>1, Counted
  <2> QED BY <2>2
<1>4. Cardinality(TryingIn(g, P \cup {h}, t)) = F + 1
  BY PassedTrying
<1> PICK G : G = F + 1
  OBVIOUS
<1>5. Fits(j, A, G, K, U, o)
  <2>1. CASE A + F > 0
    <3>1. Fits(j, A, F, K, T, o)
      BY <2>1 DEF WithinOf
    <3>2. /\ {j, A, F, K, T, o, U} \subseteq Nat /\ G = F + 1
          /\ G + o <= j + 1 /\ K <= U /\ U <= T /\ U < LIMIT /\ T <= LIMIT /\ LIMIT \in Nat
      BY <1>1, <1>2, <1>3, SignInAssumption
    <3> QED BY <3>1, <3>2, FitsPass
  <2>2. CASE A + F = 0
    <3>0. A = 0 /\ F = 0 /\ K = 0 /\ T = 0 /\ U <= T
      BY <1>1, <2>2
    <3>1. G \in Nat /\ A = 0 /\ F = 0 /\ K = 0 /\ U = 0 /\ o <= j /\ G + o <= j + 1
      BY <1>1, <1>2, <1>3, <3>0
    <3>2. Fits(j, 0, G, 0, 0, o)
      BY <1>1, <1>2, <3>1, FitsNone
    <3> QED BY <3>1, <3>2
  <2> QED BY <1>1, <2>1, <2>2
<1> QED BY <1>4, <1>5 DEF WithinOf

LEMMA WithinDrop ==
  ASSUME NEW g \in Requests, NEW P, NEW R, NEW S, Lists(R, S), NEW t \in Nat, WithinOf(g, P, R, S, t),
         NEW D, D \subseteq S, In(D, t) = In(S, t),
         Cardinality(Since(D, t)) <= Cardinality(Since(S, t))
  PROVE  WithinOf(g, P, R, D, t)
<1> PICK A, F, K, T, o, U, j :
       /\ A = Cardinality(In(R, t)) /\ F = Cardinality(TryingIn(g, P, t))
       /\ K = Cardinality(In(S, t)) /\ T = Cardinality(Since(S, t))
       /\ o = Cardinality(OlderIn(g, t)) /\ U = Cardinality(Since(D, t)) /\ j = Others
  OBVIOUS
<1>1. /\ A \in Nat /\ F \in Nat /\ K \in Nat /\ T \in Nat /\ o \in Nat /\ K <= T /\ T <= LIMIT
      /\ IsFiniteSet(S) /\ S \subseteq Failure
  BY Numbers
<1>2. j \in Int
  BY Counting DEF Others
<1>3. U \in Nat /\ K <= U
  <2>1. IsFiniteSet(D) /\ D \subseteq Failure
    BY <1>1, FS_Subset
  <2> QED BY <2>1, Counted
<1>5. CASE A + F > 0
  <2>1. Fits(j, A, F, K, T, o)
    BY <1>5 DEF WithinOf
  <2>2. j \in Nat
    BY <1>1, <1>2, <2>1 DEF Fits
  <2>3. Fits(j, A, F, K, U, o)
    BY <1>1, <1>3, <2>1, <2>2, FitsDrop
  <2> QED BY <2>3 DEF WithinOf
<1>6. CASE ~(A + F > 0)
  BY <1>6 DEF WithinOf
<1> QED BY <1>5, <1>6

(* A request ends and notes nothing.                                       *)
LEMMA WithinEnd ==
  ASSUME NEW g \in Requests, NEW P, NEW R, NEW S, Lists(R, S), NEW t \in Nat, WithinOf(g, P, R, S, t),
         NEW h \in Handlers, g[h] # NoTime, g[h] < t + WINDOW, NEW k, k = With(g, h, NoTime)
  PROVE  WithinOf(k, P \ {h}, R, S, t)
<1> PICK A, F, K, T, o, j :
       /\ A = Cardinality(In(R, t)) /\ F = Cardinality(TryingIn(g, P, t))
       /\ K = Cardinality(In(S, t)) /\ T = Cardinality(Since(S, t))
       /\ o = Cardinality(OlderIn(g, t)) /\ j = Others
  OBVIOUS
<1>1. A \in Nat /\ F \in Nat /\ K \in Nat /\ T \in Nat /\ o \in Nat /\ K <= T
  BY Numbers
<1>2. j \in Int
  BY Counting DEF Others
<1>3. g[h] \in Nat
  BY DEF Requests
<1>4. ASSUME A + F > 0
      PROVE  Fits(j, A, F, K, T, o) /\ j \in Nat
  <2>1. Fits(j, A, F, K, T, o)
    BY <1>4 DEF WithinOf
  <2>2. j \in Nat
    BY <1>1, <1>2, <2>1 DEF Fits
  <2> QED BY <2>1, <2>2
<1>5. CASE t <= g[h] /\ h \in P
  <2>1. h \in TryingIn(g, P, t)
    BY <1>5 DEF TryingIn, PresentIn
  <2>2. Cardinality(TryingIn(k, P \ {h}, t)) = F - 1
    BY <2>1, FreedTrying
  <2>3. Cardinality(OlderIn(k, t)) = o
    BY <1>5, Freed
  <2>4. ASSUME A + (F - 1) > 0 PROVE Fits(j, A, F - 1, K, T, o)
    <3>1. A + F > 0
      BY <1>1, <2>4
    <3> QED BY <1>1, <1>4, <3>1, FitsFewer
  <2> QED BY <2>2, <2>3, <2>4 DEF WithinOf
<1>6. CASE t <= g[h] /\ h \notin P
  <2>1. h \notin TryingIn(g, P, t)
    BY <1>6 DEF TryingIn
  <2>2. Cardinality(TryingIn(k, P \ {h}, t)) = F
    BY <2>1, FreedTrying
  <2>3. Cardinality(OlderIn(k, t)) = o
    BY <1>6, Freed
  <2> QED BY <2>2, <2>3 DEF WithinOf
<1>7. CASE g[h] < t
  <2>1. h \notin TryingIn(g, P, t)
    BY <1>3, <1>7 DEF TryingIn, PresentIn
  <2>2. Cardinality(TryingIn(k, P \ {h}, t)) = F
    BY <2>1, FreedTrying
  <2>3. o >= 1 /\ Cardinality(OlderIn(k, t)) = o - 1
    BY <1>7, Freed
  <2>4. ASSUME A + F > 0 PROVE Fits(j, A, F, K, T, o - 1)
    BY <1>1, <1>4, <2>3, <2>4, FitsEnd
  <2> QED BY <2>2, <2>3, <2>4 DEF WithinOf
<1> QED BY <1>3, <1>5, <1>6, <1>7

LEMMA WithinRefused ==
  ASSUME NEW g \in Requests, NEW P, NEW R, NEW S, Lists(R, S), NEW t \in Nat, WithinOf(g, P, R, S, t),
         NEW h \in Handlers, g[h] # NoTime, h \in P, g[h] < t + WINDOW,
         NEW k, k = With(g, h, NoTime),
         NEW e \in Failure, e.at = g[h], \A f \in R : f.n < e.n,
         NEW D, D = Kept(S \cup {e})
  PROVE  WithinOf(k, P \ {h}, R \cup {e}, D, t)
<1> PICK A, F, K, T, o, J, U, j :
       /\ A = Cardinality(In(R, t)) /\ F = Cardinality(TryingIn(g, P, t))
       /\ K = Cardinality(In(S, t)) /\ T = Cardinality(Since(S, t))
       /\ o = Cardinality(OlderIn(g, t)) /\ j = Others
       /\ J = Cardinality(In(D, t)) /\ U = Cardinality(Since(D, t))
  OBVIOUS
<1>1. /\ A \in Nat /\ F \in Nat /\ K \in Nat /\ T \in Nat /\ o \in Nat /\ K <= T /\ T <= LIMIT
      /\ IsFiniteSet(S) /\ S \subseteq Failure /\ Distinct(S) /\ LIMIT \in Nat \ {0}
      /\ Cardinality(Handlers) \in Nat
  BY Numbers
<1>2. F + o <= j + 1
  <2> PICK Q : Q = Cardinality(PresentIn(g, t))
    OBVIOUS
  <2>1. Q + o <= Cardinality(Handlers) /\ Q \in Nat
    BY Counting
  <2>2. F <= Q
    BY CountedTrying
  <2> QED BY <1>1, <2>1, <2>2 DEF Others
<1>3. S \subseteq R /\ Cardinality(S) <= LIMIT /\ \A f \in S : f.n < e.n
  BY DEF Lists
<1>4. J \in Nat /\ U \in Nat /\ J <= U
  <2>1. IsFiniteSet(D) /\ D \subseteq Failure
    BY <1>1, <1>3, Added
  <2> QED BY <2>1, Counted
<1>5. g[h] \in Nat
  BY DEF Requests
<1>6. CASE g[h] < t
  <2>0. h \notin TryingIn(g, P, t)
    BY <1>5, <1>6 DEF TryingIn, PresentIn
  <2>1. o >= 1 /\ Cardinality(OlderIn(k, t)) = o - 1 /\ Cardinality(TryingIn(k, P \ {h}, t)) = F
    BY <1>6, <2>0, Freed, FreedTrying
  <2>2. e \notin In({e}, t) /\ In(R \cup {e}, t) = In(R, t)
    BY <1>5, <1>6 DEF In
  <2>3. \/ T = 0 /\ K = 0 /\ U = 0 /\ J = 0
        \/ T < LIMIT /\ J = K /\ U = T + 1
        \/ T = LIMIT /\ J = K - 1 /\ J <= U /\ U <= LIMIT
    BY <1>1, <1>3, <1>4, <2>2, AddedOld
  <2>4. ASSUME A + F > 0 PROVE Fits(j, A, F, J, U, o - 1)
    <3>1. Fits(j, A, F, K, T, o)
      BY <2>4 DEF WithinOf
    <3>2. j \in Nat /\ o <= j
      BY <1>1, <3>1 DEF Fits, Others
    <3> QED BY <1>1, <1>4, <2>1, <2>3, <3>1, <3>2, FitsOld
  <2> QED BY <2>1, <2>2, <2>4 DEF WithinOf
<1>7. CASE t <= g[h]
  <2>0. h \in TryingIn(g, P, t)
    BY <1>7 DEF TryingIn, PresentIn
  <2>1. F >= 1 /\ Cardinality(TryingIn(k, P \ {h}, t)) = F - 1 /\ Cardinality(OlderIn(k, t)) = o
    BY <1>7, <2>0, CountedTrying, Freed, FreedTrying
  <2>2. e \in In({e}, t) /\ In(R \cup {e}, t) = In(R, t) \cup {e}
    BY <1>5, <1>7 DEF In
  <2>3. Cardinality(In(R \cup {e}, t)) = A + 1
    <3>1. e \notin In(R, t) /\ IsFiniteSet(In(R, t))
      <4>1. e \notin R
        BY DEF Failure
      <4> QED BY <4>1, Counted DEF In, Lists
    <3> QED BY <2>2, <3>1, FS_AddElement
  <2>4. \/ T < LIMIT /\ J = K + 1 /\ U = T + 1
        \/ T = LIMIT /\ J = K /\ J <= U /\ U <= LIMIT
    BY <1>1, <1>3, <1>4, <2>2, AddedIn
  <2>5. Fits(j, A, F, K, T, o)
    BY <1>1, <2>1 DEF WithinOf
  <2>6. j \in Nat /\ o <= j
    BY <1>1, <1>2, <2>1 DEF Others
  <2>7. Fits(j, A + 1, F - 1, J, U, o)
    BY <1>1, <1>4, <2>1, <2>4, <2>5, <2>6, FitsNew
  <2> QED BY <2>1, <2>3, <2>7 DEF WithinOf
<1> QED BY <1>5, <1>6, <1>7

Free(g) == Handlers = {} \/ \E h \in Handlers : g[h] = NoTime

LEMMA WithinForgotten ==
  ASSUME NEW g \in Requests, NEW P, NEW t \in Nat, Free(g), NEW E, E = {}
  PROVE  WithinOf(g, P, E, E, t)
<1>1. In(E, t) = {} /\ Since(E, t) = {} /\ Cardinality({}) = 0
  BY FS_EmptySet DEF In, Since
<1>2. CASE Handlers = {}
  <2>1. TryingIn(g, P, t) = {}
    BY <1>2 DEF TryingIn, PresentIn
  <2> QED BY <1>1, <2>1 DEF WithinOf
<1>3. CASE \E h \in Handlers : g[h] = NoTime
  <2> PICK F, o, j : F = Cardinality(TryingIn(g, P, t)) /\ o = Cardinality(OlderIn(g, t)) /\ j = Others
    OBVIOUS
  <2>1. F \in Nat /\ o \in Nat /\ F + o <= j /\ j \in Nat
    <3> PICK Q : Q = Cardinality(PresentIn(g, t))
      OBVIOUS
    <3>1. Q + o <= j /\ Q \in Nat /\ o \in Nat
      BY <1>3, Counting DEF Others
    <3>2. F \in Nat /\ F <= Q
      BY CountedTrying
    <3>3. j \in Int
      BY Counting DEF Others
    <3> QED BY <3>1, <3>2, <3>3
  <2>2. Fits(j, 0, F, 0, 0, o)
    BY <2>1, FitsNone
  <2> QED BY <1>1, <2>2 DEF WithinOf
<1> QED BY <1>2, <1>3 DEF Free

(* Once a window is over no guess of it is added.                          *)
LEMMA GuessedRefused ==
  ASSUME NEW g \in Requests, NEW R, R \subseteq Failure, IsFiniteSet(R), NEW t \in Nat, Guessed(g, R, t),
         NEW h \in Handlers, g[h] # NoTime, NEW k, k = With(g, h, NoTime),
         NEW e \in Failure, e.at = g[h], \A f \in R : f.n < e.n
  PROVE  Guessed(k, R \cup {e}, t)
<1>1. g[h] \in Nat /\ t + WINDOW \in Nat
  BY SignInAssumption DEF Requests
<1>2. Cardinality(PresentIn(g, t)) \in Nat /\ IsFiniteSet(In(R, t)) /\ Cardinality(In(R, t)) \in Nat
  BY Counting, Counted
<1>3. CASE t <= g[h] /\ g[h] < t + WINDOW
  <2>1. Cardinality(PresentIn(k, t)) = Cardinality(PresentIn(g, t)) - 1
    BY <1>3, Freed
  <2>2. In(R \cup {e}, t) = In(R, t) \cup {e} /\ e \notin In(R, t)
    BY <1>3 DEF In, Failure
  <2>3. Cardinality(In(R \cup {e}, t)) = Cardinality(In(R, t)) + 1
    BY <1>2, <2>2, FS_AddElement
  <2>4. \A a, b \in Nat : (a + 1) + (b - 1) = a + b
    OBVIOUS
  <2>5. Cardinality(In(R \cup {e}, t)) + Cardinality(PresentIn(k, t))
           = Cardinality(In(R, t)) + Cardinality(PresentIn(g, t))
    BY <1>2, <2>1, <2>3, <2>4
  <2> QED BY <2>5 DEF Guessed
<1>4. CASE ~(t <= g[h] /\ g[h] < t + WINDOW)
  <2>1. g[h] < t \/ t + WINDOW <= g[h]
    BY <1>1, <1>4
  <2>2. Cardinality(PresentIn(k, t)) = Cardinality(PresentIn(g, t))
    BY <2>1, Freed
  <2>3. In(R \cup {e}, t) = In(R, t)
    BY <1>4 DEF In
  <2> QED BY <2>2, <2>3 DEF Guessed
<1> QED BY <1>3, <1>4

-----------------------------------------------------------------------------
(* The invariant.                                                          *)

(* What holds of a window t that has begun at time c.                      *)
Window(c, g, P, R, S, t) ==
    /\ c < t + WINDOW \/ WaitingOf(g, P, t) => WithinOf(g, P, R, S, t)
    /\ WaitingOf(g, P, t) \/ Guessed(g, R, t)

Holds(c, g, P, R, S, n) ==
    /\ c \in Nat /\ g \in Requests /\ n \in Nat
    /\ P \subseteq {h \in Handlers : g[h] # NoTime}
    /\ Lists(R, S)
    /\ \A f \in R : f.n < n /\ f.at <= c
    /\ \A h \in Handlers : g[h] # NoTime => g[h] <= c
    /\ \A t \in 0 .. c : Window(c, g, P, R, S, t)

LEMMA InvariantRestated ==
  /\ SignInInv <=> Holds(clock, handler, verifying, tries, failures, noted)
  /\ SignInInv' <=> Holds(clock', handler', verifying', tries', failures', noted')
<1>1. SignInInv <=> Holds(clock, handler, verifying, tries, failures, noted)
  BY Restated DEF SignInInv, LimiterTypeOK, Holds, Window, Guessed, Most, Lists, Distinct, Requests
<1>2. SignInInv' <=> Holds(clock', handler', verifying', tries', failures', noted')
  BY Restated DEF SignInInv, LimiterTypeOK, Holds, Window, Guessed, Most, Lists, Distinct, Requests
<1> QED BY <1>1, <1>2

(* Of an open window the inequalities are enough.                          *)
LEMMA WindowOpen ==
  ASSUME NEW c, NEW g \in Requests, NEW P, P \subseteq Handlers, NEW R, NEW S, Lists(R, S),
         NEW t \in Nat, WithinOf(g, P, R, S, t)
  PROVE  Window(c, g, P, R, S, t)
BY WithinGuesses DEF Window

(* Of a closed one, with a request that does not wait, the bound is.       *)
LEMMA WindowClosed ==
  ASSUME NEW c, NEW g, NEW P, NEW R, NEW S, NEW t, ~(c < t + WINDOW), ~WaitingOf(g, P, t),
         Guessed(g, R, t)
  PROVE  Window(c, g, P, R, S, t)
BY DEF Window

LEMMA ArriveHolds ==
  ASSUME NEW c, NEW g, NEW P, NEW R, NEW S, NEW n, Holds(c, g, P, R, S, n),
         NEW h \in Handlers, g[h] = NoTime, NEW k, k = With(g, h, c)
  PROVE  Holds(c, k, P, R, S, n)
<1>1. c \in Nat /\ g \in Requests /\ Lists(R, S) /\ h \notin P /\ P \subseteq Handlers
  BY DEF Holds
<1>2. k \in Requests /\ (\A i \in Handlers : k[i] # NoTime => k[i] <= c)
      /\ P \subseteq {i \in Handlers : k[i] # NoTime}
  BY SignInAssumption DEF Holds, Requests, With
<1>3. ASSUME NEW t \in 0 .. c PROVE Window(c, k, P, R, S, t)
  <2>1. t \in Nat /\ t <= c /\ t + WINDOW \in Nat
    BY <1>1, SignInAssumption
  <2>2. TryingIn(k, P, t) = TryingIn(g, P, t) /\ Cardinality(OlderIn(k, t)) = Cardinality(OlderIn(g, t))
    BY <1>1, <2>1, Started, StartedTrying
  <2>3. Window(c, g, P, R, S, t)
    BY DEF Holds
  <2>4. CASE c < t + WINDOW
    <3>1. WithinOf(g, P, R, S, t)
      BY <2>3, <2>4 DEF Window
    <3>2. WithinOf(k, P, R, S, t)
      BY <2>2, <3>1 DEF WithinOf
    <3> QED BY <1>1, <1>2, <2>1, <3>2, WindowOpen
  <2>5. CASE ~(c < t + WINDOW)
    <3>1. h \notin PresentIn(g, t) /\ h \notin PresentIn(k, t)
      BY <1>1, <2>5 DEF PresentIn, With, Requests
    <3>2. ~WaitingOf(g, P, t) /\ ~WaitingOf(k, P, t)
      BY <3>1 DEF WaitingOf
    <3>3. Cardinality(PresentIn(k, t)) = Cardinality(PresentIn(g, t))
      BY <1>1, <2>1, <2>5, Started
    <3>4. Guessed(k, R, t)
      BY <2>3, <3>2, <3>3 DEF Window, Guessed
    <3> QED BY <2>5, <3>2, <3>4, WindowClosed
  <2> QED BY <2>4, <2>5
<1> QED BY <1>2, <1>3 DEF Holds

(* The list after the check of a request that read the time now.           *)
LEMMA CheckedList ==
  ASSUME NEW c, NEW g, NEW P, NEW R, NEW S, NEW n, Holds(c, g, P, R, S, n),
         NEW now \in Nat, NEW D, D = Checked(S, now)
  PROVE  /\ Lists(R, D) /\ D \subseteq S /\ IsFiniteSet(D) /\ D \subseteq Failure
         /\ \A t \in Nat : now < t + WINDOW =>
               In(D, t) = In(S, t) /\ Cardinality(Since(D, t)) <= Cardinality(Since(S, t))
<1>1. Lists(R, S) /\ D \subseteq S
  BY DEF Holds, Checked
<1>2. IsFiniteSet(S) /\ S \subseteq Failure /\ Cardinality(S) <= LIMIT
  BY <1>1, FS_Subset DEF Lists
<1>3. IsFiniteSet(D) /\ D \subseteq Failure /\ Cardinality(D) <= Cardinality(S)
  BY <1>1, <1>2, FS_Subset
<1>4. Cardinality(D) <= LIMIT
  BY <1>2, <1>3, FS_CardinalityType, SignInAssumption
<1>5. Lists(R, D)
  BY <1>1, <1>4 DEF Lists
<1>6. ASSUME NEW t \in Nat, now < t + WINDOW
      PROVE  In(D, t) = In(S, t) /\ Cardinality(Since(D, t)) <= Cardinality(Since(S, t))
  BY <1>2, <1>6, Dropped
<1> QED BY <1>1, <1>3, <1>5, <1>6

LEMMA DropHolds ==
  ASSUME NEW c, NEW g, NEW P, NEW R, NEW S, NEW n, Holds(c, g, P, R, S, n),
         NEW h \in Handlers, g[h] # NoTime, NEW D, D = Checked(S, g[h])
  PROVE  Holds(c, g, P, R, D, n)
<1>1. c \in Nat /\ g \in Requests /\ Lists(R, S) /\ P \subseteq Handlers /\ g[h] \in Nat /\ g[h] <= c
  BY DEF Holds, Requests
<1>2. Lists(R, D) /\ D \subseteq S
  BY <1>1, CheckedList
<1>3. ASSUME NEW t \in 0 .. c PROVE Window(c, g, P, R, D, t)
  <2>1. t \in Nat /\ t + WINDOW \in Nat
    BY <1>1, SignInAssumption
  <2>2. Window(c, g, P, R, S, t)
    BY DEF Holds
  <2>3. CASE c < t + WINDOW \/ WaitingOf(g, P, t)
    <3>1. WithinOf(g, P, R, S, t) /\ g[h] < t + WINDOW
      BY <1>1, <2>1, <2>2, <2>3 DEF Window, WaitingOf, PresentIn
    <3>2. In(D, t) = In(S, t) /\ Cardinality(Since(D, t)) <= Cardinality(Since(S, t))
      BY <1>1, <2>1, <3>1, CheckedList
    <3>3. WithinOf(g, P, R, D, t)
      BY <1>1, <1>2, <2>1, <3>1, <3>2, WithinDrop
    <3> QED BY <1>1, <1>2, <2>1, <3>3, WindowOpen
  <2>4. CASE ~(c < t + WINDOW \/ WaitingOf(g, P, t))
    BY <2>2, <2>4 DEF Window
  <2> QED BY <2>3, <2>4
<1> QED BY <1>2, <1>3 DEF Holds

(* A request that is blocked, or fails.                                    *)
LEMMA EndHolds ==
  ASSUME NEW c, NEW g, NEW P, NEW R, NEW S, NEW n, Holds(c, g, P, R, S, n),
         NEW h \in Handlers, g[h] # NoTime, NEW k, k = With(g, h, NoTime)
  PROVE  Holds(c, k, P \ {h}, R, S, n)
<1>1. c \in Nat /\ g \in Requests /\ Lists(R, S) /\ P \subseteq Handlers /\ g[h] \in Nat /\ g[h] <= c
  BY DEF Holds, Requests
<1>2. /\ k \in Requests /\ k[h] = NoTime /\ (\A i \in Handlers : k[i] # NoTime => k[i] <= c)
      /\ P \ {h} \subseteq {i \in Handlers : k[i] # NoTime} /\ P \ {h} \subseteq Handlers
  BY DEF Holds, Requests, With
<1>3. ASSUME NEW t \in 0 .. c PROVE Window(c, k, P \ {h}, R, S, t)
  <2>1. t \in Nat /\ t + WINDOW \in Nat
    BY <1>1, SignInAssumption
  <2>2. Window(c, g, P, R, S, t)
    BY DEF Holds
  <2>3. CASE c < t + WINDOW \/ WaitingOf(g, P, t)
    <3>1. WithinOf(g, P, R, S, t) /\ g[h] < t + WINDOW
      BY <1>1, <2>1, <2>2, <2>3 DEF Window, WaitingOf, PresentIn
    <3>2. WithinOf(k, P \ {h}, R, S, t)
      BY <1>1, <2>1, <3>1, WithinEnd
    <3> QED BY <1>1, <1>2, <2>1, <3>2, WindowOpen
  <2>4. CASE ~(c < t + WINDOW \/ WaitingOf(g, P, t))
    <3>1. Cardinality(PresentIn(k, t)) <= Cardinality(PresentIn(g, t))
      <4>1. PresentIn(k, t) \subseteq PresentIn(g, t)
        BY <1>1 DEF PresentIn, With, Requests
      <4> QED BY <1>1, <2>1, <4>1, Counting, FS_Subset
    <3>2. Guessed(k, R, t)
      <4>1. Guessed(g, R, t)
        BY <2>2, <2>4 DEF Window
      <4>2. Cardinality(In(R, t)) \in Nat
        BY <1>1, Counted DEF Lists
      <4>3. Most \in Int
        BY MostIsNumber
      <4>4. Cardinality(PresentIn(k, t)) \in Nat /\ Cardinality(PresentIn(g, t)) \in Nat
        BY <1>1, <1>2, <2>1, Counting
      <4> QED BY <3>1, <4>1, <4>2, <4>3, <4>4 DEF Guessed
    <3>3. ~WaitingOf(k, P \ {h}, t)
      BY <1>2 DEF WaitingOf, PresentIn
    <3> QED BY <2>4, <3>2, <3>3, WindowClosed
  <2> QED BY <2>3, <2>4
<1> QED BY <1>1, <1>2, <1>3 DEF Holds

LEMMA PassHolds ==
  ASSUME NEW c, NEW g, NEW P, NEW R, NEW S, NEW n, Holds(c, g, P, R, S, n),
         NEW h \in Handlers, g[h] # NoTime, h \notin P,
         NEW D, D = Checked(S, g[h]), Cardinality(D) < LIMIT
  PROVE  Holds(c, g, P \cup {h}, R, D, n)
<1>1. c \in Nat /\ g \in Requests /\ Lists(R, S) /\ P \subseteq Handlers /\ g[h] \in Nat /\ g[h] <= c
  BY DEF Holds, Requests
<1>2. Lists(R, D) /\ D \subseteq S /\ IsFiniteSet(D) /\ D \subseteq Failure
  BY <1>1, CheckedList
<1>3. P \cup {h} \subseteq Handlers /\ P \cup {h} \subseteq {i \in Handlers : g[i] # NoTime}
  BY DEF Holds
<1>4. ASSUME NEW t \in 0 .. c PROVE Window(c, g, P \cup {h}, R, D, t)
  <2>1. t \in Nat /\ t + WINDOW \in Nat
    BY <1>1, SignInAssumption
  <2>2. Window(c, g, P, R, S, t)
    BY DEF Holds
  <2>3. CASE c < t + WINDOW \/ WaitingOf(g, P, t)
    <3>1. WithinOf(g, P, R, S, t) /\ g[h] < t + WINDOW
      BY <1>1, <2>1, <2>2, <2>3 DEF Window, WaitingOf, PresentIn
    <3>2. In(D, t) = In(S, t) /\ Cardinality(Since(D, t)) <= Cardinality(Since(S, t))
      BY <1>1, <2>1, <3>1, CheckedList
    <3>3. CASE h \in PresentIn(g, t)
      <4>1. Cardinality(Since(D, t)) < LIMIT
        <5>1. Cardinality(Since(D, t)) \in Nat /\ Cardinality(Since(D, t)) <= Cardinality(D)
          BY <1>2, Counted
        <5>2. Cardinality(D) \in Nat /\ LIMIT \in Nat
          BY <1>2, FS_CardinalityType, SignInAssumption
        <5> QED BY <5>1, <5>2
      <4>2. WithinOf(g, P \cup {h}, R, D, t)
        BY <1>1, <1>2, <2>1, <3>1, <3>2, <3>3, <4>1, WithinPass
      <4> QED BY <1>1, <1>2, <1>3, <2>1, <4>2, WindowOpen
    <3>4. CASE h \notin PresentIn(g, t)
      <4>1. WithinOf(g, P, R, D, t)
        BY <1>1, <1>2, <2>1, <3>1, <3>2, WithinDrop
      <4>2. WithinOf(g, P \cup {h}, R, D, t)
        BY <1>1, <2>1, <3>4, <4>1, PassedTrying DEF WithinOf
      <4> QED BY <1>1, <1>2, <1>3, <2>1, <4>2, WindowOpen
    <3> QED BY <3>3, <3>4
  <2>4. CASE ~(c < t + WINDOW \/ WaitingOf(g, P, t))
    <3>1. Guessed(g, R, t)
      BY <2>2, <2>4 DEF Window
    <3>2. ~WaitingOf(g, P \cup {h}, t)
      BY DEF WaitingOf
    <3> QED BY <2>4, <3>1, <3>2, WindowClosed
  <2> QED BY <2>3, <2>4
<1> QED BY <1>2, <1>3, <1>4 DEF Holds

LEMMA RefuseHolds ==
  ASSUME NEW c, NEW g, NEW P, NEW R, NEW S, NEW n, Holds(c, g, P, R, S, n),
         NEW h \in Handlers, h \in P, NEW k, k = With(g, h, NoTime),
         NEW e, e = [n |-> n, at |-> g[h]], NEW D, D = Kept(S \cup {e})
  PROVE  Holds(c, k, P \ {h}, R \cup {e}, D, n + 1)
<1>1. /\ c \in Nat /\ g \in Requests /\ Lists(R, S) /\ P \subseteq Handlers /\ n \in Nat
      /\ g[h] # NoTime /\ g[h] \in Nat /\ g[h] <= c
      /\ \A f \in R : f.n < n /\ f.at <= c
  BY DEF Holds, Requests
<1>2. /\ k \in Requests /\ k[h] = NoTime /\ (\A i \in Handlers : k[i] # NoTime => k[i] <= c)
      /\ P \ {h} \subseteq {i \in Handlers : k[i] # NoTime}
  BY DEF Holds, Requests, With
<1>3. e \in Failure /\ e.at = g[h] /\ e.n = n
  BY <1>1 DEF Failure
<1>4. \A f \in R : f.n < e.n
  BY <1>1, <1>3
<1>5. Lists(R \cup {e}, D)
  <2>1. R \cup {e} \subseteq Failure /\ IsFiniteSet(R \cup {e})
    BY <1>1, <1>3, FS_AddElement DEF Lists
  <2>2. IsFiniteSet(S) /\ S \subseteq Failure /\ Distinct(S) /\ Cardinality(S) <= LIMIT
        /\ (\A f \in S : f.n < e.n) /\ S \subseteq R
    BY <1>1, <1>4, FS_Subset DEF Lists, Distinct
  <2>3. D \subseteq S \cup {e} /\ Cardinality(D) <= LIMIT
    BY <1>3, <2>2, Added
  <2>4. Distinct(R \cup {e})
    BY <1>1, <1>3, <1>4 DEF Lists, Distinct, Failure
  <2> QED BY <2>1, <2>2, <2>3, <2>4 DEF Lists
<1>6. ASSUME NEW t \in 0 .. c PROVE Window(c, k, P \ {h}, R \cup {e}, D, t)
  <2>1. t \in Nat /\ t + WINDOW \in Nat
    BY <1>1, SignInAssumption
  <2>2. Window(c, g, P, R, S, t)
    BY DEF Holds
  <2>3. CASE c < t + WINDOW
    <3>1. WithinOf(g, P, R, S, t) /\ g[h] < t + WINDOW
      BY <1>1, <2>1, <2>2, <2>3 DEF Window
    <3>2. WithinOf(k, P \ {h}, R \cup {e}, D, t)
      BY <1>1, <1>3, <1>4, <2>1, <3>1, WithinRefused
    <3>3. P \ {h} \subseteq Handlers
      BY <1>1
    <3> QED BY <1>2, <1>5, <2>1, <3>2, <3>3, WindowOpen
  <2>4. CASE ~(c < t + WINDOW)
    <3>1. ~WaitingOf(g, P, t)
      BY DEF WaitingOf
    <3>2. Guessed(g, R, t) /\ R \subseteq Failure /\ IsFiniteSet(R)
      BY <1>1, <2>2, <3>1 DEF Window, Lists
    <3>3. Guessed(k, R \cup {e}, t)
      BY <1>1, <1>3, <1>4, <2>1, <3>2, GuessedRefused
    <3>4. ~WaitingOf(k, P \ {h}, t)
      BY <1>2 DEF WaitingOf, PresentIn
    <3> QED BY <2>4, <3>3, <3>4, WindowClosed
  <2> QED BY <2>3, <2>4
<1>7. \A f \in R \cup {e} : f.n < n + 1 /\ f.at <= c
  <2>1. \A f \in R : f.n \in Nat
    BY <1>1 DEF Lists, Failure
  <2> QED BY <1>1, <1>3, <2>1
<1>8. n + 1 \in Nat
  BY <1>1
<1> QED BY <1>1, <1>2, <1>5, <1>6, <1>7, <1>8 DEF Holds

(* What the start, a right password and a restart leave behind.            *)
LEMMA ForgetHolds ==
  ASSUME NEW c \in Nat, NEW k \in Requests, Free(k), NEW P, P \subseteq {h \in Handlers : k[h] # NoTime},
         \A h \in Handlers : k[h] # NoTime => k[h] <= c, NEW E, E = {}
  PROVE  Holds(c, k, P, E, E, 0)
<1>1. Lists(E, E)
  BY SignInAssumption, FS_EmptySet DEF Lists, Distinct
<1>2. ASSUME NEW t \in 0 .. c PROVE Window(c, k, P, E, E, t)
  <2>1. t \in Nat /\ P \subseteq Handlers
    OBVIOUS
  <2>2. WithinOf(k, P, E, E, t)
    BY <2>1, WithinForgotten
  <2> QED BY <1>1, <2>1, <2>2, WindowOpen
<1> QED BY <1>1, <1>2 DEF Holds

LEMMA TickHolds ==
  ASSUME NEW c, NEW g, NEW P, NEW R, NEW S, NEW n, Holds(c, g, P, R, S, n)
  PROVE  Holds(c + 1, g, P, R, S, n)
<1>1. /\ c \in Nat /\ g \in Requests /\ Lists(R, S) /\ P \subseteq Handlers /\ n \in Nat
      /\ \A f \in R : f.n < n /\ f.at <= c
      /\ \A i \in Handlers : g[i] # NoTime => g[i] <= c
  BY DEF Holds
<1>2. WithinOf(g, P, R, S, c + 1)
  <2>1. In(R, c + 1) = {} /\ TryingIn(g, P, c + 1) = {}
    BY <1>1 DEF In, TryingIn, PresentIn, Lists, Failure, Requests
  <2>2. Cardinality(In(R, c + 1)) = 0 /\ Cardinality(TryingIn(g, P, c + 1)) = 0
    BY <2>1, FS_EmptySet
  <2> QED BY <2>2 DEF WithinOf
<1>3. ASSUME NEW t \in 0 .. c + 1 PROVE Window(c + 1, g, P, R, S, t)
  <2>1. CASE t = c + 1
    <3>1. t \in Nat
      BY <1>1
    <3> QED BY <1>1, <1>2, <2>1, <3>1, WindowOpen
  <2>2. CASE t # c + 1
    <3>1. t \in 0 .. c /\ (c + 1 < t + WINDOW => c < t + WINDOW)
      BY <1>1, <2>2, SignInAssumption
    <3>2. Window(c, g, P, R, S, t)
      BY <3>1 DEF Holds
    <3> QED BY <3>1, <3>2 DEF Window
  <2> QED BY <2>1, <2>2
<1>4. /\ \A f \in R : f.n < n /\ f.at <= c + 1
      /\ \A i \in Handlers : g[i] # NoTime => g[i] <= c + 1
  BY <1>1 DEF Lists, Failure, Requests
<1> QED BY <1>1, <1>3, <1>4 DEF Holds

(* A request that is not blocked finds the list not full.                  *)
LEMMA NotBlocked ==
  ASSUME NEW now \in Nat, ~Blocked(now), IsFiniteSet(Attempts(now)), Attempts(now) \subseteq Failure
  PROVE  Cardinality(Attempts(now)) < LIMIT
<1>1. CASE Attempts(now) = {}
  BY <1>1, FS_EmptySet, SignInAssumption
<1>2. CASE Attempts(now) # {}
  <2>1. Latest(Attempts(now)) \in Attempts(now)
    BY <1>2, LatestOf
  <2>2. now - Latest(Attempts(now)).at < BLOCK
    BY <2>1, SignInAssumption DEF Attempts
  <2>3. ~(Cardinality(Attempts(now)) >= LIMIT)
    BY <1>2, <2>2 DEF Blocked
  <2> QED BY <2>3, FS_CardinalityType, SignInAssumption
<1> QED BY <1>1, <1>2

LEMMA SignInStep == SignInInv /\ [SignInNext]_signInVars => SignInInv'
<1> SUFFICES ASSUME SignInInv, [SignInNext]_signInVars PROVE SignInInv'
  OBVIOUS
<1> PICK c, g, P, R, S, n : /\ c = clock /\ g = handler /\ P = verifying
                            /\ R = tries /\ S = failures /\ n = noted
  OBVIOUS
<1>h. Holds(c, g, P, R, S, n)
  BY InvariantRestated
<1>i. /\ c \in Nat /\ g \in Requests /\ P \subseteq {h \in Handlers : g[h] # NoTime}
      /\ \A h \in Handlers : g[h] # NoTime => g[h] <= c
  BY <1>h DEF Holds
<1>1. CASE Tick
  <2>1. /\ clock' = c + 1 /\ handler' = g /\ verifying' = P /\ tries' = R /\ failures' = S
        /\ noted' = n
    BY <1>1 DEF Tick
  <2>2. Holds(c + 1, g, P, R, S, n)
    BY <1>h, TickHolds
  <2> QED BY <2>1, <2>2, InvariantRestated
<1>2. ASSUME Forget, clock' = c, handler' \in Requests, Free(handler'),
             verifying' \subseteq {h \in Handlers : handler'[h] # NoTime},
             \A h \in Handlers : handler'[h] # NoTime => handler'[h] <= c
      PROVE  SignInInv'
  <2> PICK k, Q, E : k = handler' /\ Q = verifying' /\ E = {}
    OBVIOUS
  <2>1. Holds(c, k, Q, E, E, 0)
    BY <1>2, <1>i, ForgetHolds
  <2> QED BY <1>2, <2>1, InvariantRestated DEF Forget
<1>3. CASE ServerRestarts
  <2>1. /\ Forget /\ clock' = c /\ verifying' = {} /\ handler' \in Requests
        /\ \A h \in Handlers : handler'[h] = NoTime
    BY <1>3 DEF ServerRestarts, Requests
  <2> QED BY <1>2, <2>1 DEF Free
<1>4. ASSUME NEW h \in Handlers, Arrive(h) PROVE SignInInv'
  <2>1. /\ clock' = c /\ handler' = With(g, h, c) /\ g[h] = NoTime /\ verifying' = P
        /\ tries' = R /\ failures' = S /\ noted' = n
    BY <1>4 DEF Arrive, With
  <2>2. Holds(c, With(g, h, c), P, R, S, n)
    BY <1>h, <2>1, ArriveHolds
  <2> QED BY <2>1, <2>2, InvariantRestated
<1>5. ASSUME NEW h \in Handlers, Check(h) PROVE SignInInv'
  <2> PICK D : D = Checked(S, g[h])
    OBVIOUS
  <2>1. /\ clock' = c /\ tries' = R /\ failures' = D /\ noted' = n /\ g[h] # NoTime /\ h \notin P
        /\ Attempts(g[h]) = D
    BY <1>5 DEF Check, Attempts, Checked
  <2>2. g[h] \in Nat
    BY <1>i, <2>1 DEF Requests
  <2>3. CASE Blocked(g[h])
    <3>1. handler' = With(g, h, NoTime) /\ verifying' = P \ {h}
      BY <1>5, <2>1, <2>3 DEF Check, With
    <3>2. Holds(c, With(g, h, NoTime), P \ {h}, R, D, n)
      BY <1>h, <2>1, DropHolds, EndHolds
    <3> QED BY <2>1, <3>1, <3>2, InvariantRestated
  <2>4. CASE ~Blocked(g[h])
    <3>1. handler' = g /\ verifying' = P \cup {h}
      BY <1>5, <2>4 DEF Check
    <3>2. IsFiniteSet(D) /\ D \subseteq Failure
      BY <1>h, <2>2, CheckedList
    <3>3. Cardinality(D) < LIMIT
      BY <2>1, <2>2, <2>4, <3>2, NotBlocked
    <3>4. Holds(c, g, P \cup {h}, R, D, n)
      BY <1>h, <2>1, <3>3, PassHolds
    <3> QED BY <2>1, <3>1, <3>4, InvariantRestated
  <2> QED BY <2>3, <2>4
<1>6. ASSUME NEW h \in Handlers, Refuse(h) PROVE SignInInv'
  <2> PICK e : e = [n |-> n, at |-> g[h]]
    OBVIOUS
  <2>1. /\ clock' = c /\ handler' = With(g, h, NoTime) /\ verifying' = P \ {h} /\ h \in P
        /\ tries' = R \cup {e} /\ failures' = Kept(S \cup {e}) /\ noted' = n + 1
    BY <1>6 DEF Refuse, Done, With
  <2>2. Holds(c, With(g, h, NoTime), P \ {h}, R \cup {e}, Kept(S \cup {e}), n + 1)
    BY <1>h, <2>1, RefuseHolds
  <2> QED BY <2>1, <2>2, InvariantRestated
<1>7. ASSUME NEW h \in Handlers, Accept(h) PROVE SignInInv'
  <2>1. /\ Forget /\ clock' = c /\ handler' = [g EXCEPT ![h] = NoTime] /\ verifying' = P \ {h}
    BY <1>7 DEF Accept, Done
  <2>2. /\ handler' \in Requests /\ handler'[h] = NoTime
        /\ verifying' \subseteq {i \in Handlers : handler'[i] # NoTime}
        /\ \A i \in Handlers : handler'[i] # NoTime => handler'[i] <= c
    BY <1>i, <2>1 DEF Requests
  <2> QED BY <1>2, <2>1, <2>2 DEF Free
<1>8. ASSUME NEW h \in Handlers, Raises(h) PROVE SignInInv'
  <2>1. /\ clock' = c /\ handler' = With(g, h, NoTime) /\ verifying' = P \ {h} /\ h \in P
        /\ tries' = R /\ failures' = S /\ noted' = n
    BY <1>8 DEF Raises, Done, With
  <2>2. Holds(c, With(g, h, NoTime), P \ {h}, R, S, n)
    BY <1>h, <1>i, <2>1, EndHolds
  <2> QED BY <2>1, <2>2, InvariantRestated
<1>9. CASE UNCHANGED signInVars
  <2>1. /\ clock' = c /\ handler' = g /\ verifying' = P /\ tries' = R /\ failures' = S
        /\ noted' = n
    BY <1>9 DEF signInVars
  <2> QED BY <1>h, <2>1, InvariantRestated
<1> QED BY <1>1, <1>3, <1>4, <1>5, <1>6, <1>7, <1>8, <1>9 DEF SignInNext

LEMMA SignInStart == SignInInit => SignInInv
<1> SUFFICES ASSUME SignInInit PROVE SignInInv
  OBVIOUS
<1> PICK k, E : k = handler /\ E = {}
  OBVIOUS
<1>1. /\ k \in Requests /\ clock = 0 /\ noted = 0 /\ tries = E /\ failures = E /\ verifying = {}
      /\ \A h \in Handlers : k[h] = NoTime
  BY DEF SignInInit, Requests
<1>2. Holds(0, k, {}, E, E, 0)
  BY <1>1, ForgetHolds DEF Free
<1> QED BY <1>1, <1>2, InvariantRestated

LEMMA SignInImplies == SignInInv => LimiterTypeOK /\ GuessesBounded
<1> SUFFICES ASSUME SignInInv PROVE GuessesBounded
  BY DEF SignInInv
<1> PICK c, g, P, R, S, n : /\ c = clock /\ g = handler /\ P = verifying
                            /\ R = tries /\ S = failures /\ n = noted
  OBVIOUS
<1>1. Holds(c, g, P, R, S, n)
  BY InvariantRestated
<1>2. c \in Nat /\ g \in Requests /\ Lists(R, S)
  BY <1>1 DEF Holds
<1>3. ASSUME NEW t \in 0 .. c PROVE Cardinality(In(R, t)) <= Most
  <2>1. t \in Nat
    BY <1>2
  <2>2. Window(c, g, P, R, S, t)
    BY <1>1 DEF Holds
  <2>3. CASE WaitingOf(g, P, t)
    <3>1. WithinOf(g, P, R, S, t)
      BY <2>2, <2>3 DEF Window
    <3> QED BY <1>2, <2>1, <3>1, WithinGuesses
  <2>4. CASE ~WaitingOf(g, P, t)
    <3>1. Guessed(g, R, t)
      BY <2>2, <2>4 DEF Window
    <3>2. Cardinality(In(R, t)) \in Nat /\ Cardinality(PresentIn(g, t)) \in Nat /\ Most \in Int
      BY <1>2, <2>1, Counted, Counting, MostIsNumber DEF Lists
    <3> QED BY <3>1, <3>2 DEF Guessed
  <2> QED BY <2>3, <2>4
<1> QED BY <1>3 DEF GuessesBounded, Most

(* The failures kept are failures noted since the last reset, the numbers  *)
(* and times are natural numbers, and each request is free or has read the *)
(* clock, past the check or not yet (login, api.py).                       *)
THEOREM LimiterTypeCorrect == SignInSpec => []LimiterTypeOK
<1> QED BY SignInStart, SignInStep, SignInImplies, PTL DEF SignInSpec

(* With any number of requests at a time, any limit and any window, the    *)
(* passwords refused in one window between two resets are no more than the *)
(* limit and H * H - 1, for H requests: with one request at a time the     *)
(* limit is exact, and the two critical sections of the limiter never lose *)
(* count of the guesses (login, api.py).                                   *)
THEOREM GuessesAreBounded == SignInSpec => []GuessesBounded
<1> QED BY SignInStart, SignInStep, SignInImplies, PTL DEF SignInSpec

=============================================================================
