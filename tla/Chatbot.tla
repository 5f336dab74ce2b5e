------------------------------ MODULE Chatbot ------------------------------
(***************************************************************************)
(* The assistant answering one person: the request belongs to one of their *)
(* conversations, the model asks for tools in rounds, and each tool reads  *)
(* the surfaces under the authority the account has when it is called.     *)
(* Meanwhile administrators change the account, campaigns move on and the  *)
(* retention clean-up of other requests runs.  A request that is refused,  *)
(* or answered without the model (out of scope, suspicious, domain         *)
(* disabled), leaves only a trace and is not a step.                       *)
(***************************************************************************)
EXTENDS Surfaces

CONSTANTS
    Accounts,       \* states of the person's account: readers with a flag chatbot
    Conversations,
    Others,         \* conversation -> someone else whose it is, or None
    MaxToolRounds,
    MaxToolCalls,
    MaxCalls,       \* bound: tools the model asks for in one answer
    None

ASSUME ChatbotAssumption ==
    /\ MaxToolRounds \in Nat \ {0}
    /\ MaxToolCalls \in Nat \ {0}
    /\ MaxCalls \in Nat
    /\ None \notin Conversations
    /\ DOMAIN Others = Conversations
    /\ \A a, b \in Accounts : a.name = b.name
    /\ \A a \in Accounts : a.name # None

VARIABLES
    account,    \* what current_user finds, None when the session is over
    owner,      \* conversation -> user id, None where there is no row
    messages,   \* <<conversation, user id>> of the stored messages
    req         \* the request being handled

vars == <<tables, account, owner, messages, req>>

chat == <<account, owner, messages, req>>

Idle == [pc |-> "idle", conv |-> None, ctx |-> None, rounds |-> 0, calls |-> 0,
         todo |-> 0, tool |-> None, held |-> {}]

Tools == {"reviews", "remediations"}

ToolRows(tool, p) == IF tool = "reviews" THEN ChatReviews(p) ELSE ChatRemediation(p)

WebRows(tool, p) == IF tool = "reviews" THEN ReviewTable(p) ELSE RemediationTable(p)

(* Mutant: a conversation is found whoever owns it.                        *)
FoundBy(k, user) == owner[k] # None

OwnedBy(k, user) == owner[k] = user

(* uuid4: bounded, a deleted conversation leaves its id to a later one.    *)
Fresh(k) == owner[k] = None /\ Others[k] = None

(* chatbot_message, handle: access is checked, the conversation belongs to *)
(* the caller, and the context is what the session says now.               *)
Receive ==
    /\ req.pc = "idle"
    /\ account # None
    /\ account.chatbot
    /\ \E k \in Conversations \cup {None} :
          /\ IF k = None THEN \E free \in Conversations : Fresh(free) ELSE OwnedBy(k, account.name)
          /\ req' = [Idle EXCEPT !.pc = "own", !.conv = k, !.ctx = account]
    /\ UNCHANGED <<tables, account, owner, messages>>

(* get_or_create: a new conversation, or a second look at the old one.     *)
Own ==
    /\ req.pc = "own"
    /\ IF req.conv = None
       THEN \E k \in Conversations :
              /\ Fresh(k)
              /\ owner' = [owner EXCEPT ![k] = req.ctx.name]
              /\ req' = [req EXCEPT !.pc = "append", !.conv = k]
       ELSE /\ req' = IF OwnedBy(req.conv, req.ctx.name) THEN [req EXCEPT !.pc = "append"] ELSE Idle
            /\ UNCHANGED owner
    /\ UNCHANGED <<tables, account, messages>>

(* append stores the message first; the upsert of a conversation that is   *)
(* gone has no id and fails, and with it the request.                      *)
AppendThen(next) ==
    /\ messages' = messages \cup {<<req.conv, req.ctx.name>>}
    /\ IF owner[req.conv] = None
       THEN req' = Idle
       ELSE req' = next
    /\ UNCHANGED <<tables, account, owner>>

(* Without a provider the answer is that the assistant is unavailable.     *)
AppendQuestion ==
    /\ req.pc = "append"
    /\ AppendThen(Idle) \/ AppendThen([req EXCEPT !.pc = "ask"])

(* A provider error, a context that is too long, or too many rounds.       *)
GiveUp ==
    /\ req.pc = "ask"
    /\ req' = [req EXCEPT !.pc = "reply"]
    /\ UNCHANGED <<tables, account, owner, messages>>

ModelAnswers ==
    /\ req.pc = "ask"
    /\ req.rounds < MaxToolRounds
    /\ \E n \in 0 .. MaxCalls :
          req' = [req EXCEPT !.pc = IF n = 0 THEN "reply" ELSE "call",
                             !.rounds = @ + 1, !.todo = n,
                             !.held = {account} \ {None}]
    /\ UNCHANGED <<tables, account, owner, messages>>

(* Mutant: the context of the request serves all its tools.                *)
FirstContext == req.ctx

(* principal_resolver: the account as it is at the call.                   *)
Resolved == account

Answered(next) ==
    [next EXCEPT !.todo = @ - 1, !.tool = None, !.pc = IF req.todo = 1 THEN "ask" ELSE "call",
                 !.held = IF req.todo = 1 THEN {} ELSE @]

(* The next tool of the answer: past the limit, with the session over, or  *)
(* for an unknown tool or bad arguments the request fails; a tool of a     *)
(* disabled domain answers that it is; another reads.                      *)
Call ==
    /\ req.pc = "call"
    /\ req' \in
          {[req EXCEPT !.pc = "reply", !.held = {}, !.todo = 0]} \cup
          (IF req.calls = MaxToolCalls \/ Resolved = None THEN {}
           ELSE LET called == [req EXCEPT !.calls = @ + 1, !.ctx = Resolved]
                IN {Answered(called)} \cup {[called EXCEPT !.pc = "read", !.tool = t] : t \in Tools})
    /\ UNCHANGED <<tables, account, owner, messages>>

Read ==
    /\ req.pc = "read"
    /\ req' = Answered(req)
    /\ UNCHANGED <<tables, account, owner, messages>>

(* The answer, or that the assistant is unavailable, is stored and sent.   *)
Reply ==
    /\ req.pc = "reply"
    /\ AppendThen(Idle)

-----------------------------------------------------------------------------

(* An administrator changes the role, the providers or the flag, or the    *)
(* session ends.                                                           *)
AccountChanges ==
    /\ account' \in (Accounts \cup {None}) \ {account}
    /\ req' = IF req.pc \in {"call", "read"} THEN [req EXCEPT !.held = @ \cup ({account'} \ {None})] ELSE req
    /\ UNCHANGED <<tables, owner, messages>>

(* cleanup_expired_chatbot_data, run by somebody's request at most every   *)
(* five minutes: messages past the retention go, then conversations left   *)
(* without any.  A conversation the request has already written to is not  *)
(* past it; one it has only looked up may be.                              *)
Expired(k) ==
    /\ <<k, owner[k]>> \in messages
    /\ req.conv = k => req.pc \in {"own", "append"}

Cleanup(k) ==
    /\ Expired(k)
    /\ messages' = {m \in messages : m[1] # k}
    /\ owner' = [owner EXCEPT ![k] = None]
    /\ UNCHANGED <<tables, account, req>>

Init ==
    /\ TablesInit
    /\ account \in Accounts
    /\ owner = Others
    /\ messages = {<<k, Others[k]>> : k \in {k \in Conversations : Others[k] # None}}
    /\ req = Idle

Handle == Receive \/ Own \/ AppendQuestion \/ GiveUp \/ ModelAnswers \/ Call \/ Read \/ Reply

Next ==
    \/ TablesNext /\ UNCHANGED chat
    \/ Handle
    \/ AccountChanges
    \/ \E k \in Conversations : Cleanup(k)

Spec == Init /\ [][Next]_vars

-----------------------------------------------------------------------------

(* What a tool hands to the model is what the web would show the person at *)
(* that moment under an authority they have had since the model's last     *)
(* answer: a role or provider taken away before the model asked gives      *)
(* nothing any more, also in the middle of a request.                      *)
ReadsWithinAuthority ==
    req.pc = "read" =>
        ToolRows(req.tool, req.ctx) \subseteq UNION {WebRows(req.tool, a) : a \in req.held}

(* Messages are only ever added to a conversation by its owner.            *)
ConversationsAreOwned ==
    \A m \in messages : owner[m[1]] \in {None, m[2]}

ChatTypeOK ==
    /\ account \in Accounts \cup {None}
    /\ DOMAIN owner = Conversations
    /\ req \in [pc : {"idle", "own", "append", "ask", "call", "read", "reply"},
               conv : Conversations \cup {None}, ctx : Accounts \cup {None},
               rounds : Nat, calls : Nat, todo : Nat,
               tool : Tools \cup {None}, held : SUBSET Accounts]

(* The tools are called with the account as it was at a moment since the   *)
(* last answer of the model.                                               *)
AuthorityInv ==
    /\ req.pc # "idle" => req.ctx \in Accounts
    /\ req.pc \in {"call", "read"} => req.todo > 0 /\ account \in req.held \cup {None}
    /\ req.pc = "read" => req.ctx \in req.held /\ req.tool \in Tools

(* The conversation belongs to the person of that name: someone else's     *)
(* stays theirs, and the others are of the person who asks.                *)
Belongs(k, name) ==
    IF Others[k] = None THEN \E a \in Accounts : name = a.name ELSE name = Others[k]

ConversationsInv ==
    /\ \A k \in Conversations : owner[k] # None => Belongs(k, owner[k])
    /\ \A m \in messages : m[1] \in Conversations /\ Belongs(m[1], m[2])
    /\ req.pc \in {"append", "ask", "call", "read", "reply"} =>
          req.conv \in Conversations /\ Belongs(req.conv, req.ctx.name)

ChatInv == ChatTypeOK /\ AuthorityInv /\ ConversationsInv
=============================================================================
