---------------------------- MODULE MCAssistant ----------------------------
EXTENDS Chatbot, MCSurfaces

Account(role, scopes, flag) == [name |-> "op", role |-> role, scopes |-> scopes, chatbot |-> flag]
SomeAccounts == {Account("OPERATOR", {"p1", "p2"}, TRUE), Account("OPERATOR", {"p1"}, FALSE)}
SomeoneElse == [k \in Conversations |-> IF k = "k2" THEN "eve" ELSE None]
=============================================================================
