---------------------------- MODULE MCAccounts ----------------------------
(* Two administrators, a username not yet taken, two browsers and the      *)
(* server's shell.  One form moves an account to the directory and takes   *)
(* its API access away, the other demotes it and sets its password.        *)
EXTENDS Accounts, TLC

CONSTANTS a, b, n, c1, c2, sh, ldap, p, q

Form(role, enabled, source, password, api) ==
    [role |-> role, enabled |-> enabled, source |-> source, password |-> password,
     must |-> None, access |-> ("api" :> api) @@ ("mcp" :> None)]

MCForms == {Form("ADMIN", TRUE, ldap, None, FALSE),
            Form("OPERATOR", TRUE, Local, q, TRUE)}

AdminRow == [role |-> "ADMIN", enabled |-> TRUE, source |-> Local, password |-> p,
             must |-> FALSE, access |-> [k \in Kinds |-> TRUE], version |-> 1,
             byForm |-> FALSE]

MCInitial == [u \in Users |-> IF u = n THEN None ELSE AdminRow]
Symmetric == Permutations({a, b}) \cup Permutations({c1, c2})
===========================================================================
