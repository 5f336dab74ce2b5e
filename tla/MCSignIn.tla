------------------------------ MODULE MCSignIn ------------------------------
(* SignIn for TLC: requests are interchangeable.                           *)
EXTENDS SignIn, TLC

RequestsSymmetry == Permutations(Handlers)

=============================================================================
