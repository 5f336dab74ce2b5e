------------------------------- MODULE SignIn -------------------------------
(***************************************************************************)
(* The failure limiter of the sign-in, for one user name and client: the   *)
(* check and the count are two critical sections, and the password is      *)
(* verified between them while other requests for the same key come and go. *)
(* Time is in ticks, read before the check.  A list of failures is a set   *)
(* of times numbered as they came.                                         *)
(***************************************************************************)
EXTENDS Integers, FiniteSets

CONSTANTS
    Handlers,   \* requests the server handles at the same time
    LIMIT,      \* LOGIN_FAILURE_LIMIT
    WINDOW,     \* LOGIN_FAILURE_WINDOW_SECONDS
    BLOCK,      \* LOGIN_BLOCK_SECONDS
    MaxTime,    \* bound: ticks
    MaxTries,   \* bound: passwords verified
    NoTime

ASSUME SignInAssumption ==
    /\ LIMIT \in Nat \ {0}
    /\ WINDOW \in Nat \ {0}
    /\ BLOCK = WINDOW
    /\ {MaxTime, MaxTries} \subseteq Nat
    /\ IsFiniteSet(Handlers)
    /\ NoTime \notin Nat

Failure == [n : Nat, at : Nat]

VARIABLES
    clock,
    failures,   \* failures kept for the key
    handler,    \* request -> the time it read, or NoTime when it is free
    noted,      \* the number of the next failure
    tries,      \* history: failures noted since the key was last forgotten
    verifying   \* requests past the check

signInVars == <<clock, failures, handler, noted, tries, verifying>>

Attempts(now) == {f \in failures : now - f.at < WINDOW}

Latest(S) == CHOOSE f \in S : \A g \in S : g.n <= f.n

Blocked(now) ==
    LET attempts == Attempts(now)
    IN  attempts # {} /\ Cardinality(attempts) >= LIMIT /\ now - Latest(attempts).at < BLOCK

(* login, before the first critical section.                               *)
Arrive(h) ==
    /\ handler[h] = NoTime
    /\ noted + Cardinality({i \in Handlers : handler[i] # NoTime}) < MaxTries
    /\ handler' = [handler EXCEPT ![h] = clock]
    /\ UNCHANGED <<clock, failures, noted, tries, verifying>>

(* login, first critical section: old failures are dropped, and the        *)
(* request goes on to the password unless the key is blocked.              *)
Check(h) ==
    /\ handler[h] # NoTime /\ h \notin verifying
    /\ failures' = Attempts(handler[h])
    /\ IF Blocked(handler[h])
       THEN handler' = [handler EXCEPT ![h] = NoTime] /\ UNCHANGED verifying
       ELSE verifying' = verifying \cup {h} /\ UNCHANGED handler
    /\ UNCHANGED <<clock, noted, tries>>

Done(h) ==
    /\ handler' = [handler EXCEPT ![h] = NoTime]
    /\ verifying' = verifying \ {h}
    /\ UNCHANGED clock

(* Mutant: only one failure is kept.                                       *)
KeepLatest(S) == {Latest(S)}

(* The failures kept: the last LIMIT of them.                              *)
Kept(S) == {f \in S : Cardinality({g \in S : f.n <= g.n}) <= LIMIT}

(* login, second critical section after a wrong password: the time noted   *)
(* is the one of the check.                                                *)
Refuse(h) ==
    /\ h \in verifying
    /\ LET failure == [n |-> noted, at |-> handler[h]]
       IN  failures' = Kept(failures \cup {failure}) /\ tries' = tries \cup {failure}
    /\ noted' = noted + 1
    /\ Done(h)

Forget == failures' = {} /\ noted' = 0 /\ tries' = {}

(* login after the right password: the key is forgotten.                   *)
Accept(h) ==
    /\ h \in verifying
    /\ Forget
    /\ Done(h)

(* login, when verifying raises an error: the limiter is left as it is.    *)
Raises(h) == h \in verifying /\ Done(h) /\ UNCHANGED <<failures, noted, tries>>

(* The limiter lives in memory.                                            *)
ServerRestarts ==
    /\ Forget
    /\ handler' = [h \in Handlers |-> NoTime]
    /\ verifying' = {}
    /\ UNCHANGED clock

Tick ==
    /\ clock < MaxTime
    /\ clock' = clock + 1
    /\ UNCHANGED <<failures, handler, noted, tries, verifying>>

SignInInit ==
    /\ clock = 0
    /\ failures = {}
    /\ handler = [h \in Handlers |-> NoTime]
    /\ noted = 0
    /\ tries = {}
    /\ verifying = {}

SignInNext ==
    \/ Tick
    \/ ServerRestarts
    \/ \E h \in Handlers : Arrive(h) \/ Check(h) \/ Refuse(h) \/ Accept(h) \/ Raises(h)

SignInSpec == SignInInit /\ [][SignInNext]_signInVars

-----------------------------------------------------------------------------
(* Properties.                                                             *)

In(S, t) == {f \in S : t <= f.at /\ f.at < t + WINDOW}

(* Between two resets, the passwords refused in one window are no more     *)
(* than the limit, and what requests that overlap can add.  Each may be    *)
(* past the check already when the limit is reached, or have read the      *)
(* clock and be checked when the window is over.  And each may note a time *)
(* that is older than the window: this pushes a newer failure out of the   *)
(* list and expires, which lets every request pass once more.              *)
GuessesBounded ==
    \A t \in 0 .. clock :
        Cardinality(In(tries, t)) <= LIMIT + Cardinality(Handlers) * Cardinality(Handlers) - 1

-----------------------------------------------------------------------------
(* The inductive invariant behind GuessesAreBounded.                       *)

(* Requests of the window from t, those past the check, and older ones.    *)
Present(t) == {h \in Handlers : handler[h] # NoTime /\ t <= handler[h] /\ handler[h] < t + WINDOW}

Trying(t) == Present(t) \cap verifying

Older(t) == {h \in Handlers : handler[h] # NoTime /\ handler[h] < t}

(* Every request has read a time of the window, and none is checked.       *)
Waiting(t) == Present(t) = Handlers /\ verifying = {}

(* Of the failures S, those from the first one of the window on.           *)
Since(S, t) == {f \in S : \E g \in In(S, t) : g.n <= f.n}

(* pushed: failures of the window no longer kept.  spare: the other        *)
(* requests that can still push one out, by a time that they read or       *)
(* that is kept.                                                           *)
Within(t) ==
    LET others == Cardinality(Handlers) - 1
        older == Cardinality(Older(t))
        since == Cardinality(Since(failures, t))
        pushed == Cardinality(In(tries, t)) - Cardinality(In(failures, t))
        spare == others - older - (since - Cardinality(In(failures, t)))
    IN  Cardinality(In(tries, t)) + Cardinality(Trying(t)) > 0 =>
          /\ spare >= 0
          /\ pushed <= others * spare + others - older
          /\ pushed + Cardinality(Trying(t)) + since - LIMIT <= others * spare + others - older
          /\ since < LIMIT => pushed <= others * spare

LimiterTypeOK ==
    /\ clock \in Nat
    /\ failures \subseteq tries
    /\ tries \subseteq Failure /\ IsFiniteSet(tries)
    /\ handler \in [Handlers -> Nat \cup {NoTime}]
    /\ noted \in Nat
    /\ verifying \subseteq {h \in Handlers : handler[h] # NoTime}

SignInInv ==
    /\ LimiterTypeOK
    /\ Cardinality(failures) <= LIMIT
    /\ \A f \in tries : f.n < noted /\ f.at <= clock
    /\ \A f, g \in tries : f.n = g.n => f = g
    /\ \A h \in Handlers : handler[h] # NoTime => handler[h] <= clock
    /\ \A t \in 0 .. clock :
          /\ clock < t + WINDOW \/ Waiting(t) => Within(t)
          /\ \/ Waiting(t)
             \/ Cardinality(In(tries, t)) + Cardinality(Present(t))
                   <= LIMIT + Cardinality(Handlers) * Cardinality(Handlers) - 1

=============================================================================
