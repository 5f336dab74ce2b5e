----------------------------- MODULE Comparison -----------------------------
(***************************************************************************)
(* compare_snapshot and reviewable_comparison_states: what a snapshot      *)
(* observed is matched with what a Golden Source version expects, and the  *)
(* rows a campaign reviews are selected.  The effective accesses of the    *)
(* snapshot are evaluated first (EffectiveAccess); the comparison itself   *)
(* is one step, made with any golden version and any import scope.         *)
(*                                                                         *)
(* An assignment is known by its names and, where the source gives native  *)
(* ids, by a stable key that survives renames.                             *)
(***************************************************************************)
EXTENDS EffectiveAccess

CONSTANTS
    Composite,       \* relations marked composite
    Linked,          \* relations from a group to a client role (by name prefix)
    AccessProvider,  \* access name -> its provider
    ControlNative,   \* access name -> native id of its control object, or None
    Permission,      \* access name -> its permission
    DisplayName,     \* access name -> the access name its display name spells, or None
    RawNative,       \* assignment -> native id of the group in its origin, or None
    Known,           \* identities the snapshot lists
    IdentityNative,  \* identity -> its native id, or None
    Goldens,         \* golden versions: None or sets of expected assignments
    ImportScopes,    \* [complete, type, values]: scopes of the collection
    None

ASSUME ComparisonAssumption ==
    /\ Composite \subseteq Relations /\ Linked \subseteq Relations
    /\ Known \subseteq Identities
    /\ \A a \in Assignments : RawNative[a] \in {None, ControlNative[Holds[a]]}
    /\ \A a, b \in Assignments :
          Holds[a] = Holds[b] /\ Holder[a] = Holder[b] => RawNative[a] = RawNative[b]

VARIABLES
    result  \* the comparison made, or None

vars == <<traversal, result>>

Init == TraversalInit /\ result = None

-----------------------------------------------------------------------------

IsComposite(p) == \E n \in 1..Len(p.via) : p.via[n] \in Composite

(* An observed assignment: of the snapshot, or derived from the first path *)
(* of an effective access that no assignment gives, if it is composite.    *)
Observations ==
    {[access |-> Holds[a], identity |-> Holder[a], raw |-> RawNative[a], origin |-> a] :
        a \in snap.assignments}
    \cup
    {[access |-> k[2], identity |-> k[1], raw |-> None, origin |-> paths[k][1]] :
        k \in {j \in Identities \X Accesses :
                  /\ paths[j] # <<>>
                  /\ ~\E a \in snap.assignments : Holder[a] = j[1] /\ Holds[a] = j[2]
                  /\ IsComposite(paths[j][1])}}

Legacy(o) == <<o.access, o.identity>>

StableKey(provider, access, native, permission, identity, identityNative) ==
    IF native = None /\ identityNative = None THEN None
    ELSE <<provider,
           IF native # None THEN <<native, permission>> ELSE <<"name", access>>,
           IF identityNative # None THEN identityNative ELSE identity>>

(* _observed_stable_key                                                    *)
ObservedStable(o) ==
    LET listed == o.access \in snap.catalog
        native == IF o.raw # None \/ ~listed THEN o.raw ELSE ControlNative[o.access]
    IN  IF o.identity \notin Known THEN None
        ELSE StableKey(AccessProvider[o.access], o.access, native,
                       IF listed THEN Permission[o.access] ELSE "",
                       o.identity, IdentityNative[o.identity])

(* GoldenSourceAssignment.stable_key                                       *)
ExpectedStable(e) ==
    StableKey(AccessProvider[e.access], e.access, e.native, e.permission,
              e.identity, e.identityNative)

(* The name an older Golden Source may know the access by.                 *)
Alias(o) ==
    IF o.access \in snap.catalog /\ DisplayName[o.access] \notin {None, o.access}
    THEN {<<DisplayName[o.access], o.identity>>} ELSE {}

(* observed_legacy_without_stable                                          *)
NamedOnly ==
    UNION {{Legacy(o)} \cup Alias(o) : o \in {b \in Observations : ObservedStable(b) = None}}

(* Mutant: names alone make a match.                                       *)
MatchByName(e) == {Legacy(o) : o \in {b \in Observations : Legacy(b) = <<e.access, e.identity>>}}

Single(S) == \E x \in S : S = {x}

(* The observation an expected assignment is matched with, if any: the one *)
(* with its stable key, or else one that has none and goes by its names.   *)
(* A stable key observed twice is left unmatched.                          *)
Match(e) ==
    LET same == {o \in Observations : ObservedStable(o) = ExpectedStable(e)}
        named == {<<e.access, e.identity>>} \cap NamedOnly
    IN  IF ExpectedStable(e) # None /\ Single(same)
        THEN {Legacy(o) : o \in same}
        ELSE named

(* Mutant: a partial collection is taken for a complete one.               *)
AnyScope(x, scope) ==
    \/ scope.type = "all"
    \/ scope.type = "providers" /\ AccessProvider[x] \in scope.values
    \/ scope.type = "accesses" /\ x \in scope.values

(* _in_authoritative_scope                                                 *)
InAuthoritativeScope(x, scope) ==
    /\ scope.complete
    /\ \/ scope.type = "all"
       \/ scope.type = "providers" /\ AccessProvider[x] \in scope.values
       \/ scope.type = "accesses" /\ x \in scope.values

(* An expected assignment without native ids whose names are observed,     *)
(* but of an object that has them: the same object cannot be proved.       *)
Unprovable(e) ==
    /\ ExpectedStable(e) = None
    /\ <<e.access, e.identity>> \in UNION {{Legacy(o)} \cup Alias(o) : o \in Observations}

ExpectedRow(e, scope) ==
    [expected |-> {e}, observed |-> Match(e),
     key |-> IF Match(e) # {} THEN CHOOSE k \in Match(e) : TRUE ELSE <<e.access, e.identity>>,
     class |-> IF Match(e) # {}
               THEN IF scope.complete THEN "expected_and_observed" ELSE "unknown_due_to_scope"
               ELSE IF ~Unprovable(e) /\ InAuthoritativeScope(e.access, scope)
               THEN "missing" ELSE "unknown_due_to_scope"]

(* Mutant: an observation whose names are expected is not reported.        *)
NamesExpected(golden, o) ==
    golden # None /\ \E e \in golden : <<e.access, e.identity>> = Legacy(o)

(* An observation with the stable key of an expected assignment has no row *)
(* of its own.                                                             *)
AnswersFor(golden, o) ==
    /\ golden # None
    /\ ObservedStable(o) # None
    /\ \E e \in golden : ExpectedStable(e) = ObservedStable(o)

(* Rows for the observed names no expected assignment is matched with.     *)
(* Observations of the same names have the same stable key, whichever of   *)
(* them observed_assignments keeps.                                        *)
ObservedRows(golden, matched) ==
    {[expected |-> {}, observed |-> {Legacy(o)}, key |-> Legacy(o),
      class |-> IF golden = None THEN "no_reference" ELSE "unexpected"] :
        o \in {b \in Observations : Legacy(b) \notin matched /\ ~AnswersFor(golden, b)}}

(* compare_snapshot                                                        *)
CompareSnapshot(golden, scope) ==
    LET expected == IF golden = None THEN {}
                    ELSE {ExpectedRow(e, scope) : e \in golden}
    IN  expected \cup ObservedRows(golden, UNION {r.observed : r \in expected})

(* reviewable_comparison_states: what a composite role or a group mapped   *)
(* to a client role grants is reviewed instead of it.                      *)
Reviewable(rows) ==
    {r \in rows : \A q \in snap.relations \cap (Composite \cup Linked) : r.key[1] # Parent[q]}

Compare ==
    /\ Done
    /\ result = None
    /\ \E golden \in Goldens, scope \in ImportScopes :
          LET rows == CompareSnapshot(golden, scope) IN
          result' = [golden |-> golden, scope |-> scope, rows |-> rows,
                     reviewed |-> Reviewable(rows)]
    /\ UNCHANGED traversal

Traverse == TraversalNext /\ UNCHANGED result

Next == Traverse \/ Compare

Spec == Init /\ [][Next]_vars

(* The evaluation is one sequential loop: it goes on until it ends.        *)
FairSpec == Spec /\ WF_vars(Traverse)

-----------------------------------------------------------------------------
(* Properties.                                                             *)

Compared == result # None

(* Two objects are known to be different.                                  *)
Different(e, o) == ObservedStable(o) # None /\ ExpectedStable(e) # ObservedStable(o)

(* "Stable Golden does not silently match a different stable observed      *)
(* object by name", nor does a Golden Source without native ids: an        *)
(* expected assignment is confirmed only by an observation of those names  *)
(* that is not known to be of something else.                              *)
ConfirmedIsSame ==
    Compared => \A r \in result.rows : \A e \in r.expected, k \in r.observed :
        \E o \in Observations : k \in {Legacy(o)} \cup Alias(o) /\ ~Different(e, o)

(* An observation that shows the expected assignment.                      *)
Shows(o, e) == ObservedStable(o) # None /\ ObservedStable(o) = ExpectedStable(e)

(* "A partial directory export ... must not be converted into              *)
(* authoritative truth": an assignment is reported missing only after a    *)
(* complete collection of a scope that includes it, in which nothing, or   *)
(* more than one observation, shows it.                                    *)
MissingIsAbsent ==
    Compared => \A r \in result.rows : r.class = "missing" =>
        /\ result.scope.complete
        /\ \A e \in r.expected :
              /\ result.scope.type = "accesses" => e.access \in result.scope.values
              /\ result.scope.type = "providers" => AccessProvider[e.access] \in result.scope.values
              /\ ~Single({o \in Observations : Shows(o, e)})
              /\ \A o \in Observations : Legacy(o) = <<e.access, e.identity>> =>
                    Different(e, o) \/ Shows(o, e)

(* Nothing observed goes unreported: each observation has a row that says  *)
(* its names are observed, or the row of the expected assignment it shows. *)
ObservedIsReported ==
    Compared => \A o \in Observations : \E r \in result.rows :
        Legacy(o) \in r.observed \/ \E e \in r.expected : Shows(o, e)

ReviewParents == {Parent[q] : q \in snap.relations \cap (Composite \cup Linked)}

(* What only composite roles grant is reviewed: such an access, when it    *)
(* grants nothing further, has a row in the campaign, although the rows of *)
(* the roles themselves are left out.                                      *)
CompositeGrantsReviewed ==
    Compared => \A i \in Identities, x \in Accesses \ ReviewParents :
        /\ paths[<<i, x>>] # <<>>
        /\ \A p \in PathsTo(i, x) : IsComposite(p)
        => \E r \in result.reviewed : r.key = <<x, i>>

(* What is observed is reported, and what composite roles grant reviewed.  *)
NothingEscapesReview == ObservedIsReported /\ CompositeGrantsReviewed

(* Once made, the comparison is that of the finished evaluation.           *)
ComparedInv ==
    Compared =>
        /\ Done
        /\ \E golden \in Goldens, scope \in ImportScopes :
              result = [golden |-> golden, scope |-> scope,
                        rows |-> CompareSnapshot(golden, scope),
                        reviewed |-> Reviewable(CompareSnapshot(golden, scope))]

(* Native ids do their work: a stable key, of a listed access or of one    *)
(* that is not, is that of one access and one identity.                    *)
Key(x, i, native, permission) ==
    StableKey(AccessProvider[x], x, native, permission, i, IdentityNative[i])

KeysIdentify ==
    \A x, y \in Accesses, i, j \in Known :
        \A m \in {ControlNative[x], None}, n \in {ControlNative[y], None},
           s \in {Permission[x], ""}, t \in {Permission[y], ""} :
              Key(x, i, m, s) = Key(y, j, n, t) /\ Key(x, i, m, s) # None => x = y /\ i = j
=============================================================================
