--------------------------- MODULE EffectiveAccess ---------------------------
(***************************************************************************)
(* calculate_effective_accesses: which accesses each identity of a         *)
(* snapshot effectively has, through the relations by which one access     *)
(* grants another, and along which paths.  Relation graphs are data of the *)
(* customer's directory: they may be cyclic, and the number of paths may   *)
(* be exponential, so the traversal refuses cycles and stops recording     *)
(* paths to an access that has MaxPaths of them.                           *)
(*                                                                         *)
(* The loop over assignments, the while loop over the stack and the for    *)
(* loop over relations are one action each.  The code sorts assignments    *)
(* and relations by names, origin checksums and ids, which say nothing of  *)
(* the graph: here each loop takes its elements in any order.              *)
(***************************************************************************)
EXTENDS Naturals, Sequences

CONSTANTS
    Accesses,     \* provider-qualified access names
    Identities,   \* provider-qualified identities
    Assignments,  \* observed assignments
    Holds,        \* assignment -> its access
    Holder,       \* assignment -> its identity
    Relations,    \* access relations
    Parent,       \* relation -> the access that grants
    Child,        \* relation -> the access that is granted
    Snapshots,    \* [assignments, relations, catalog]: what may be collected
    MaxPaths      \* max_paths_per_access

ASSUME EffectiveAssumption ==
    /\ Holds \in [Assignments -> Accesses]
    /\ Holder \in [Assignments -> Identities]
    /\ Parent \in [Relations -> Accesses]
    /\ Child \in [Relations -> Accesses]
    /\ Snapshots \subseteq [assignments : SUBSET Assignments,
                            relations : SUBSET Relations,
                            catalog : SUBSET Accesses]
    /\ MaxPaths \in Nat \ {0}

(* AccessPath, and the entries of the stack.  The order of access_chain    *)
(* is that of via.                                                         *)
Path == [assignment : Assignments, at : Accesses, chain : SUBSET Accesses,
         via : Seq(Relations)]

VARIABLES
    snap,        \* the snapshot evaluated
    waiting,     \* assignments the outer loop has not reached
    stack,       \* paths whose end is still to be expanded
    current,     \* the path popped last
    todo,        \* relations of its end still to be followed
    paths,       \* results: <<identity, access>> -> its paths
    diagnostics  \* <<kind, relation or assignment, identity, access>>

traversal == <<snap, waiting, stack, current, todo, paths, diagnostics>>

NoPath == [assignment |-> "none", at |-> "none", chain |-> {}, via |-> <<>>]

(* adjacency: relations with an unknown end are left out (and reported).   *)
Grants == {r \in snap.relations : Parent[r] \in snap.catalog /\ Child[r] \in snap.catalog}

TraversalInit ==
    /\ snap \in Snapshots
    /\ waiting = snap.assignments
    /\ stack = <<>>
    /\ current = NoPath
    /\ todo = {}
    /\ paths = [k \in Identities \X Accesses |-> <<>>]
    /\ diagnostics = {<<"unresolved_access_relation", r, "any", Child[r]>> :
                         r \in snap.relations \ Grants}

-----------------------------------------------------------------------------

GrantsFrom(x) == {r \in Grants : Parent[r] = x}

RootPath(a) == [assignment |-> a, at |-> Holds[a], chain |-> {Holds[a]}, via |-> <<>>]

Extend(p, r) == [p EXCEPT !.at = Child[r], !.chain = p.chain \cup {Child[r]},
                          !.via = Append(p.via, r)]

(* _add_effective_access                                                   *)
AddPath(P, p) ==
    LET k == <<Holder[p.assignment], p.at>> IN
    IF \E n \in 1..Len(P[k]) : P[k][n] = p THEN P
    ELSE [P EXCEPT ![k] = Append(P[k], p)]

(* The outer loop: a direct assignment is a path of its own.               *)
StartAssignment(a) ==
    /\ todo = {} /\ stack = <<>>
    /\ a \in waiting
    /\ waiting' = waiting \ {a}
    /\ \/ /\ Holds[a] \in snap.catalog
          /\ paths' = AddPath(paths, RootPath(a))
          /\ stack' = <<RootPath(a)>>
          /\ UNCHANGED diagnostics
       \/ /\ Holds[a] \notin snap.catalog
          /\ diagnostics' = diagnostics \cup
                {<<"unresolved_direct_assignment", a, Holder[a], Holds[a]>>}
          /\ UNCHANGED <<paths, stack>>
    /\ UNCHANGED <<snap, current, todo>>

(* The while loop: pop a path and turn to the relations of its end.        *)
PopPath ==
    /\ todo = {}
    /\ stack # <<>>
    /\ current' = stack[Len(stack)]
    /\ todo' = GrantsFrom(stack[Len(stack)].at)
    /\ stack' = SubSeq(stack, 1, Len(stack) - 1)
    /\ UNCHANGED <<snap, waiting, paths, diagnostics>>

Closes(r) == Child[r] \in current.chain

(* Mutant: the limit counts the paths of the identity, not of the access.  *)
FullOfIdentity(r) ==
    \E x, y \in Accesses : x # y /\ Len(paths[<<Holder[current.assignment], x>>])
        + Len(paths[<<Holder[current.assignment], y>>]) >= MaxPaths

Full(r) == Len(paths[<<Holder[current.assignment], Child[r]>>]) >= MaxPaths

(* Mutant: an access at its limit is dropped without a word.               *)
SilentDiagnosis(kind, r) ==
    IF kind = "path_limit_reached" THEN {}
    ELSE {<<kind, r, Holder[current.assignment], Child[r]>>}

Diagnosis(kind, r) == {<<kind, r, Holder[current.assignment], Child[r]>>}

(* Mutant: a relation that closes a cycle is tried again.                  *)
FollowForever(r) ==
    /\ r \in todo
    /\ \/ /\ Closes(r)
          /\ diagnostics' = diagnostics \cup Diagnosis("cycle_detected", r)
          /\ UNCHANGED <<todo, stack, paths>>
       \/ /\ ~Closes(r)
          /\ todo' = todo \ {r}
          /\ paths' = AddPath(paths, Extend(current, r))
          /\ stack' = Append(stack, Extend(current, r))
          /\ UNCHANGED diagnostics
    /\ UNCHANGED <<snap, waiting, current>>

(* The for loop: a relation closes a cycle, or leads to an access that has *)
(* all the paths it may have, or extends the path.                         *)
FollowRelation(r) ==
    /\ r \in todo
    /\ todo' = todo \ {r}
    /\ \/ /\ Closes(r)
          /\ diagnostics' = diagnostics \cup Diagnosis("cycle_detected", r)
          /\ UNCHANGED <<stack, paths>>
       \/ /\ ~Closes(r) /\ Full(r)
          /\ diagnostics' = diagnostics \cup Diagnosis("path_limit_reached", r)
          /\ UNCHANGED <<stack, paths>>
       \/ /\ ~Closes(r) /\ ~Full(r)
          /\ paths' = AddPath(paths, Extend(current, r))
          /\ stack' = Append(stack, Extend(current, r))
          /\ UNCHANGED diagnostics
    /\ UNCHANGED <<snap, waiting, current>>

TraversalNext ==
    \/ \E a \in Assignments : StartAssignment(a)
    \/ PopPath
    \/ \E r \in Relations : FollowRelation(r)

TraversalSpec == TraversalInit /\ [][TraversalNext]_traversal

Done == waiting = {} /\ stack = <<>> /\ todo = {}

-----------------------------------------------------------------------------
(* What the evaluation should find.                                        *)

Effective(i) == {x \in Accesses : paths[<<i, x>>] # <<>>}

(* The accesses an identity holds directly and the catalog knows.          *)
Direct(i) ==
    {Holds[a] : a \in {b \in snap.assignments : Holder[b] = i /\ Holds[b] \in snap.catalog}}

ClosedUnderGrants(S) == \A r \in Grants : Parent[r] \in S => Child[r] \in S

(* The least set that has the direct accesses and all they grant.          *)
Granted(i) ==
    {x \in Accesses : \A S \in SUBSET Accesses :
        Direct(i) \subseteq S /\ ClosedUnderGrants(S) => x \in S}

(* Every table of the traversal has its type.                              *)
TraversalTypeOK ==
    /\ snap \in Snapshots
    /\ waiting \subseteq snap.assignments
    /\ stack \in Seq(Path)
    /\ current \in Path \cup {NoPath}
    /\ todo \subseteq Grants
    /\ paths \in [Identities \X Accesses -> Seq(Path)]
    /\ todo # {} => current \in Path

(* The evaluation is sound and complete: when it ends, each identity has   *)
(* exactly the accesses its assignments grant, although cyclic relations   *)
(* are not followed and an access at its path limit is not expanded again. *)
EffectiveIsGranted == Done => \A i \in Identities : Effective(i) = Granted(i)

(* A path leads through accesses already found to be effective.            *)
OnPath(p) == p.at \in p.chain /\ p.chain \subseteq Effective(Holder[p.assignment])

(* Relation r will still be followed for identity i.                       *)
Pending(i, r) ==
    \/ \E n \in 1..Len(stack) : stack[n].at = Parent[r] /\ Holder[stack[n].assignment] = i
    \/ r \in todo /\ Holder[current.assignment] = i

(* The paths at work are real.                                             *)
PathsAtWork ==
    /\ \A n \in 1..Len(stack) : OnPath(stack[n])
    /\ \A r \in todo : Parent[r] = current.at /\ OnPath(current)

FoundIsGranted == \A i \in Identities : Effective(i) \subseteq Granted(i)

DirectIsFound ==
    \A a \in snap.assignments \ waiting :
        Holds[a] \in snap.catalog => Holds[a] \in Effective(Holder[a])

GrantedIsFoundOrPending ==
    \A i \in Identities, r \in Grants :
        Parent[r] \in Effective(i) => Child[r] \in Effective(i) \/ Pending(i, r)

(* The inductive invariant behind EffectiveIsGranted.                      *)
EffectiveInv ==
    /\ TraversalTypeOK
    /\ PathsAtWork
    /\ FoundIsGranted
    /\ DirectIsFound
    /\ GrantedIsFoundOrPending

(* The paths a table P of results records.                                 *)
Recorded(P, i, x) == {P[<<i, x>>][n] : n \in 1..Len(P[<<i, x>>])}

PathsTo(i, x) == Recorded(paths, i, x)

Limited(i, x) == \E d \in diagnostics : d[1] = "path_limit_reached" /\ d[3] = i /\ d[4] = x

(* "keep every provenance path": no path disappears without a diagnostic.  *)
(* The extension of a recorded path by a relation that does not close a    *)
(* cycle is recorded too, unless the access it leads to is reported to     *)
(* have reached the limit, and then it does have that many.                *)
NoPathLostSilently ==
    Done => \A i \in Identities, x \in Accesses : \A p \in PathsTo(i, x) :
        \A r \in GrantsFrom(x) :
            \/ Child[r] \in p.chain
            \/ Extend(p, r) \in PathsTo(i, Child[r])
            \/ Limited(i, Child[r]) /\ Len(paths[<<i, Child[r]>>]) >= MaxPaths

(* What becomes of a recorded path: every relation of its end was followed *)
(* or refused for a reason that stays, unless the path is still at work.   *)
Handled(p, r) ==
    LET i == Holder[p.assignment] IN
    \/ Child[r] \in p.chain
    \/ Extend(p, r) \in PathsTo(i, Child[r])
    \/ Limited(i, Child[r]) /\ Len(paths[<<i, Child[r]>>]) >= MaxPaths

AtWork(p, r) ==
    \/ \E n \in 1..Len(stack) : stack[n] = p
    \/ current = p /\ r \in todo

PathsTraced ==
    \A i \in Identities, x \in Accesses : \A p \in PathsTo(i, x) :
        /\ p.at = x /\ Holder[p.assignment] = i /\ x \in snap.catalog
        /\ \A r \in GrantsFrom(x) : AtWork(p, r) \/ Handled(p, r)

RootsRecorded ==
    \A a \in snap.assignments \ waiting :
        Holds[a] \in snap.catalog => RootPath(a) \in PathsTo(Holder[a], Holds[a])

PathsInv == PathsTraced /\ RootsRecorded

(* Following relations always ends, also around cycles.                    *)
TraversalEnds == <>Done
=============================================================================
