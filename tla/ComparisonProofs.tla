-------------------------- MODULE ComparisonProofs --------------------------
(***************************************************************************)
(* The evaluation of effective accesses is sound and complete, for every   *)
(* relation graph, every catalog and every path limit.                     *)
(***************************************************************************)
EXTENDS Comparison, TLAPS

PathTable == [Identities \X Accesses -> Seq(Path)]

(* Recording a path keeps the table's type and makes exactly the end of    *)
(* the path effective for its holder.                                      *)
LEMMA AddPathEffect ==
    ASSUME NEW P \in PathTable, NEW p \in Path, EffectiveAssumption
    PROVE  /\ AddPath(P, p) \in PathTable
           /\ \A i \in Identities, x \in Accesses :
                 AddPath(P, p)[<<i, x>>] # <<>> <=>
                     P[<<i, x>>] # <<>> \/ (i = Holder[p.assignment] /\ x = p.at)
  <1> DEFINE k == <<Holder[p.assignment], p.at>>
  <1>1. k \in Identities \X Accesses /\ P[k] \in Seq(Path)
    BY DEF PathTable, Path, EffectiveAssumption
  <1>2. CASE \E n \in 1..Len(P[k]) : P[k][n] = p
    <2>1. AddPath(P, p) = P
      BY <1>2 DEF AddPath
    <2>2. P[k] # <<>>
      BY <1>1, <1>2
    <2> QED
      BY <2>1, <2>2
  <1>3. CASE ~\E n \in 1..Len(P[k]) : P[k][n] = p
    <2>1. AddPath(P, p) = [P EXCEPT ![k] = Append(P[k], p)]
      BY <1>3 DEF AddPath
    <2>2. Append(P[k], p) \in Seq(Path) /\ Append(P[k], p) # <<>>
      <3>1. ASSUME NEW s \in Seq(Path) PROVE Append(s, p) \in Seq(Path) /\ Append(s, p) # <<>>
        <4>1. Len(Append(s, p)) = Len(s) + 1 /\ Len(s) \in Nat
          OBVIOUS
        <4>2. Append(s, p) = <<>> => Len(Append(s, p)) = 0
          OBVIOUS
        <4> QED
          BY <4>1, <4>2
      <3> HIDE DEF k
      <3> QED
        BY <1>1, <3>1
    <2>3. [P EXCEPT ![k] = Append(P[k], p)] \in PathTable
      BY <1>1, <2>2 DEF PathTable
    <2>4. \A i \in Identities, x \in Accesses :
            [P EXCEPT ![k] = Append(P[k], p)][<<i, x>>]
                = IF <<i, x>> = k THEN Append(P[k], p) ELSE P[<<i, x>>]
      BY <1>1 DEF PathTable
    <2>5. \A i \in Identities, x \in Accesses :
            <<i, x>> = k <=> i = Holder[p.assignment] /\ x = p.at
      OBVIOUS
    <2>6. \A i \in Identities, x \in Accesses :
            AddPath(P, p)[<<i, x>>] # <<>> <=>
                P[<<i, x>>] # <<>> \/ (i = Holder[p.assignment] /\ x = p.at)
      <3> TAKE i \in Identities, x \in Accesses
      <3> HIDE DEF k
      <3>1. AddPath(P, p)[<<i, x>>] = IF <<i, x>> = k THEN Append(P[k], p) ELSE P[<<i, x>>]
        BY <2>1, <2>4, Zenon
      <3>2. CASE <<i, x>> = k
        BY <2>2, <2>5, <3>1, <3>2, Zenon
      <3>3. CASE <<i, x>> # k
        BY <2>5, <3>1, <3>3, Zenon
      <3> QED
        BY <3>2, <3>3
    <2> QED
      BY <2>1, <2>3, <2>6
  <1> QED
    BY <1>2, <1>3
(* The least set granted is itself closed under the relations.             *)
LEMMA GrantedClosed ==
    ASSUME NEW i \in Identities, NEW r \in Grants, Parent[r] \in Granted(i),
           EffectiveAssumption, snap \in Snapshots
    PROVE  Child[r] \in Granted(i)
  <1>1. Child[r] \in Accesses
    BY DEF Grants, EffectiveAssumption
  <1>2. \A S \in SUBSET Accesses :
          Direct(i) \subseteq S /\ ClosedUnderGrants(S) => Child[r] \in S
    BY DEF Granted, ClosedUnderGrants
  <1> QED
    BY <1>1, <1>2 DEF Granted

(* What is held directly is granted.                                       *)
LEMMA DirectGranted ==
    ASSUME NEW a \in snap.assignments, Holds[a] \in snap.catalog,
           EffectiveAssumption, snap \in Snapshots
    PROVE  Holds[a] \in Granted(Holder[a])
  <1>1. a \in Assignments /\ Holds[a] \in Accesses
    BY DEF EffectiveAssumption
  <1>2. Holds[a] \in Direct(Holder[a])
    BY DEF Direct
  <1> QED
    BY <1>1, <1>2 DEF Granted

(* A closed set that has the direct accesses has everything granted.       *)
LEMMA GrantedLeast ==
    ASSUME NEW i \in Identities, Direct(i) \subseteq Effective(i),
           ClosedUnderGrants(Effective(i))
    PROVE  Granted(i) \subseteq Effective(i)
  <1>1. Effective(i) \in SUBSET Accesses
    BY DEF Effective
  <1> QED
    BY <1>1 DEF Granted

(* While the snapshot stays, so does what it grants.                       *)
LEMMA SameSnapshot ==
    ASSUME snap' = snap
    PROVE  Grants' = Grants /\ \A i \in Identities : Granted(i)' = Granted(i)
  BY DEF Grants, Granted, Direct, ClosedUnderGrants

(* Recording a path makes its end effective and changes nothing else.      *)
LEMMA EffectiveGrows ==
    ASSUME NEW p \in Path, paths \in PathTable, paths' = AddPath(paths, p),
           EffectiveAssumption
    PROVE  /\ paths' \in PathTable
           /\ \A i \in Identities : Effective(i)' =
                 Effective(i) \cup (IF i = Holder[p.assignment] THEN {p.at} ELSE {})
  <1>1. p.at \in Accesses
    BY DEF Path
  <1>2. /\ paths' \in PathTable
        /\ \A i \in Identities, x \in Accesses :
              paths'[<<i, x>>] # <<>> <=>
                  paths[<<i, x>>] # <<>> \/ (i = Holder[p.assignment] /\ x = p.at)
    BY AddPathEffect
  <1>3. ASSUME NEW i \in Identities
        PROVE  Effective(i)' = Effective(i) \cup (IF i = Holder[p.assignment] THEN {p.at} ELSE {})
    BY <1>1, <1>2 DEF Effective
  <1> QED
    BY <1>2, <1>3

(* The paths at work stay paths through effective accesses when more       *)
(* accesses become effective.                                              *)
LEMMA OnPathStable ==
    ASSUME NEW p, OnPath(p),
           Effective(Holder[p.assignment]) \subseteq Effective(Holder[p.assignment])'
    PROVE  p.at \in p.chain /\ p.chain \subseteq Effective(Holder[p.assignment])'
  BY DEF OnPath
(* The root path of an assignment, and the extension of a path, are paths. *)
LEMMA PathsAreTyped ==
    ASSUME EffectiveAssumption
    PROVE  /\ \A a \in Assignments : RootPath(a) \in Path
           /\ \A p \in Path, r \in Relations :
                 /\ Extend(p, r) \in Path
                 /\ Extend(p, r).at = Child[r]
                 /\ Extend(p, r).chain = p.chain \cup {Child[r]}
                 /\ Extend(p, r).assignment = p.assignment
  <1>1. ASSUME NEW a \in Assignments PROVE RootPath(a) \in Path
    BY DEF RootPath, Path, EffectiveAssumption
  <1>2. ASSUME NEW p \in Path, NEW r \in Relations
        PROVE  /\ Extend(p, r) \in Path
               /\ Extend(p, r).at = Child[r]
               /\ Extend(p, r).chain = p.chain \cup {Child[r]}
               /\ Extend(p, r).assignment = p.assignment
    <2>1. Append(p.via, r) \in Seq(Relations)
      BY DEF Path
    <2>2. PICK s \in Seq(Relations) : s = Append(p.via, r)
      BY <2>1
    <2>3. Extend(p, r) = [p EXCEPT !.at = Child[r], !.chain = p.chain \cup {Child[r]}, !.via = s]
      BY <2>2 DEF Extend
    <2>4. PICK c \in SUBSET Accesses : c = p.chain \cup {Child[r]}
      BY DEF Path, EffectiveAssumption
    <2>5. Child[r] \in Accesses
      BY DEF EffectiveAssumption
    <2>6. Extend(p, r) = [p EXCEPT !.at = Child[r], !.chain = c, !.via = s]
      BY <2>3, <2>4
    <2>7. [p EXCEPT !.at = Child[r], !.chain = c, !.via = s] \in Path
      BY <2>5 DEF Path
    <2>8. /\ Extend(p, r).at = Child[r]
          /\ Extend(p, r).chain = c
          /\ Extend(p, r).assignment = p.assignment
      BY <2>6 DEF Path
    <2> QED
      BY <2>4, <2>6, <2>7, <2>8
  <1> QED
    BY <1>1, <1>2

(* The holder of a path is an identity.                                    *)
LEMMA HoldersAreIdentities ==
    ASSUME EffectiveAssumption
    PROVE  \A q \in Path : Holder[q.assignment] \in Identities
  <1> SUFFICES ASSUME NEW q \in Path PROVE Holder[q.assignment] \in Identities
    OBVIOUS
  <1>1. q.assignment \in Assignments
    BY DEF Path
  <1> QED
    BY <1>1 DEF EffectiveAssumption

(* The first state: nothing is found, nothing is at work.                  *)
LEMMA EffectiveInit ==
    ASSUME EffectiveAssumption, TraversalInit
    PROVE  EffectiveInv
  <1>1. TraversalTypeOK
    <2>1. <<>> \in Seq(Path)
      OBVIOUS
    <2> QED
      BY <2>1 DEF TraversalInit, TraversalTypeOK
  <1>2. \A i \in Identities : Effective(i) = {}
    BY DEF TraversalInit, Effective
  <1>3. PathsAtWork
    BY DEF TraversalInit, PathsAtWork
  <1>4. FoundIsGranted /\ GrantedIsFoundOrPending
    BY <1>2 DEF FoundIsGranted, GrantedIsFoundOrPending
  <1>5. DirectIsFound
    BY DEF TraversalInit, DirectIsFound
  <1> QED
    BY <1>1, <1>3, <1>4, <1>5 DEF EffectiveInv

(* The outer loop: a direct access is granted, found and put to work.      *)
LEMMA StartPreserves ==
    ASSUME EffectiveAssumption, EffectiveInv, NEW a \in Assignments, StartAssignment(a)
    PROVE  EffectiveInv'
  <1> USE DEF EffectiveInv
  <1>0. /\ snap' = snap /\ todo' = todo /\ todo = {} /\ current' = current
        /\ stack = <<>> /\ a \in waiting /\ waiting' = waiting \ {a}
    BY DEF StartAssignment
  <1>1. /\ a \in snap.assignments /\ snap \in Snapshots /\ paths \in PathTable
        /\ waiting \subseteq snap.assignments /\ current \in Path \cup {NoPath}
    BY <1>0 DEF TraversalTypeOK, PathTable
  <1>2. Grants' = Grants /\ \A i \in Identities : Granted(i)' = Granted(i)
    BY <1>0, SameSnapshot
  <1>3. \A i \in Identities, r \in Grants : ~Pending(i, r)
    BY <1>0 DEF Pending
  <1>4. CASE /\ Holds[a] \in snap.catalog
             /\ paths' = AddPath(paths, RootPath(a)) /\ stack' = <<RootPath(a)>>
    <2>1. RootPath(a) \in Path
      BY PathsAreTyped
    <2>2. /\ RootPath(a).at = Holds[a] /\ RootPath(a).assignment = a
          /\ RootPath(a).chain = {Holds[a]}
      BY DEF RootPath
    <2>3. /\ paths' \in PathTable
          /\ \A i \in Identities : Effective(i)' =
                Effective(i) \cup (IF i = Holder[a] THEN {Holds[a]} ELSE {})
      BY <1>1, <1>4, <2>1, <2>2, EffectiveGrows
    <2>4. Holder[a] \in Identities
      BY DEF EffectiveAssumption
    <2>5. stack' \in Seq(Path) /\ Len(stack') = 1 /\ stack'[1] = RootPath(a)
      BY <1>4, <2>1
    <2>6. TraversalTypeOK'
      BY <1>0, <1>1, <1>2, <2>3, <2>5 DEF TraversalTypeOK, PathTable
    <2>7. PathsAtWork'
      BY <1>0, <2>2, <2>3, <2>4, <2>5 DEF PathsAtWork, OnPath
    <2>8. FoundIsGranted'
      BY <1>1, <1>2, <1>4, <2>3, DirectGranted DEF FoundIsGranted
    <2>9. DirectIsFound'
      <3> SUFFICES ASSUME NEW b \in snap.assignments, b \notin waiting \/ b = a,
                          Holds[b] \in snap.catalog
                   PROVE  Holds[b] \in Effective(Holder[b])'
        BY <1>0 DEF DirectIsFound
      <3>1. Holder[b] \in Identities
        BY <1>1 DEF EffectiveAssumption
      <3> QED
        BY <2>3, <3>1 DEF DirectIsFound
    <2>10. GrantedIsFoundOrPending'
      <3> SUFFICES ASSUME NEW i \in Identities, NEW r \in Grants, Parent[r] \in Effective(i)'
                   PROVE  Child[r] \in Effective(i)' \/ Pending(i, r)'
        BY <1>2 DEF GrantedIsFoundOrPending
      <3>1. CASE Parent[r] \in Effective(i)
        BY <1>3, <2>3, <3>1 DEF GrantedIsFoundOrPending
      <3>2. CASE Parent[r] = Holds[a] /\ i = Holder[a]
        BY <2>2, <2>5, <3>2 DEF Pending
      <3> QED
        BY <2>3, <3>1, <3>2
    <2> QED
      BY <2>6, <2>7, <2>8, <2>9, <2>10
  <1>5. CASE Holds[a] \notin snap.catalog /\ paths' = paths /\ stack' = stack
    <2>1. \A i \in Identities : Effective(i)' = Effective(i)
      BY <1>5 DEF Effective
    <2>2. TraversalTypeOK'
      BY <1>0, <1>1, <1>2, <1>5 DEF TraversalTypeOK
    <2>3. PathsAtWork' /\ FoundIsGranted'
      BY <1>0, <1>2, <1>5, <2>1 DEF PathsAtWork, FoundIsGranted
    <2>4. DirectIsFound'
      <3> SUFFICES ASSUME NEW b \in snap.assignments, b \notin waiting \/ b = a,
                          Holds[b] \in snap.catalog
                   PROVE  Holds[b] \in Effective(Holder[b])'
        BY <1>0 DEF DirectIsFound
      <3>1. Holder[b] \in Identities
        BY <1>1 DEF EffectiveAssumption
      <3> QED
        BY <1>5, <2>1, <3>1 DEF DirectIsFound
    <2>5. GrantedIsFoundOrPending'
      BY <1>2, <1>3, <2>1 DEF GrantedIsFoundOrPending
    <2> QED
      BY <2>2, <2>3, <2>4, <2>5
  <1> QED
    BY <1>4, <1>5 DEF StartAssignment
(* What popping a nonempty stack of paths leaves.                          *)
LEMMA PopEffect ==
    ASSUME NEW s \in Seq(Path), s # <<>>
    PROVE  /\ Len(s) \in Nat \ {0} /\ s[Len(s)] \in Path
           /\ SubSeq(s, 1, Len(s) - 1) \in Seq(Path)
           /\ Len(SubSeq(s, 1, Len(s) - 1)) = Len(s) - 1
           /\ \A n \in 1..Len(SubSeq(s, 1, Len(s) - 1)) :
                 SubSeq(s, 1, Len(s) - 1)[n] = s[n]
  <1>1. Len(s) \in Nat \ {0}
    OBVIOUS
  <1>2. s[Len(s)] \in Path
    BY <1>1
  <1>3. PICK m \in Nat : m = Len(s) - 1
    BY <1>1
  <1>4. \A n \in 1..m : s[n] \in Path
    BY <1>1, <1>3
  <1>5. SubSeq(s, 1, m) \in Seq(Path) /\ Len(SubSeq(s, 1, m)) = m
    BY <1>1, <1>3, <1>4
  <1>6. \A n \in 1..m : SubSeq(s, 1, m)[n] = s[n]
    BY <1>1, <1>3
  <1> QED
    BY <1>1, <1>2, <1>3, <1>5, <1>6

(* The while loop: the relations of the popped path become the ones to     *)
(* follow, so what was pending stays pending.                              *)
LEMMA PopPreserves ==
    ASSUME EffectiveAssumption, EffectiveInv, PopPath
    PROVE  EffectiveInv'
  <1> USE DEF EffectiveInv
  <1> DEFINE top == stack[Len(stack)]
  <1>0. /\ snap' = snap /\ waiting' = waiting /\ paths' = paths /\ todo = {}
        /\ stack # <<>> /\ current' = top /\ todo' = GrantsFrom(top.at)
        /\ stack' = SubSeq(stack, 1, Len(stack) - 1)
    BY DEF PopPath
  <1>1. Grants' = Grants /\ \A i \in Identities : Granted(i)' = Granted(i)
    BY <1>0, SameSnapshot
  <1>2. \A i \in Identities : Effective(i)' = Effective(i)
    BY <1>0 DEF Effective
  <1>3. /\ Len(stack) \in Nat \ {0} /\ top \in Path
        /\ stack' \in Seq(Path) /\ Len(stack') = Len(stack) - 1
        /\ \A n \in 1..Len(stack') : stack'[n] = stack[n]
    BY <1>0, PopEffect DEF TraversalTypeOK
  <1>4. \A q \in Path : Holder[q.assignment] \in Identities
    BY HoldersAreIdentities
  <1>5. TraversalTypeOK'
    <2>1. todo' \subseteq Grants'
      BY <1>0, <1>1 DEF GrantsFrom
    <2> QED
      BY <1>0, <1>3, <2>1 DEF TraversalTypeOK
  <1>6. \A q \in Path : OnPath(q) => OnPath(q)'
    BY <1>2, <1>4 DEF OnPath
  <1>7. PathsAtWork'
    <2>1. \A n \in 1..Len(stack) : stack[n] \in Path /\ OnPath(stack[n])
      BY DEF TraversalTypeOK, PathsAtWork
    <2>2. ASSUME NEW n \in 1..Len(stack') PROVE OnPath(stack[n])'
      <3>1. n \in 1..Len(stack) /\ stack'[n] = stack[n]
        BY <1>3
      <3>2. PICK q \in Path : q = stack[n] /\ OnPath(q)
        BY <2>1, <3>1
      <3>3. OnPath(q)' /\ stack'[n] = q
        BY <1>6, <3>1, <3>2
      <3> QED
        BY <3>3 DEF OnPath
    <2>3. OnPath(current)'
      <3>1. PICK q \in Path : q = top /\ OnPath(q)
        BY <1>3, <2>1
      <3>2. OnPath(q)' /\ current' = q
        BY <1>0, <1>6, <3>1
      <3> QED
        BY <3>2 DEF OnPath
    <2>4. \A r \in todo' : Parent[r] = current'.at
      BY <1>0 DEF GrantsFrom
    <2> QED
      BY <2>2, <2>3, <2>4 DEF PathsAtWork
  <1>8. FoundIsGranted' /\ DirectIsFound'
    <2>1. \A a \in snap.assignments : Holder[a] \in Identities
      BY DEF TraversalTypeOK, EffectiveAssumption
    <2> QED
      BY <1>0, <1>1, <1>2, <2>1 DEF FoundIsGranted, DirectIsFound
  <1>9. GrantedIsFoundOrPending'
    <2> SUFFICES ASSUME NEW i \in Identities, NEW r \in Grants, Parent[r] \in Effective(i)
                 PROVE  Child[r] \in Effective(i) \/ Pending(i, r)'
      BY <1>1, <1>2 DEF GrantedIsFoundOrPending
    <2>1. CASE Child[r] \in Effective(i)
      BY <2>1
    <2>2. CASE \E n \in 1..Len(stack) : stack[n].at = Parent[r] /\ Holder[stack[n].assignment] = i
      <3> PICK n \in 1..Len(stack) : stack[n].at = Parent[r] /\ Holder[stack[n].assignment] = i
        BY <2>2
      <3>1. CASE n = Len(stack)
        BY <1>0, <3>1 DEF Pending, GrantsFrom
      <3>2. CASE n # Len(stack)
        <4>1. n \in 1..Len(stack')
          BY <1>3, <3>2
        <4> QED
          BY <1>3, <4>1 DEF Pending
      <3> QED
        BY <3>1, <3>2
    <2> QED
      BY <1>0, <2>1, <2>2 DEF GrantedIsFoundOrPending, Pending
  <1> QED
    BY <1>5, <1>7, <1>8, <1>9
(* The for loop: a relation that closes a cycle, or leads to a full        *)
(* access, leads to an access already found; any other finds its end and   *)
(* puts it to work.                                                        *)
LEMMA FollowPreserves ==
    ASSUME EffectiveAssumption, EffectiveInv, NEW r \in Relations, FollowRelation(r)
    PROVE  EffectiveInv'
  <1> USE DEF EffectiveInv
  <1> DEFINE h == Holder[current.assignment]
  <1>0. /\ snap' = snap /\ waiting' = waiting /\ current' = current
        /\ r \in todo /\ todo' = todo \ {r}
    BY DEF FollowRelation
  <1>1. Grants' = Grants /\ \A i \in Identities : Granted(i)' = Granted(i)
    BY <1>0, SameSnapshot
  <1>2. /\ snap \in Snapshots /\ paths \in PathTable /\ stack \in Seq(Path)
        /\ current \in Path /\ r \in Grants /\ Parent[r] = current.at /\ OnPath(current)
    BY <1>0 DEF TraversalTypeOK, PathTable, PathsAtWork
  <1>3. h \in Identities /\ Child[r] \in Accesses
    BY <1>2, HoldersAreIdentities DEF EffectiveAssumption
  <1>4. \A a \in snap.assignments : Holder[a] \in Identities
    BY <1>2 DEF EffectiveAssumption
  <1>5. ASSUME \A i \in Identities : Effective(i) \subseteq Effective(i)'
        PROVE  \A q \in Path : OnPath(q) => OnPath(q)'
    BY <1>5, HoldersAreIdentities DEF OnPath
  <1>6. ASSUME Child[r] \in Effective(h), paths' = paths, stack' = stack
        PROVE  EffectiveInv'
    <2>1. \A i \in Identities : Effective(i)' = Effective(i)
      BY <1>6 DEF Effective
    <2>2. TraversalTypeOK'
      BY <1>0, <1>1, <1>2, <1>6 DEF TraversalTypeOK
    <2>3. PathsAtWork'
      <3>1. \A q \in Path : OnPath(q) => OnPath(q)'
        BY <1>5, <2>1
      <3>2. ASSUME NEW n \in 1..Len(stack) PROVE OnPath(stack[n])'
        <4>1. PICK q \in Path : q = stack[n] /\ OnPath(q)
          BY <1>2 DEF PathsAtWork
        <4>2. OnPath(q)' /\ stack'[n] = q
          BY <1>6, <3>1, <4>1
        <4> QED
          BY <4>2 DEF OnPath
      <3>3. OnPath(current)'
        <4>1. PICK q \in Path : q = current /\ OnPath(q)
          BY <1>2
        <4>2. OnPath(q)' /\ current' = q
          BY <1>0, <3>1, <4>1
        <4> QED
          BY <4>2 DEF OnPath
      <3> QED
        BY <1>0, <1>6, <3>2, <3>3 DEF PathsAtWork
    <2>4. FoundIsGranted' /\ DirectIsFound'
      BY <1>0, <1>1, <1>4, <2>1 DEF FoundIsGranted, DirectIsFound
    <2>5. GrantedIsFoundOrPending'
      <3> SUFFICES ASSUME NEW i \in Identities, NEW q \in Grants, Parent[q] \in Effective(i)
                   PROVE  Child[q] \in Effective(i) \/ Pending(i, q)'
        BY <1>1, <2>1 DEF GrantedIsFoundOrPending
      <3>1. Child[q] \in Effective(i) \/ Pending(i, q)
        BY DEF GrantedIsFoundOrPending
      <3>2. q = r /\ i = h => Child[q] \in Effective(i)
        BY <1>6
      <3> QED
        BY <1>0, <1>6, <3>1, <3>2 DEF Pending
    <2> QED
      BY <2>2, <2>3, <2>4, <2>5
  <1>7. CASE Closes(r) /\ paths' = paths /\ stack' = stack
    <2>1. Child[r] \in Effective(h)
      BY <1>2, <1>7 DEF Closes, OnPath
    <2> QED
      BY <1>6, <1>7, <2>1
  <1>8. CASE Full(r) /\ paths' = paths /\ stack' = stack
    <2>1. paths[<<h, Child[r]>>] # <<>>
      BY <1>8 DEF Full, EffectiveAssumption
    <2>2. Child[r] \in Effective(h)
      BY <1>3, <2>1 DEF Effective
    <2> QED
      BY <1>6, <1>8, <2>2
  <1>9. CASE /\ paths' = AddPath(paths, Extend(current, r))
             /\ stack' = Append(stack, Extend(current, r))
    <2>1. PICK e \in Path : /\ e = Extend(current, r) /\ e.at = Child[r]
                            /\ e.chain = current.chain \cup {Child[r]}
                            /\ e.assignment = current.assignment
      BY <1>2, PathsAreTyped
    <2>2. paths' = AddPath(paths, e) /\ stack' = Append(stack, e)
      BY <1>9, <2>1
    <2>3. /\ paths' \in PathTable
          /\ \A i \in Identities : Effective(i)' =
                Effective(i) \cup (IF i = h THEN {Child[r]} ELSE {})
      BY <1>2, <2>1, <2>2, EffectiveGrows
    <2>4. /\ stack' \in Seq(Path) /\ Len(stack') = Len(stack) + 1 /\ Len(stack) \in Nat
          /\ \A n \in 1..Len(stack) : stack'[n] = stack[n]
          /\ stack'[Len(stack) + 1] = e
      BY <1>2, <2>2
    <2>5. TraversalTypeOK'
      BY <1>0, <1>1, <1>2, <2>3, <2>4 DEF TraversalTypeOK, PathTable
    <2>6. PathsAtWork'
      <3>1. \A q \in Path : OnPath(q) => OnPath(q)'
        BY <1>5, <2>3
      <3>2. OnPath(current)'
        <4>1. PICK q \in Path : q = current /\ OnPath(q)
          BY <1>2
        <4>2. OnPath(q)' /\ current' = q
          BY <1>0, <3>1, <4>1
        <4> QED
          BY <4>2 DEF OnPath
      <3>3. OnPath(e)'
        BY <1>0, <1>3, <2>1, <2>3, <3>2 DEF OnPath
      <3>4. ASSUME NEW n \in 1..Len(stack') PROVE OnPath(stack[n])'
        <4>1. PICK q \in Path : q = stack'[n] /\ OnPath(q)'
          <5>1. CASE n \in 1..Len(stack)
            BY <1>2, <2>4, <3>1, <5>1 DEF PathsAtWork
          <5>2. CASE n = Len(stack) + 1
            BY <2>1, <2>4, <3>3, <5>2
          <5> QED
            BY <2>4, <5>1, <5>2
        <4> QED
          BY <4>1 DEF OnPath
      <3> QED
        BY <1>0, <3>2, <3>4 DEF PathsAtWork
    <2>7. FoundIsGranted'
      <3>1. Child[r] \in Granted(h)
        BY <1>2, <1>3, GrantedClosed DEF FoundIsGranted, OnPath
      <3> QED
        BY <1>1, <2>3, <3>1 DEF FoundIsGranted
    <2>8. DirectIsFound'
      BY <1>0, <1>4, <2>3 DEF DirectIsFound
    <2>9. GrantedIsFoundOrPending'
      <3> SUFFICES ASSUME NEW i \in Identities, NEW q \in Grants, Parent[q] \in Effective(i)'
                   PROVE  Child[q] \in Effective(i)' \/ Pending(i, q)'
        BY <1>1 DEF GrantedIsFoundOrPending
      <3>1. CASE q = r /\ i = h
        BY <2>3, <3>1
      <3>2. CASE Parent[q] \in Effective(i) /\ ~(q = r /\ i = h)
        <4>1. Child[q] \in Effective(i) \/ Pending(i, q)
          BY <3>2 DEF GrantedIsFoundOrPending
        <4>2. Pending(i, q) => Pending(i, q)'
          BY <1>0, <2>4, <3>2 DEF Pending
        <4> QED
          BY <2>3, <4>1, <4>2
      <3>3. CASE Parent[q] = Child[r] /\ i = h
        BY <2>1, <2>4, <3>3 DEF Pending
      <3> QED
        BY <2>3, <3>1, <3>2, <3>3
    <2> QED
      BY <2>5, <2>6, <2>7, <2>8, <2>9
  <1> QED
    BY <1>7, <1>8, <1>9 DEF FollowRelation
(* Every step of the evaluation, and every step that leaves it alone,      *)
(* keeps the inductive invariant.                                          *)
LEMMA EffectiveStep ==
    ASSUME EffectiveAssumption, EffectiveInv, [TraversalNext]_traversal
    PROVE  EffectiveInv'
  <1>1. ASSUME NEW a \in Assignments, StartAssignment(a) PROVE EffectiveInv'
    BY <1>1, StartPreserves
  <1>2. CASE PopPath
    BY <1>2, PopPreserves
  <1>3. ASSUME NEW r \in Relations, FollowRelation(r) PROVE EffectiveInv'
    BY <1>3, FollowPreserves
  <1>4. CASE UNCHANGED traversal
    BY <1>4 DEF traversal, EffectiveInv, TraversalTypeOK, PathsAtWork, OnPath, FoundIsGranted,
                DirectIsFound, GrantedIsFoundOrPending, Pending, Effective, Granted, Direct,
                ClosedUnderGrants, Grants
  <1> QED
    BY <1>1, <1>2, <1>3, <1>4 DEF TraversalNext

(* A table of results that grew: it has the paths it had.                  *)
Grew(P, Q) ==
    \A i \in Identities, x \in Accesses :
        /\ Recorded(P, i, x) \subseteq Recorded(Q, i, x)
        /\ Len(P[<<i, x>>]) \in Nat
        /\ Len(Q[<<i, x>>]) \in Nat
        /\ Len(Q[<<i, x>>]) >= Len(P[<<i, x>>])

(* Recording a path adds it to the paths of its holder to its end, and     *)
(* takes none away.                                                        *)
LEMMA AddPathRecords ==
    ASSUME NEW P \in PathTable, NEW p \in Path, EffectiveAssumption
    PROVE  \A i \in Identities, x \in Accesses :
              /\ Recorded(AddPath(P, p), i, x)
                   = Recorded(P, i, x)
                     \cup (IF i = Holder[p.assignment] /\ x = p.at THEN {p} ELSE {})
              /\ Len(P[<<i, x>>]) \in Nat
              /\ Len(AddPath(P, p)[<<i, x>>]) \in Nat
              /\ Len(AddPath(P, p)[<<i, x>>]) >= Len(P[<<i, x>>])
  <1> DEFINE k == <<Holder[p.assignment], p.at>>
  <1> SUFFICES ASSUME NEW i \in Identities, NEW x \in Accesses
               PROVE  /\ Recorded(AddPath(P, p), i, x)
                           = Recorded(P, i, x)
                             \cup (IF i = Holder[p.assignment] /\ x = p.at THEN {p} ELSE {})
                      /\ Len(P[<<i, x>>]) \in Nat
                      /\ Len(AddPath(P, p)[<<i, x>>]) \in Nat
                      /\ Len(AddPath(P, p)[<<i, x>>]) >= Len(P[<<i, x>>])
    OBVIOUS
  <1>1. k \in Identities \X Accesses /\ P[k] \in Seq(Path) /\ P[<<i, x>>] \in Seq(Path)
    BY DEF PathTable, Path, EffectiveAssumption
  <1>2. <<i, x>> = k <=> i = Holder[p.assignment] /\ x = p.at
    OBVIOUS
  <1>3. CASE \E n \in 1..Len(P[k]) : P[k][n] = p
    <2>1. AddPath(P, p) = P
      BY <1>3 DEF AddPath
    <2>2. Len(P[<<i, x>>]) \in Nat
      BY <1>1
    <2> HIDE DEF k
    <2>3. CASE <<i, x>> = k
      <3>1. p \in Recorded(P, i, x)
        BY <1>3, <2>3 DEF Recorded
      <3> QED
        BY <1>2, <2>1, <2>2, <2>3, <3>1
    <2>4. CASE <<i, x>> # k
      BY <1>2, <2>1, <2>2, <2>4
    <2> QED
      BY <2>3, <2>4
  <1>4. CASE ~\E n \in 1..Len(P[k]) : P[k][n] = p
    <2>1. AddPath(P, p) = [P EXCEPT ![k] = Append(P[k], p)]
      BY <1>4 DEF AddPath
    <2> HIDE DEF k
    <2>2. AddPath(P, p)[<<i, x>>] = IF <<i, x>> = k THEN Append(P[k], p) ELSE P[<<i, x>>]
      BY <1>1, <2>1 DEF PathTable
    <2>3. ASSUME NEW s \in Seq(Path)
          PROVE  /\ {Append(s, p)[n] : n \in 1..Len(Append(s, p))}
                      = {s[n] : n \in 1..Len(s)} \cup {p}
                 /\ Len(Append(s, p)) = Len(s) + 1 /\ Len(s) \in Nat
      <3>1. /\ Len(Append(s, p)) = Len(s) + 1 /\ Len(s) \in Nat
            /\ \A n \in 1..Len(s) : Append(s, p)[n] = s[n]
            /\ Append(s, p)[Len(s) + 1] = p
        OBVIOUS
      <3>2. 1..(Len(s) + 1) = 1..Len(s) \cup {Len(s) + 1}
        BY <3>1
      <3> QED
        BY <3>1, <3>2
    <2>4. CASE <<i, x>> = k
      <3>1. AddPath(P, p)[<<i, x>>] = Append(P[<<i, x>>], p)
        BY <2>2, <2>4
      <3>2. PICK s \in Seq(Path) : s = P[<<i, x>>]
        BY <1>1
      <3>3. Recorded(AddPath(P, p), i, x) = {Append(s, p)[n] : n \in 1..Len(Append(s, p))}
        BY <3>1, <3>2 DEF Recorded
      <3>4. Recorded(P, i, x) = {s[n] : n \in 1..Len(s)}
        BY <3>2 DEF Recorded
      <3>5. Recorded(AddPath(P, p), i, x) = Recorded(P, i, x) \cup {p}
        BY <2>3, <3>3, <3>4
      <3>6. /\ Len(AddPath(P, p)[<<i, x>>]) = Len(P[<<i, x>>]) + 1
            /\ Len(P[<<i, x>>]) \in Nat
        BY <2>3, <3>1, <3>2
      <3> QED
        BY <1>2, <2>4, <3>5, <3>6
    <2>5. CASE <<i, x>> # k
      BY <1>1, <1>2, <2>2, <2>5 DEF Recorded
    <2> QED
      BY <2>4, <2>5
  <1> QED
    BY <1>3, <1>4

(* What became of a path stays so while paths and diagnostics only grow.   *)
LEMMA HandledStable ==
    ASSUME EffectiveAssumption, NEW p \in Path, NEW r \in Relations,
           diagnostics \subseteq diagnostics', Handled(p, r),
           Grew(paths, paths')
    PROVE  Handled(p, r)'
  <1>1. PICK i \in Identities : i = Holder[p.assignment]
    BY HoldersAreIdentities
  <1>2. PICK x \in Accesses : x = Child[r]
    BY DEF EffectiveAssumption
  <1>3. MaxPaths \in Nat
    BY DEF EffectiveAssumption
  <1>4. CASE x \in p.chain
    BY <1>2, <1>4 DEF Handled
  <1>5. CASE Extend(p, r) \in Recorded(paths, i, x)
    <2>1. Extend(p, r) \in Recorded(paths', i, x)
      BY <1>5 DEF Grew
    <2> QED
      BY <1>1, <1>2, <2>1 DEF Handled, PathsTo
  <1>6. CASE Limited(i, x) /\ Len(paths[<<i, x>>]) >= MaxPaths
    <2>1. Limited(i, x)'
      BY <1>6 DEF Limited
    <2>2. Len(paths'[<<i, x>>]) >= MaxPaths
      BY <1>3, <1>6 DEF Grew
    <2> QED
      BY <1>1, <1>2, <2>1, <2>2 DEF Handled
  <1> QED
    BY <1>1, <1>2, <1>4, <1>5, <1>6 DEF Handled, PathsTo

(* Recorded paths are paths.                                               *)
LEMMA RecordedArePaths ==
    ASSUME paths \in PathTable, NEW i \in Identities, NEW x \in Accesses
    PROVE  Recorded(paths, i, x) \subseteq Path /\ Len(paths[<<i, x>>]) \in Nat
  <1>1. paths[<<i, x>>] \in Seq(Path)
    BY DEF PathTable
  <1> QED
    BY <1>1 DEF Recorded

(* Recording a path, in terms of the paths of each access.                 *)
LEMMA PathsGrow ==
    ASSUME EffectiveAssumption, paths \in PathTable, NEW p \in Path,
           paths' = AddPath(paths, p)
    PROVE  /\ \A i \in Identities, x \in Accesses :
                 Recorded(paths', i, x) = Recorded(paths, i, x) \cup
                    (IF i = Holder[p.assignment] /\ x = p.at THEN {p} ELSE {})
           /\ Grew(paths, paths')
  <1>1. PICK Q \in PathTable : Q = AddPath(paths, p)
    BY AddPathEffect
  <1>2. \A i \in Identities, x \in Accesses :
          /\ Recorded(Q, i, x) = Recorded(paths, i, x)
               \cup (IF i = Holder[p.assignment] /\ x = p.at THEN {p} ELSE {})
          /\ Len(paths[<<i, x>>]) \in Nat
          /\ Len(Q[<<i, x>>]) \in Nat
          /\ Len(Q[<<i, x>>]) >= Len(paths[<<i, x>>])
    <2>1. \A i \in Identities, x \in Accesses :
            /\ Recorded(AddPath(paths, p), i, x) = Recorded(paths, i, x)
                 \cup (IF i = Holder[p.assignment] /\ x = p.at THEN {p} ELSE {})
            /\ Len(paths[<<i, x>>]) \in Nat
            /\ Len(AddPath(paths, p)[<<i, x>>]) \in Nat
            /\ Len(AddPath(paths, p)[<<i, x>>]) >= Len(paths[<<i, x>>])
      BY AddPathRecords
    <2> QED
      BY <1>1, <2>1
  <1>3. Grew(paths, Q)
    BY <1>2 DEF Grew
  <1> QED
    BY <1>1, <1>2, <1>3

(* A table that stays has the paths it had.                                *)
LEMMA SameTable ==
    ASSUME paths \in PathTable, paths' = paths
    PROVE  /\ Grew(paths, paths')
           /\ \A i \in Identities, x \in Accesses :
                 /\ Recorded(paths', i, x) = Recorded(paths, i, x)
                 /\ Recorded(paths, i, x) \subseteq Path
  <1>1. \A i \in Identities, x \in Accesses :
          Recorded(paths, i, x) \subseteq Path /\ Len(paths[<<i, x>>]) \in Nat
    BY RecordedArePaths
  <1>2. \A n \in Nat : n >= n
    OBVIOUS
  <1>3. Grew(paths, paths)
    BY <1>1, <1>2 DEF Grew
  <1> QED
    BY <1>1, <1>3

(* Nothing is recorded yet.                                                *)
LEMMA PathsInit ==
    ASSUME EffectiveAssumption, TraversalInit
    PROVE  PathsInv
  <1>1. \A i \in Identities, x \in Accesses : Recorded(paths, i, x) = {}
    <2> TAKE i \in Identities, x \in Accesses
    <2>1. paths[<<i, x>>] = <<>>
      BY DEF TraversalInit
    <2> QED
      BY <2>1 DEF Recorded
  <1>2. snap.assignments \ waiting = {}
    BY DEF TraversalInit
  <1> QED
    BY <1>1, <1>2 DEF PathsInv, PathsTraced, RootsRecorded, PathsTo

(* The outer loop records the path of a direct assignment and puts it to   *)
(* work; nothing else is at work then.                                     *)
LEMMA StartTraces ==
    ASSUME EffectiveAssumption, EffectiveInv, PathsInv, NEW a \in Assignments,
           StartAssignment(a)
    PROVE  PathsInv'
  <1>0. /\ snap' = snap /\ todo' = todo /\ todo = {} /\ current' = current
        /\ stack = <<>> /\ a \in waiting /\ waiting' = waiting \ {a}
        /\ diagnostics \subseteq diagnostics'
    BY DEF StartAssignment
  <1>1. snap \in Snapshots /\ paths \in PathTable /\ snap.assignments \subseteq Assignments
    BY DEF EffectiveInv, TraversalTypeOK, PathTable, EffectiveAssumption
  <1>2. Grants' = Grants /\ Grants \subseteq Relations
    BY <1>0, <1>1, SameSnapshot DEF Grants, EffectiveAssumption
  <1>3. \A p, r : ~AtWork(p, r)
    BY <1>0 DEF AtWork
  <1>4. \A b \in Assignments : RootPath(b)' = RootPath(b)
    BY DEF RootPath
  <1>5. CASE Holds[a] \notin snap.catalog /\ paths' = paths
    <2>1. /\ Grew(paths, paths')
          /\ \A i \in Identities, x \in Accesses :
                /\ Recorded(paths', i, x) = Recorded(paths, i, x)
                /\ Recorded(paths, i, x) \subseteq Path
      BY <1>1, <1>5, SameTable
    <2>2. PathsTraced'
      <3> SUFFICES ASSUME NEW i \in Identities, NEW x \in Accesses, NEW p \in Recorded(paths', i, x)
                   PROVE  /\ p.at = x /\ Holder[p.assignment] = i /\ x \in snap'.catalog
                          /\ \A r \in GrantsFrom(x)' : AtWork(p, r)' \/ Handled(p, r)'
        BY DEF PathsTraced, PathsTo
      <3>1. p \in Recorded(paths, i, x) /\ p \in Path
        BY <2>1
      <3>2. ASSUME NEW r \in GrantsFrom(x)' PROVE Handled(p, r)'
        <4>1. r \in GrantsFrom(x) /\ r \in Relations
          BY <1>2, <3>2 DEF GrantsFrom
        <4>2. Handled(p, r)
          BY <1>3, <3>1, <4>1 DEF PathsInv, PathsTraced, PathsTo
        <4> QED
          BY <1>0, <2>1, <3>1, <4>1, <4>2, HandledStable
      <3> QED
        BY <1>0, <3>1, <3>2 DEF PathsInv, PathsTraced, PathsTo
    <2>3. RootsRecorded'
      <3> SUFFICES ASSUME NEW b \in snap.assignments, b \notin waiting \/ b = a,
                          Holds[b] \in snap.catalog
                   PROVE  RootPath(b) \in Recorded(paths', Holder[b], Holds[b])
        BY <1>0 DEF RootsRecorded, RootPath, PathsTo
      <3>1. b # a /\ Holder[b] \in Identities /\ Holds[b] \in Accesses
        BY <1>1, <1>5 DEF EffectiveAssumption
      <3>2. RootPath(b) \in Recorded(paths, Holder[b], Holds[b])
        BY <3>1 DEF PathsInv, RootsRecorded, PathsTo
      <3> QED
        BY <2>1, <3>1, <3>2
    <2> QED
      BY <2>2, <2>3 DEF PathsInv
  <1>6. CASE /\ Holds[a] \in snap.catalog
             /\ paths' = AddPath(paths, RootPath(a)) /\ stack' = <<RootPath(a)>>
    <2>1. PICK e \in Path : e = RootPath(a)
      BY PathsAreTyped
    <2>2. e.at = Holds[a] /\ e.assignment = a
      BY <2>1 DEF RootPath
    <2>3. /\ Grew(paths, paths')
          /\ \A i \in Identities, x \in Accesses :
                /\ Recorded(paths', i, x) = Recorded(paths, i, x) \cup
                      (IF i = Holder[a] /\ x = Holds[a] THEN {e} ELSE {})
                /\ Recorded(paths, i, x) \subseteq Path
      <3>1. paths' = AddPath(paths, e)
        BY <1>6, <2>1
      <3>2. \A i \in Identities, x \in Accesses : Recorded(paths, i, x) \subseteq Path
        BY <1>1, RecordedArePaths
      <3> QED
        BY <1>1, <2>2, <3>1, <3>2, PathsGrow
    <2>4. stack' = <<e>>
      BY <1>6, <2>1
    <2>5. Len(stack') = 1 /\ stack'[1] = e
      BY <2>4
    <2>6. PathsTraced'
      <3> SUFFICES ASSUME NEW i \in Identities, NEW x \in Accesses, NEW p \in Recorded(paths', i, x)
                   PROVE  /\ p.at = x /\ Holder[p.assignment] = i /\ x \in snap'.catalog
                          /\ \A r \in GrantsFrom(x)' : AtWork(p, r)' \/ Handled(p, r)'
        BY DEF PathsTraced, PathsTo
      <3>1. CASE p = e /\ i = Holder[a] /\ x = Holds[a]
        <4>1. \A r : AtWork(p, r)'
          BY <2>5, <3>1 DEF AtWork
        <4> QED
          BY <1>0, <1>6, <2>2, <3>1, <4>1
      <3>2. CASE p \in Recorded(paths, i, x)
        <4>1. p \in Path
          BY <2>3, <3>2
        <4>2. ASSUME NEW r \in GrantsFrom(x)' PROVE Handled(p, r)'
          <5>1. r \in GrantsFrom(x) /\ r \in Relations
            BY <1>2, <4>2 DEF GrantsFrom
          <5>2. Handled(p, r)
            BY <1>3, <3>2, <5>1 DEF PathsInv, PathsTraced, PathsTo
          <5> QED
            BY <1>0, <2>3, <4>1, <5>1, <5>2, HandledStable
        <4> QED
          BY <1>0, <3>2, <4>2 DEF PathsInv, PathsTraced, PathsTo
      <3> QED
        BY <2>3, <3>1, <3>2
    <2>7. RootsRecorded'
      <3> SUFFICES ASSUME NEW b \in snap.assignments, b \notin waiting \/ b = a,
                          Holds[b] \in snap.catalog
                   PROVE  RootPath(b) \in Recorded(paths', Holder[b], Holds[b])
        BY <1>0 DEF RootsRecorded, RootPath, PathsTo
      <3>1. Holder[b] \in Identities /\ Holds[b] \in Accesses
        BY <1>1 DEF EffectiveAssumption
      <3>2. b = a => RootPath(b) \in Recorded(paths', Holder[b], Holds[b])
        BY <2>1, <2>3, <3>1
      <3>3. b # a => RootPath(b) \in Recorded(paths, Holder[b], Holds[b])
        BY DEF PathsInv, RootsRecorded, PathsTo
      <3> QED
        BY <2>3, <3>1, <3>2, <3>3
    <2> QED
      BY <2>6, <2>7 DEF PathsInv
  <1> QED
    BY <1>5, <1>6 DEF StartAssignment

(* The while loop: the popped path stays at work, by its relations.        *)
LEMMA PopTraces ==
    ASSUME EffectiveAssumption, EffectiveInv, PathsInv, PopPath
    PROVE  PathsInv'
  <1> DEFINE top == stack[Len(stack)]
  <1>0. /\ snap' = snap /\ waiting' = waiting /\ paths' = paths /\ todo = {}
        /\ diagnostics' = diagnostics
        /\ stack # <<>> /\ current' = top /\ todo' = GrantsFrom(top.at)
        /\ stack' = SubSeq(stack, 1, Len(stack) - 1)
    BY DEF PopPath
  <1>1. /\ snap \in Snapshots /\ paths \in PathTable /\ stack \in Seq(Path)
        /\ snap.assignments \subseteq Assignments
    BY DEF EffectiveInv, TraversalTypeOK, PathTable, EffectiveAssumption
  <1>2. Grants' = Grants /\ Grants \subseteq Relations
    BY <1>0, <1>1, SameSnapshot DEF Grants, EffectiveAssumption
  <1>3. /\ Len(stack) \in Nat \ {0} /\ Len(stack') = Len(stack) - 1
        /\ \A n \in 1..Len(stack') : stack'[n] = stack[n]
    BY <1>0, <1>1, PopEffect
  <1>4. /\ Grew(paths, paths')
        /\ \A i \in Identities, x \in Accesses :
              /\ Recorded(paths', i, x) = Recorded(paths, i, x)
              /\ Recorded(paths, i, x) \subseteq Path
    BY <1>0, <1>1, SameTable
  <1>5. ASSUME NEW p \in Path, NEW r \in Relations, r \in GrantsFrom(p.at), AtWork(p, r)
        PROVE  AtWork(p, r)'
    <2>1. PICK n \in 1..Len(stack) : stack[n] = p
      BY <1>0, <1>5 DEF AtWork
    <2>2. CASE n = Len(stack)
      BY <1>0, <1>5, <2>1, <2>2 DEF AtWork
    <2>3. CASE n # Len(stack)
      <3>1. n \in 1..Len(stack') /\ stack'[n] = p
        BY <1>3, <2>1, <2>3
      <3> QED
        BY <3>1 DEF AtWork
    <2> QED
      BY <2>2, <2>3
  <1>6. PathsTraced'
    <2> SUFFICES ASSUME NEW i \in Identities, NEW x \in Accesses, NEW p \in Recorded(paths', i, x)
                 PROVE  /\ p.at = x /\ Holder[p.assignment] = i /\ x \in snap'.catalog
                        /\ \A r \in GrantsFrom(x)' : AtWork(p, r)' \/ Handled(p, r)'
      BY DEF PathsTraced, PathsTo
    <2>1. p \in Recorded(paths, i, x) /\ p \in Path
      BY <1>4
    <2>2. ASSUME NEW r \in GrantsFrom(x)' PROVE AtWork(p, r)' \/ Handled(p, r)'
      <3>1. r \in GrantsFrom(x) /\ r \in Relations
        BY <1>2, <2>2 DEF GrantsFrom
      <3>2. p.at = x /\ (AtWork(p, r) \/ Handled(p, r))
        BY <2>1, <3>1 DEF PathsInv, PathsTraced, PathsTo
      <3>3. CASE AtWork(p, r)
        BY <1>5, <2>1, <3>1, <3>2, <3>3
      <3>4. CASE Handled(p, r)
        BY <1>0, <1>4, <2>1, <3>1, <3>4, HandledStable
      <3> QED
        BY <3>2, <3>3, <3>4
    <2> QED
      BY <1>0, <2>1, <2>2 DEF PathsInv, PathsTraced, PathsTo
  <1>7. RootsRecorded'
    <2> SUFFICES ASSUME NEW b \in snap.assignments, b \notin waiting, Holds[b] \in snap.catalog
                 PROVE  RootPath(b) \in Recorded(paths', Holder[b], Holds[b])
      BY <1>0 DEF RootsRecorded, RootPath, PathsTo
    <2>1. Holder[b] \in Identities /\ Holds[b] \in Accesses
      BY <1>1 DEF EffectiveAssumption
    <2>2. RootPath(b) \in Recorded(paths, Holder[b], Holds[b])
      BY DEF PathsInv, RootsRecorded, PathsTo
    <2> QED
      BY <1>4, <2>1, <2>2
  <1> QED
    BY <1>6, <1>7 DEF PathsInv

(* The for loop: the relation followed is handled, for the reason the step *)
(* has, and a new path is put to work.                                     *)
LEMMA FollowTraces ==
    ASSUME EffectiveAssumption, EffectiveInv, PathsInv, NEW q \in Relations,
           FollowRelation(q)
    PROVE  PathsInv'
  <1> DEFINE h == Holder[current.assignment]
  <1>0. /\ snap' = snap /\ waiting' = waiting /\ current' = current
        /\ q \in todo /\ todo' = todo \ {q} /\ diagnostics \subseteq diagnostics'
    BY DEF FollowRelation
  <1>1. /\ snap \in Snapshots /\ paths \in PathTable /\ stack \in Seq(Path)
        /\ snap.assignments \subseteq Assignments
        /\ current \in Path /\ q \in Grants
    BY <1>0 DEF EffectiveInv, TraversalTypeOK, PathTable, EffectiveAssumption
  <1>2. /\ Grants' = Grants /\ Grants \subseteq Relations
        /\ Child[q] \in snap.catalog /\ Child[q] \in Accesses /\ h \in Identities
    BY <1>0, <1>1, SameSnapshot, HoldersAreIdentities DEF Grants, EffectiveAssumption
  <1>3. ASSUME /\ Grew(paths, paths')
               /\ \A n \in 1..Len(stack) : n \in 1..Len(stack') /\ stack'[n] = stack[n]
               /\ Handled(current, q)'
        PROVE  /\ RootsRecorded'
               /\ \A i \in Identities, x \in Accesses : \A p \in Recorded(paths, i, x) :
                     /\ p.at = x /\ Holder[p.assignment] = i /\ x \in snap'.catalog
                     /\ \A r \in GrantsFrom(x)' : AtWork(p, r)' \/ Handled(p, r)'
    <2>1. RootsRecorded'
      <3> SUFFICES ASSUME NEW b \in snap.assignments, b \notin waiting, Holds[b] \in snap.catalog
                   PROVE  RootPath(b) \in Recorded(paths', Holder[b], Holds[b])
        BY <1>0 DEF RootsRecorded, RootPath, PathsTo
      <3>1. Holder[b] \in Identities /\ Holds[b] \in Accesses
        BY <1>1 DEF EffectiveAssumption
      <3>2. RootPath(b) \in Recorded(paths, Holder[b], Holds[b])
        BY DEF PathsInv, RootsRecorded, PathsTo
      <3> QED
        BY <1>3, <3>1, <3>2 DEF Grew
    <2>2. ASSUME NEW i \in Identities, NEW x \in Accesses, NEW p \in Recorded(paths, i, x),
                 NEW r \in GrantsFrom(x)'
          PROVE  AtWork(p, r)' \/ Handled(p, r)'
      <3>1. r \in GrantsFrom(x) /\ r \in Relations /\ p \in Path
        BY <1>1, <1>2, <2>2, RecordedArePaths DEF GrantsFrom
      <3>2. AtWork(p, r) \/ Handled(p, r)
        BY <3>1 DEF PathsInv, PathsTraced, PathsTo
      <3>3. CASE Handled(p, r)
        BY <1>0, <1>3, <3>1, <3>3, HandledStable
      <3>4. CASE \E n \in 1..Len(stack) : stack[n] = p
        <4>1. \E n \in 1..Len(stack') : stack'[n] = p
          BY <1>3, <3>4
        <4> QED
          BY <4>1 DEF AtWork
      <3>5. CASE current = p /\ r \in todo /\ r # q
        BY <1>0, <3>5 DEF AtWork
      <3>6. CASE current = p /\ r = q
        <4>1. p = current'
          BY <1>0, <3>6
        <4>2. Handled(p, q)'
          BY <1>0, <1>3, <3>6 DEF Handled, Extend, PathsTo, Limited
        <4> QED
          BY <3>6, <4>2
      <3> QED
        BY <3>2, <3>3, <3>4, <3>5, <3>6 DEF AtWork
    <2>3. \A i \in Identities, x \in Accesses : \A p \in Recorded(paths, i, x) :
             p.at = x /\ Holder[p.assignment] = i /\ x \in snap'.catalog
      BY <1>0 DEF PathsInv, PathsTraced, PathsTo
    <2> QED
      BY <2>1, <2>2, <2>3
  <1>4. ASSUME paths' = paths, stack' = stack, Handled(current, q)'
        PROVE  PathsInv'
    <2>1. /\ Grew(paths, paths')
          /\ \A i \in Identities, x \in Accesses : Recorded(paths', i, x) = Recorded(paths, i, x)
      BY <1>1, <1>4, SameTable
    <2>2. \A n \in 1..Len(stack) : n \in 1..Len(stack') /\ stack'[n] = stack[n]
      BY <1>4
    <2>4. /\ RootsRecorded'
          /\ \A i \in Identities, x \in Accesses : \A p \in Recorded(paths, i, x) :
                /\ p.at = x /\ Holder[p.assignment] = i /\ x \in snap'.catalog
                /\ \A r \in GrantsFrom(x)' : AtWork(p, r)' \/ Handled(p, r)'
      BY <1>3, <1>4, <2>1, <2>2
    <2> QED
      BY <2>1, <2>4 DEF PathsInv, PathsTraced, PathsTo
  <1>5. CASE Closes(q) /\ paths' = paths /\ stack' = stack
    <2>1. Handled(current, q)'
      BY <1>0, <1>5 DEF Closes, Handled
    <2> QED
      BY <1>4, <1>5, <2>1
  <1>6. CASE /\ Full(q) /\ paths' = paths /\ stack' = stack
             /\ diagnostics' = diagnostics \cup Diagnosis("path_limit_reached", q)
    <2>1. <<"path_limit_reached", q, h, Child[q]>> \in diagnostics'
      BY <1>6 DEF Diagnosis
    <2>2. Limited(h, Child[q])'
      <3>1. PICK d \in diagnostics' : d = <<"path_limit_reached", q, h, Child[q]>>
        BY <2>1
      <3>2. d[1] = "path_limit_reached" /\ d[3] = h /\ d[4] = Child[q]
        BY <3>1
      <3> QED
        BY <1>0, <3>2 DEF Limited
    <2>3. Len(paths'[<<h, Child[q]>>]) >= MaxPaths
      BY <1>6 DEF Full
    <2>4. Handled(current, q)'
      BY <1>0, <2>2, <2>3 DEF Handled
    <2> QED
      BY <1>4, <1>6, <2>4
  <1>7. CASE /\ paths' = AddPath(paths, Extend(current, q))
             /\ stack' = Append(stack, Extend(current, q))
    <2>1. PICK e \in Path : /\ e = Extend(current, q) /\ e.at = Child[q]
                            /\ e.assignment = current.assignment
      BY <1>1, PathsAreTyped
    <2>2. paths' = AddPath(paths, e) /\ stack' = Append(stack, e)
      BY <1>7, <2>1
    <2>3. /\ Grew(paths, paths')
          /\ \A i \in Identities, x \in Accesses :
                Recorded(paths', i, x) = Recorded(paths, i, x) \cup
                      (IF i = h /\ x = Child[q] THEN {e} ELSE {})
      BY <1>1, <2>1, <2>2, PathsGrow
    <2>4. /\ Len(stack') = Len(stack) + 1 /\ Len(stack) \in Nat
          /\ \A n \in 1..Len(stack) : stack'[n] = stack[n]
          /\ stack'[Len(stack) + 1] = e
      BY <1>1, <2>2
    <2>5. \A n \in 1..Len(stack) : n \in 1..Len(stack') /\ stack'[n] = stack[n]
      BY <2>4
    <2>6. Handled(current, q)'
      <3>1. e \in Recorded(paths', h, Child[q])
        BY <1>2, <2>3
      <3> QED
        BY <1>0, <2>1, <3>1 DEF Handled, Extend, PathsTo
    <2>7. /\ RootsRecorded'
          /\ \A i \in Identities, x \in Accesses : \A p \in Recorded(paths, i, x) :
                /\ p.at = x /\ Holder[p.assignment] = i /\ x \in snap'.catalog
                /\ \A r \in GrantsFrom(x)' : AtWork(p, r)' \/ Handled(p, r)'
      BY <1>3, <2>3, <2>5, <2>6
    <2>8. ASSUME NEW p, p = e PROVE \A r : AtWork(p, r)'
      <3>1. Len(stack) + 1 \in 1..Len(stack') /\ stack'[Len(stack) + 1] = p
        BY <2>4, <2>8
      <3> QED
        BY <3>1 DEF AtWork
    <2>9. PathsTraced'
      <3> SUFFICES ASSUME NEW i \in Identities, NEW x \in Accesses, NEW p \in Recorded(paths', i, x)
                   PROVE  /\ p.at = x /\ Holder[p.assignment] = i /\ x \in snap'.catalog
                          /\ \A r \in GrantsFrom(x)' : AtWork(p, r)' \/ Handled(p, r)'
        BY DEF PathsTraced, PathsTo
      <3>1. CASE p = e /\ i = h /\ x = Child[q]
        BY <1>0, <1>2, <2>1, <2>8, <3>1
      <3>2. CASE p \in Recorded(paths, i, x)
        BY <2>7, <3>2
      <3> QED
        BY <2>3, <3>1, <3>2
    <2> QED
      BY <2>7, <2>9 DEF PathsInv
  <1> QED
    BY <1>5, <1>6, <1>7 DEF FollowRelation

(* Every step of the evaluation, and every step that leaves it alone,      *)
(* keeps the account of the recorded paths.                                *)
LEMMA PathsStep ==
    ASSUME EffectiveAssumption, EffectiveInv, PathsInv, [TraversalNext]_traversal
    PROVE  PathsInv'
  <1>1. ASSUME NEW a \in Assignments, StartAssignment(a) PROVE PathsInv'
    BY <1>1, StartTraces
  <1>2. CASE PopPath
    BY <1>2, PopTraces
  <1>3. ASSUME NEW r \in Relations, FollowRelation(r) PROVE PathsInv'
    BY <1>3, FollowTraces
  <1>4. CASE UNCHANGED traversal
    <2>1. /\ snap' = snap /\ waiting' = waiting /\ stack' = stack /\ current' = current
          /\ todo' = todo /\ paths' = paths /\ diagnostics' = diagnostics
      BY <1>4 DEF traversal
    <2>2. ASSUME NEW p, NEW r, AtWork(p, r) \/ Handled(p, r)
          PROVE  AtWork(p, r)' \/ Handled(p, r)'
      BY <2>1, <2>2 DEF AtWork, Handled, PathsTo, Limited, Extend
    <2>3. \A x : GrantsFrom(x)' = GrantsFrom(x)
      BY <2>1 DEF GrantsFrom, Grants
    <2>4. PathsTraced'
      BY <2>1, <2>2, <2>3 DEF PathsInv, PathsTraced, PathsTo
    <2>5. RootsRecorded'
      BY <2>1 DEF PathsInv, RootsRecorded, PathsTo, RootPath
    <2> QED
      BY <2>4, <2>5 DEF PathsInv
  <1> QED
    BY <1>1, <1>2, <1>3, <1>4 DEF TraversalNext

(* When the evaluation has ended nothing is at work, so every relation of  *)
(* the end of a recorded path has been handled.                            *)
LEMMA NothingLost ==
    ASSUME EffectiveAssumption, PathsInv
    PROVE  NoPathLostSilently
  <1> SUFFICES ASSUME Done, NEW i \in Identities, NEW x \in Accesses,
                      NEW p \in Recorded(paths, i, x), NEW r \in GrantsFrom(x)
               PROVE  \/ Child[r] \in p.chain
                      \/ Extend(p, r) \in Recorded(paths, i, Child[r])
                      \/ Limited(i, Child[r]) /\ Len(paths[<<i, Child[r]>>]) >= MaxPaths
    BY DEF NoPathLostSilently, PathsTo
  <1>1. ~AtWork(p, r)
    BY DEF Done, AtWork
  <1>2. Holder[p.assignment] = i /\ Handled(p, r)
    BY <1>1 DEF PathsInv, PathsTraced, PathsTo
  <1> QED
    BY <1>2 DEF Handled, PathsTo

(* When nothing is pending, what is found is closed under the relations    *)
(* and has the direct accesses: it is all that is granted.                 *)
LEMMA InvImpliesGranted ==
    ASSUME EffectiveAssumption, EffectiveInv
    PROVE  EffectiveIsGranted
  <1> SUFFICES ASSUME Done, NEW i \in Identities PROVE Effective(i) = Granted(i)
    BY DEF EffectiveIsGranted
  <1>1. Direct(i) \subseteq Effective(i)
    BY DEF Done, EffectiveInv, DirectIsFound, Direct
  <1>2. \A r \in Grants : ~Pending(i, r)
    BY DEF Done, Pending
  <1>3. ClosedUnderGrants(Effective(i))
    BY <1>2 DEF EffectiveInv, GrantedIsFoundOrPending, ClosedUnderGrants
  <1> QED
    BY <1>1, <1>3, GrantedLeast DEF EffectiveInv, FoundIsGranted

(* A step that leaves the evaluation alone leaves all comparisons alone.   *)
LEMMA SameComparison ==
    ASSUME snap' = snap, paths' = paths
    PROVE  /\ Observations' = Observations
           /\ \A golden, scope : CompareSnapshot(golden, scope)' = CompareSnapshot(golden, scope)
           /\ \A rows : Reviewable(rows)' = Reviewable(rows)
  <1>1. Observations' = Observations
    BY DEF Observations
  <1>2. \A o : ObservedStable(o)' = ObservedStable(o) /\ Alias(o)' = Alias(o)
    BY DEF ObservedStable, Alias
  <1>3. NamedOnly' = NamedOnly
    BY <1>1, <1>2 DEF NamedOnly
  <1>4. \A e : Match(e)' = Match(e)
    BY <1>1, <1>2, <1>3 DEF Match
  <1>5. \A e : Unprovable(e)' = Unprovable(e)
    BY <1>1, <1>2 DEF Unprovable
  <1>6. \A e, scope : ExpectedRow(e, scope)' = ExpectedRow(e, scope)
    <2> TAKE e, scope
    <2>1. Match(e)' = Match(e) /\ Unprovable(e)' = Unprovable(e)
      BY <1>4, <1>5
    <2>2. InAuthoritativeScope(e.access, scope)' = InAuthoritativeScope(e.access, scope)
      BY DEF InAuthoritativeScope
    <2>3. PICK m, u : m = Match(e) /\ u = Unprovable(e)
      OBVIOUS
    <2>4. m = Match(e)' /\ u = Unprovable(e)'
      BY <2>1, <2>3
    <2> QED
      BY <2>2, <2>3, <2>4 DEF ExpectedRow
  <1>7. \A golden, o : AnswersFor(golden, o)' = AnswersFor(golden, o)
    BY <1>2 DEF AnswersFor
  <1>8. \A golden, matched : ObservedRows(golden, matched)' = ObservedRows(golden, matched)
    BY <1>1, <1>7 DEF ObservedRows
  <1>9. \A golden, scope : CompareSnapshot(golden, scope)' = CompareSnapshot(golden, scope)
    BY <1>6, <1>8 DEF CompareSnapshot
  <1>10. \A rows : Reviewable(rows)' = Reviewable(rows)
    BY DEF Reviewable
  <1> QED
    BY <1>1, <1>9, <1>10

(* Once made, the comparison stays that of the finished evaluation: the    *)
(* traversal has nothing left to do and there is no second comparison.     *)
LEMMA ComparedStep ==
    ASSUME ComparedInv, [Next]_vars
    PROVE  ComparedInv'
  <1>1. CASE Compare
    <2>1. /\ Done /\ snap' = snap /\ paths' = paths /\ waiting' = waiting
          /\ stack' = stack /\ todo' = todo
      BY <1>1 DEF Compare, traversal
    <2>2. PICK golden \in Goldens, scope \in ImportScopes :
             result' = [golden |-> golden, scope |-> scope,
                        rows |-> CompareSnapshot(golden, scope),
                        reviewed |-> Reviewable(CompareSnapshot(golden, scope))]
      BY <1>1 DEF Compare
    <2>3. PICK rows : rows = CompareSnapshot(golden, scope)
      OBVIOUS
    <2>4. /\ rows = CompareSnapshot(golden, scope)'
          /\ Reviewable(rows)' = Reviewable(rows)
      BY <2>1, <2>3, SameComparison
    <2>5. result' = [golden |-> golden, scope |-> scope,
                     rows |-> CompareSnapshot(golden, scope)',
                     reviewed |-> Reviewable(CompareSnapshot(golden, scope))']
      <3>1. Reviewable(CompareSnapshot(golden, scope))' = Reviewable(rows)'
        BY <2>4 DEF Reviewable
      <3> QED
        BY <2>2, <2>3, <2>4, <3>1
    <2>6. Done'
      BY <2>1 DEF Done
    <2> QED
      BY <2>5, <2>6 DEF ComparedInv
  <1>2. CASE Traverse
    <2>1. ~Done
      BY <1>2 DEF Traverse, TraversalNext, StartAssignment, PopPath, FollowRelation, Done
    <2>2. result' = result
      BY <1>2 DEF Traverse
    <2> QED
      BY <2>1, <2>2 DEF ComparedInv, Compared
  <1>3. CASE UNCHANGED vars
    <2>1. /\ snap' = snap /\ paths' = paths /\ waiting' = waiting
          /\ stack' = stack /\ todo' = todo /\ result' = result
      BY <1>3 DEF vars, traversal
    <2> SUFFICES ASSUME Compared
                 PROVE  /\ Done'
                        /\ \E golden \in Goldens, scope \in ImportScopes :
                              result' = [golden |-> golden, scope |-> scope,
                                         rows |-> CompareSnapshot(golden, scope)',
                                         reviewed |-> Reviewable(CompareSnapshot(golden, scope))']
      BY <2>1 DEF ComparedInv, Compared
    <2>2. PICK golden \in Goldens, scope \in ImportScopes :
             result = [golden |-> golden, scope |-> scope,
                       rows |-> CompareSnapshot(golden, scope),
                       reviewed |-> Reviewable(CompareSnapshot(golden, scope))]
      BY DEF ComparedInv
    <2>3. PICK rows : rows = CompareSnapshot(golden, scope)
      OBVIOUS
    <2>4. /\ rows = CompareSnapshot(golden, scope)'
          /\ Reviewable(rows)' = Reviewable(rows)
      BY <2>1, <2>3, SameComparison
    <2>5. result' = [golden |-> golden, scope |-> scope,
                     rows |-> CompareSnapshot(golden, scope)',
                     reviewed |-> Reviewable(CompareSnapshot(golden, scope))']
      <3>1. Reviewable(CompareSnapshot(golden, scope))' = Reviewable(rows)'
        BY <2>4 DEF Reviewable
      <3> QED
        BY <2>1, <2>2, <2>3, <2>4, <3>1
    <2>6. Done'
      BY <2>1 DEF ComparedInv, Done
    <2> QED
      BY <2>5, <2>6
  <1> QED
    BY <1>1, <1>2, <1>3 DEF Next

(* The rows of a comparison: one for each expected assignment, and one for *)
(* each observation none of them is matched with or shown by.              *)
LEMMA RowsOf ==
    ASSUME NEW golden, NEW scope
    PROVE  \A r \in CompareSnapshot(golden, scope) :
              \/ golden # None /\ \E e \in golden : r = ExpectedRow(e, scope)
              \/ r.expected = {} /\ r.class \in {"no_reference", "unexpected"}
  <1> SUFFICES ASSUME NEW r \in CompareSnapshot(golden, scope)
               PROVE  \/ golden # None /\ \E e \in golden : r = ExpectedRow(e, scope)
                      \/ r.expected = {} /\ r.class \in {"no_reference", "unexpected"}
    OBVIOUS
  <1>1. PICK matched : \/ golden # None /\ \E e \in golden : r = ExpectedRow(e, scope)
                       \/ r \in ObservedRows(golden, matched)
    BY DEF CompareSnapshot
  <1>2. ASSUME r \in ObservedRows(golden, matched)
        PROVE  r.expected = {} /\ r.class \in {"no_reference", "unexpected"}
    <2>1. PICK o : r = [expected |-> {}, observed |-> {Legacy(o)}, key |-> Legacy(o),
                        class |-> IF golden = None THEN "no_reference" ELSE "unexpected"]
      BY <1>2 DEF ObservedRows
    <2> QED
      BY <2>1
  <1> QED
    BY <1>1, <1>2

(* What the row of an expected assignment says.                            *)
LEMMA ExpectedRowFields ==
    ASSUME NEW e, NEW scope
    PROVE  LET r == ExpectedRow(e, scope) IN
           /\ r.expected = {e} /\ r.observed = Match(e)
           /\ r.class = "missing" => /\ Match(e) = {} /\ ~Unprovable(e)
                                     /\ InAuthoritativeScope(e.access, scope)
           /\ Match(e) # {} => r.key \in Match(e)
  <1> DEFINE r == ExpectedRow(e, scope)
  <1>1. r.expected = {e} /\ r.observed = Match(e)
    BY DEF ExpectedRow
  <1>2. r.class = "missing" => /\ Match(e) = {} /\ ~Unprovable(e)
                               /\ InAuthoritativeScope(e.access, scope)
    BY DEF ExpectedRow
  <1>3. Match(e) # {} => r.key \in Match(e)
    <2>1. Match(e) # {} => r.key = CHOOSE k \in Match(e) : TRUE
      BY DEF ExpectedRow
    <2> QED
      BY <2>1
  <1> QED
    BY <1>1, <1>2, <1>3

(* A match is by the one observation with the stable key of the expected   *)
(* assignment, or by one without a stable key and of its names.            *)
LEMMA MatchIs ==
    ASSUME NEW e, NEW k \in Match(e)
    PROVE  \E o \in Observations :
              /\ k \in {Legacy(o)} \cup Alias(o)
              /\ \/ ObservedStable(o) = None /\ k = <<e.access, e.identity>>
                 \/ /\ ObservedStable(o) = ExpectedStable(e) /\ ExpectedStable(e) # None
                    /\ Match(e) = {k}
  <1> DEFINE same == {o \in Observations : ObservedStable(o) = ExpectedStable(e)}
  <1>1. CASE ExpectedStable(e) # None /\ Single(same)
    <2>1. PICK o \in same : same = {o}
      BY <1>1 DEF Single
    <2>2. Match(e) = {Legacy(o)}
      BY <1>1, <2>1 DEF Match
    <2> QED
      BY <1>1, <2>1, <2>2
  <1>2. CASE ~(ExpectedStable(e) # None /\ Single(same))
    <2>1. k = <<e.access, e.identity>> /\ k \in NamedOnly
      BY <1>2 DEF Match
    <2> QED
      BY <2>1 DEF NamedOnly
  <1> QED
    BY <1>1, <1>2

(* An expected assignment is never confirmed by an observation known to be *)
(* of something else.                                                      *)
LEMMA NoFalseConfirmation ==
    ASSUME ComparedInv
    PROVE  ConfirmedIsSame
  <1> SUFFICES ASSUME Compared, NEW r \in result.rows, NEW e \in r.expected,
                      NEW k \in r.observed
               PROVE  \E o \in Observations : k \in {Legacy(o)} \cup Alias(o) /\ ~Different(e, o)
    BY DEF ConfirmedIsSame
  <1>1. PICK golden \in Goldens, scope \in ImportScopes :
           result.rows = CompareSnapshot(golden, scope)
    BY DEF ComparedInv
  <1>2. PICK d : r = ExpectedRow(d, scope)
    BY <1>1, RowsOf
  <1>3. e = d /\ k \in Match(e)
    BY <1>2, ExpectedRowFields
  <1> QED
    BY <1>3, MatchIs DEF Different

(* What is reported missing was looked for where everything is listed, and *)
(* nothing shows it.                                                       *)
LEMMA NoFalseAbsence ==
    ASSUME ComparedInv
    PROVE  MissingIsAbsent
  <1> SUFFICES ASSUME Compared, NEW r \in result.rows, r.class = "missing"
               PROVE  /\ result.scope.complete
                      /\ \A e \in r.expected :
                            /\ result.scope.type = "accesses" => e.access \in result.scope.values
                            /\ result.scope.type = "providers" =>
                                  AccessProvider[e.access] \in result.scope.values
                            /\ ~Single({o \in Observations : Shows(o, e)})
                            /\ \A o \in Observations : Legacy(o) = <<e.access, e.identity>> =>
                                  Different(e, o) \/ Shows(o, e)
    BY DEF MissingIsAbsent
  <1>1. PICK golden \in Goldens, scope \in ImportScopes :
           result.rows = CompareSnapshot(golden, scope) /\ result.scope = scope
    BY DEF ComparedInv
  <1>2. PICK e : r = ExpectedRow(e, scope)
    BY <1>1, RowsOf
  <1>3. /\ r.expected = {e} /\ Match(e) = {} /\ ~Unprovable(e)
        /\ InAuthoritativeScope(e.access, scope)
    BY <1>2, ExpectedRowFields
  <1>4. ~Single({o \in Observations : Shows(o, e)})
    <2> SUFFICES ASSUME Single({o \in Observations : Shows(o, e)}) PROVE FALSE
      OBVIOUS
    <2>1. PICK o \in Observations : Shows(o, e) /\ {b \in Observations : Shows(b, e)} = {o}
      BY DEF Single
    <2>2. ExpectedStable(e) # None
      BY <2>1 DEF Shows
    <2>3. {b \in Observations : ObservedStable(b) = ExpectedStable(e)}
            = {b \in Observations : Shows(b, e)}
      BY <2>2 DEF Shows
    <2>4. Match(e) = {Legacy(b) : b \in {o}}
      BY <2>1, <2>2, <2>3 DEF Match, Single
    <2> QED
      BY <1>3, <2>4
  <1>5. ASSUME NEW o \in Observations, Legacy(o) = <<e.access, e.identity>>
        PROVE  Different(e, o) \/ Shows(o, e)
    <2> SUFFICES ASSUME ObservedStable(o) = None PROVE FALSE
      BY DEF Different, Shows
    <2>1. ExpectedStable(e) # None
      BY <1>3, <1>5 DEF Unprovable
    <2>2. <<e.access, e.identity>> \in NamedOnly
      BY <1>5 DEF NamedOnly
    <2>3. Match(e) # {}
      BY <2>2 DEF Match, Single
    <2> QED
      BY <1>3, <2>3
  <1> QED
    BY <1>1, <1>3, <1>4, <1>5 DEF InAuthoritativeScope

(* Each observation is reported, by itself or by what it shows.            *)
LEMMA NothingUnreported ==
    ASSUME ComparedInv
    PROVE  ObservedIsReported
  <1> SUFFICES ASSUME Compared, NEW o \in Observations
               PROVE  \E r \in result.rows :
                         Legacy(o) \in r.observed \/ \E e \in r.expected : Shows(o, e)
    BY DEF ObservedIsReported
  <1>1. PICK golden \in Goldens, scope \in ImportScopes :
           result.rows = CompareSnapshot(golden, scope)
    BY DEF ComparedInv
  <1> DEFINE rows == IF golden = None THEN {} ELSE {ExpectedRow(e, scope) : e \in golden}
             matched == UNION {r.observed : r \in rows}
  <1>2. result.rows = rows \cup ObservedRows(golden, matched)
    BY <1>1 DEF CompareSnapshot
  <1> HIDE DEF matched
  <1>3. CASE \E r \in rows : Legacy(o) \in r.observed
    BY <1>2, <1>3
  <1>4. CASE AnswersFor(golden, o)
    <2>1. PICK e \in golden : golden # None /\ Shows(o, e)
      BY <1>4 DEF AnswersFor, Shows
    <2>2. ExpectedRow(e, scope) \in rows /\ ExpectedRow(e, scope).expected = {e}
      BY <2>1, ExpectedRowFields
    <2> QED
      BY <1>2, <2>1, <2>2
  <1>5. CASE /\ ~\E r \in rows : Legacy(o) \in r.observed
             /\ ~AnswersFor(golden, o)
    <2>1. Legacy(o) \notin matched
      BY <1>5 DEF matched
    <2> DEFINE row == [expected |-> {}, observed |-> {Legacy(o)}, key |-> Legacy(o),
                       class |-> IF golden = None THEN "no_reference" ELSE "unexpected"]
    <2>2. row \in ObservedRows(golden, matched)
      BY <1>5, <2>1 DEF ObservedRows
    <2>3. row.observed = {Legacy(o)}
      OBVIOUS
    <2> HIDE DEF row
    <2> QED
      BY <1>2, <2>2, <2>3
  <1> QED
    BY <1>3, <1>4, <1>5

(* A stable key that native ids determine is that of one access and        *)
(* identity, so two observations that have it agree on both.               *)
LEMMA SameStableKey ==
    ASSUME ComparisonAssumption, EffectiveAssumption, EffectiveInv, KeysIdentify,
           NEW b \in Observations, NEW o \in Observations,
           ObservedStable(b) = ObservedStable(o), ObservedStable(o) # None
    PROVE  b.access = o.access /\ b.identity = o.identity
  <1>1. ASSUME NEW c \in Observations
        PROVE  c.access \in Accesses /\ c.raw \in {None, ControlNative[c.access]}
    <2>1. snap.assignments \subseteq Assignments
      BY DEF EffectiveInv, TraversalTypeOK, EffectiveAssumption
    <2>2. CASE \E a \in snap.assignments :
                  c = [access |-> Holds[a], identity |-> Holder[a], raw |-> RawNative[a],
                       origin |-> a]
      BY <2>1, <2>2 DEF ComparisonAssumption, EffectiveAssumption
    <2>3. CASE \E k \in Identities \X Accesses :
                  c = [access |-> k[2], identity |-> k[1], raw |-> None, origin |-> paths[k][1]]
      BY <2>3
    <2> QED
      BY <2>2, <2>3 DEF Observations
  <1>2. ASSUME NEW c \in Observations, ObservedStable(c) # None
        PROVE  /\ c.identity \in Known
               /\ \E m \in {ControlNative[c.access], None}, s \in {Permission[c.access], ""} :
                     ObservedStable(c) = Key(c.access, c.identity, m, s)
    <2>1. c.access \in Accesses /\ c.raw \in {None, ControlNative[c.access]}
      BY <1>1, <1>2
    <2>2. c.identity \in Known
      BY <1>2 DEF ObservedStable
    <2>3. CASE c.access \in snap.catalog
      <3>1. PICK m : m = IF c.raw # None THEN c.raw ELSE ControlNative[c.access]
        OBVIOUS
      <3>2. ObservedStable(c) = Key(c.access, c.identity, m, Permission[c.access])
        BY <2>2, <2>3, <3>1 DEF ObservedStable, Key
      <3>3. m \in {ControlNative[c.access], None}
        BY <2>1, <3>1
      <3> QED
        BY <2>2, <3>2, <3>3
    <2>4. CASE c.access \notin snap.catalog
      <3>1. ObservedStable(c) = Key(c.access, c.identity, c.raw, "")
        BY <2>2, <2>4 DEF ObservedStable, Key
      <3> QED
        BY <2>1, <2>2, <3>1
    <2> QED
      BY <2>3, <2>4
  <1>3. /\ b.identity \in Known /\ o.identity \in Known
        /\ b.access \in Accesses /\ o.access \in Accesses
    BY <1>1, <1>2
  <1>4. PICK m \in {ControlNative[b.access], None}, s \in {Permission[b.access], ""} :
           ObservedStable(b) = Key(b.access, b.identity, m, s)
    BY <1>2
  <1>5. PICK n \in {ControlNative[o.access], None}, t \in {Permission[o.access], ""} :
           ObservedStable(o) = Key(o.access, o.identity, n, t)
    BY <1>2
  <1>6. /\ Key(b.access, b.identity, m, s) = Key(o.access, o.identity, n, t)
        /\ Key(b.access, b.identity, m, s) # None
    BY <1>4, <1>5
  <1>7. PICK x \in Accesses, y \in Accesses, i \in Known, j \in Known :
           x = b.access /\ y = o.access /\ i = b.identity /\ j = o.identity
    BY <1>3
  <1>8. \A c \in {ControlNative[x], None}, d \in {ControlNative[y], None},
           u \in {Permission[x], ""}, v \in {Permission[y], ""} :
              Key(x, i, c, u) = Key(y, j, d, v) /\ Key(x, i, c, u) # None => x = y /\ i = j
    BY Zenon DEF KeysIdentify
  <1>9. /\ m \in {ControlNative[x], None} /\ n \in {ControlNative[y], None}
        /\ s \in {Permission[x], ""} /\ t \in {Permission[y], ""}
        /\ Key(x, i, m, s) = Key(y, j, n, t) /\ Key(x, i, m, s) # None
    BY <1>4, <1>5, <1>6, <1>7
  <1>10. x = y /\ i = j
    BY <1>8, <1>9, Zenon
  <1> QED
    BY <1>7, <1>10

(* An access that composite roles alone grant is held by no assignment.    *)
LEMMA OnlyDerived ==
    ASSUME EffectiveAssumption, EffectiveInv, PathsInv, Done,
           NEW i \in Identities, NEW x \in Accesses, paths[<<i, x>>] # <<>>,
           \A p \in PathsTo(i, x) : IsComposite(p)
    PROVE  /\ ~\E a \in snap.assignments : Holder[a] = i /\ Holds[a] = x
           /\ \E o \in Observations : Legacy(o) = <<x, i>>
           /\ \A b, o \in Observations : Legacy(b) = <<x, i>> /\ Legacy(o) = <<x, i>> => b = o
  <1>1. paths[<<i, x>>] \in Seq(Path)
    BY DEF EffectiveInv, TraversalTypeOK
  <1>2. paths[<<i, x>>][1] \in PathsTo(i, x)
    <2>1. ASSUME NEW s \in Seq(Path), s # <<>> PROVE 1 \in 1..Len(s)
      BY <2>1
    <2> QED
      BY <1>1, <2>1 DEF PathsTo, Recorded
  <1>3. x \in snap.catalog
    BY <1>2 DEF PathsInv, PathsTraced
  <1>4. ASSUME NEW a \in snap.assignments, Holder[a] = i, Holds[a] = x PROVE FALSE
    <2>1. RootPath(a) \in PathsTo(i, x)
      BY <1>3, <1>4 DEF PathsInv, RootsRecorded, Done
    <2>2. RootPath(a).via = <<>>
      BY DEF RootPath
    <2>3. PICK n \in 1..Len(RootPath(a).via) : TRUE
      BY <2>1 DEF IsComposite
    <2> QED
      BY <2>2, <2>3
  <1> DEFINE d == [access |-> x, identity |-> i, raw |-> None, origin |-> paths[<<i, x>>][1]]
             J == {j \in Identities \X Accesses :
                     /\ paths[j] # <<>>
                     /\ ~\E a \in snap.assignments : Holder[a] = j[1] /\ Holds[a] = j[2]
                     /\ IsComposite(paths[j][1])}
  <1>5. <<i, x>> \in J
    BY <1>2, <1>4
  <1>6. Observations =
          {[access |-> Holds[a], identity |-> Holder[a], raw |-> RawNative[a], origin |-> a] :
              a \in snap.assignments}
          \cup {[access |-> k[2], identity |-> k[1], raw |-> None, origin |-> paths[k][1]] : k \in J}
    BY DEF Observations
  <1>7. \A k \in J : k = <<k[1], k[2]>>
    OBVIOUS
  <1> HIDE DEF J
  <1>8. d \in Observations
    BY <1>5, <1>6
  <1>9. Legacy(d) = <<x, i>>
    BY DEF Legacy
  <1>10. ASSUME NEW b \in Observations, Legacy(b) = <<x, i>> PROVE b = d
    <2>1. b.access = x /\ b.identity = i
      BY <1>10 DEF Legacy
    <2>2. ASSUME NEW a \in snap.assignments,
                 b = [access |-> Holds[a], identity |-> Holder[a], raw |-> RawNative[a],
                      origin |-> a]
          PROVE  FALSE
      BY <1>4, <2>1, <2>2
    <2>3. ASSUME NEW k \in J,
                 b = [access |-> k[2], identity |-> k[1], raw |-> None, origin |-> paths[k][1]]
          PROVE  b = d
      <3>1. k = <<i, x>>
        BY <1>7, <2>1, <2>3
      <3> QED
        BY <2>3, <3>1
    <2> QED
      BY <1>6, <2>2, <2>3
  <1> HIDE DEF d
  <1> QED
    BY <1>4, <1>8, <1>9, <1>10

(* What only composite roles grant has a row of its own, and is reviewed.  *)
LEMMA GrantsAreReviewed ==
    ASSUME ComparisonAssumption, EffectiveAssumption, EffectiveInv, PathsInv, ComparedInv,
           KeysIdentify
    PROVE  CompositeGrantsReviewed
  <1> SUFFICES ASSUME Compared, NEW i \in Identities, NEW x \in Accesses \ ReviewParents,
                      paths[<<i, x>>] # <<>>, \A p \in PathsTo(i, x) : IsComposite(p)
               PROVE  \E r \in result.reviewed : r.key = <<x, i>>
    BY DEF CompositeGrantsReviewed
  <1>0. Done
    BY DEF ComparedInv
  <1>1. PICK golden \in Goldens, scope \in ImportScopes :
           /\ result.rows = CompareSnapshot(golden, scope)
           /\ result.reviewed = Reviewable(CompareSnapshot(golden, scope))
    BY DEF ComparedInv
  <1> DEFINE rows == IF golden = None THEN {} ELSE {ExpectedRow(e, scope) : e \in golden}
             matched == UNION {r.observed : r \in rows}
  <1>2. result.rows = rows \cup ObservedRows(golden, matched)
    BY <1>1 DEF CompareSnapshot
  <1>3. PICK o \in Observations : Legacy(o) = <<x, i>>
    BY <1>0, OnlyDerived
  <1>4. \A b \in Observations : Legacy(b) = <<x, i>> => b = o
    BY <1>0, <1>3, OnlyDerived
  <1>5. ASSUME NEW r \in result.rows, r.key = <<x, i>> PROVE r \in result.reviewed
    <2>1. r.key[1] = x
      BY <1>5
    <2> QED
      BY <1>1, <1>5, <2>1 DEF Reviewable, ReviewParents
  <1>6. ASSUME NEW e, golden # None, e \in golden, <<x, i>> \in Match(e)
        PROVE  \E r \in result.rows : r.key = <<x, i>>
    <2>1. \A k \in Match(e) : k = <<x, i>>
      <3>1. PICK b \in Observations :
               \/ <<x, i>> = <<e.access, e.identity>> /\ ObservedStable(b) = None
               \/ Match(e) = {<<x, i>>}
        BY <1>6, MatchIs
      <3>2. ASSUME NEW k \in Match(e), <<x, i>> = <<e.access, e.identity>> PROVE k = <<x, i>>
        <4>1. k = <<e.access, e.identity>> \/ Match(e) = {k}
          BY <3>2, MatchIs
        <4> QED
          BY <1>6, <3>2, <4>1
      <3> QED
        BY <3>1, <3>2
    <2>2. ExpectedRow(e, scope).key \in Match(e)
      BY <1>6, ExpectedRowFields
    <2>3. ExpectedRow(e, scope) \in result.rows
      BY <1>2, <1>6
    <2> QED
      BY <2>1, <2>2, <2>3
  <1>7. ASSUME NEW e, golden # None, e \in golden, ObservedStable(o) # None,
               ExpectedStable(e) = ObservedStable(o)
        PROVE  <<x, i>> \in Match(e)
    <2> DEFINE same == {b \in Observations : ObservedStable(b) = ExpectedStable(e)}
    <2>1. \A b \in same : b = o
      <3> TAKE b \in same
      <3>1. b.access = o.access /\ b.identity = o.identity
        BY <1>7, SameStableKey
      <3>2. Legacy(b) = <<x, i>>
        BY <1>3, <3>1 DEF Legacy
      <3> QED
        BY <1>4, <3>2
    <2>2. same = {o}
      BY <1>7, <2>1
    <2>3. Match(e) = {Legacy(b) : b \in {o}}
      BY <1>7, <2>2 DEF Match, Single
    <2> QED
      BY <1>3, <2>3
  <1>8. ASSUME ~\E e : golden # None /\ e \in golden /\ <<x, i>> \in Match(e)
        PROVE  \E r \in result.rows : r.key = <<x, i>>
    <2>1. <<x, i>> \notin matched
      <3> SUFFICES ASSUME NEW r \in rows, <<x, i>> \in r.observed PROVE FALSE
        OBVIOUS
      <3>1. PICK e \in golden : golden # None /\ r = ExpectedRow(e, scope)
        OBVIOUS
      <3>2. r.observed = Match(e)
        BY <3>1, ExpectedRowFields
      <3> QED
        BY <1>8, <3>1, <3>2
    <2>2. ~AnswersFor(golden, o)
      BY <1>7, <1>8 DEF AnswersFor
    <2> HIDE DEF matched
    <2> DEFINE row == [expected |-> {}, observed |-> {Legacy(o)}, key |-> Legacy(o),
                       class |-> IF golden = None THEN "no_reference" ELSE "unexpected"]
    <2>3. row \in ObservedRows(golden, matched)
      BY <1>3, <2>1, <2>2 DEF ObservedRows
    <2>4. row.key = <<x, i>>
      BY <1>3
    <2> HIDE DEF row
    <2> QED
      BY <1>2, <2>3, <2>4
  <1>9. PICK r \in result.rows : r.key = <<x, i>>
    BY <1>6, <1>8
  <1> QED
    BY <1>5, <1>9

(* The comparison leaves the evaluation it rests on untouched: seen        *)
(* through the traversal's variables, every behaviour of compare_snapshot  *)
(* is one of calculate_effective_accesses.                                 *)
THEOREM ComparisonEvaluates == Spec => TraversalSpec
  <1>1. Init => TraversalInit
    BY DEF Init
  <1>2. [Next]_vars => [TraversalNext]_traversal
    BY DEF Next, vars, Traverse, Compare, traversal
  <1> QED
    BY <1>1, <1>2, PTL DEF Spec, TraversalSpec

(* The invariant of the traversal, for every comparison.                   *)
THEOREM EvaluationInvariant == Spec => []EffectiveInv
  <1>1. TraversalInit => EffectiveInv
    BY EffectiveAssumption, EffectiveInit
  <1>2. EffectiveInv /\ [TraversalNext]_traversal => EffectiveInv'
    BY EffectiveAssumption, EffectiveStep
  <1> QED
    BY <1>1, <1>2, ComparisonEvaluates, PTL DEF TraversalSpec

(* What becomes of recorded paths, for every comparison.                   *)
THEOREM PathsInvariant == Spec => []PathsInv
  <1>1. TraversalInit => PathsInv
    BY EffectiveAssumption, PathsInit
  <1>2. EffectiveInv /\ PathsInv /\ [TraversalNext]_traversal => PathsInv'
    BY EffectiveAssumption, PathsStep
  <1> QED
    BY <1>1, <1>2, ComparisonEvaluates, EvaluationInvariant, PTL DEF TraversalSpec

(* "keep every provenance path": for every graph and limit, when the       *)
(* evaluation of effective accesses ends, a recorded path has been         *)
(* extended by every relation of its end, unless that closes a cycle or    *)
(* leads to an access that is full, and reported to be.                    *)
THEOREM PathsAreKept == Spec => []NoPathLostSilently
  <1>1. PathsInv => NoPathLostSilently
    BY EffectiveAssumption, NothingLost
  <1> QED
    BY <1>1, PathsInvariant, PTL

(* Tables of the traversal keep their types: only relations between known  *)
(* accesses are ever followed.                                             *)
THEOREM TypeCorrect == Spec => []TraversalTypeOK
  <1>1. EffectiveInv => TraversalTypeOK
    BY DEF EffectiveInv
  <1> QED
    BY <1>1, EvaluationInvariant, PTL

(* calculate_effective_accesses is sound and complete: for every relation  *)
(* graph, however cyclic, every catalog and every path limit of at least   *)
(* one, an identity ends with exactly the accesses its assignments grant.  *)
THEOREM EffectiveIsExact == Spec => []EffectiveIsGranted
  <1>1. EffectiveInv => EffectiveIsGranted
    BY EffectiveAssumption, InvImpliesGranted
  <1> QED
    BY <1>1, EvaluationInvariant, PTL

(* The comparison is that of the finished evaluation, for every golden     *)
(* version and scope of the collection.                                    *)
THEOREM ComparisonInvariant == Spec => []ComparedInv
  <1>1. Init => ComparedInv
    BY DEF Init, ComparedInv, Compared
  <1>2. ComparedInv /\ [Next]_vars => ComparedInv'
    BY ComparedStep
  <1> QED
    BY <1>1, <1>2, PTL DEF Spec

(* compare_snapshot: whatever the snapshot, the Golden Source and the      *)
(* scope, an expected assignment is confirmed only by an observation that  *)
(* is not known to be of another object.                                   *)
THEOREM ConfirmationsAreSound == Spec => []ConfirmedIsSame
  <1>1. ComparedInv => ConfirmedIsSame
    BY NoFalseConfirmation
  <1> QED
    BY <1>1, ComparisonInvariant, PTL

(* compare_snapshot: an assignment is reported missing only from a         *)
(* complete collection whose scope includes it, and only when not exactly  *)
(* one observation shows it.                                               *)
THEOREM AbsencesAreSound == Spec => []MissingIsAbsent
  <1>1. ComparedInv => MissingIsAbsent
    BY NoFalseAbsence
  <1> QED
    BY <1>1, ComparisonInvariant, PTL

(* What is observed is reported, and what only composite roles grant is    *)
(* reviewed although the roles are not, when the native ids do what they   *)
(* are for: no two accesses or identities have the same stable key.        *)
THEOREM NothingEscapes ==
    ASSUME KeysIdentify
    PROVE  Spec => []NothingEscapesReview
  <1>1. EffectiveInv /\ PathsInv /\ ComparedInv => NothingEscapesReview
    BY ComparisonAssumption, EffectiveAssumption, NothingUnreported, GrantsAreReviewed
       DEF NothingEscapesReview
  <1> QED
    BY <1>1, EvaluationInvariant, PathsInvariant, ComparisonInvariant, PTL
=============================================================================
