------------------------- MODULE GoldenSourceProofs -------------------------
(* Theorems about GoldenSource, for any number of sources, writers and     *)
(* versions.                                                               *)
EXTENDS GoldenSource, SequenceTheorems, TLAPS

LEMMA NoRequestType == NoRequest \in Request
  BY GoldenAssumption DEF NoRequest, Request, Id

(* A request that makes no version and stores none leaves the history be.  *)
LEMMA QuietStep ==
  ASSUME TablesTyped, History, NEW w \in Writers, NEW q \in Request,
         versions' = versions, issued' = issued, req' = [req EXCEPT ![w] = q],
         \/ q.pc = "idle"
         \/ q.pc = "versions" /\ q.source \in Sources /\ q.kind # "none"
         \/ /\ q.pc \in {"copy", "insert", "commit"} /\ Waiting(w)
            /\ q.version = req[w].version /\ q.source = req[w].source /\ q.kind = req[w].kind
  PROVE  History'
<1>1. /\ req'[w] = q
      /\ \A x \in Writers : x # w => req'[x] = req[x]
  BY DEF History, RequestsTyped
<1>2. \A s : VersionsOf(s)' = VersionsOf(s)
  BY DEF VersionsOf
<1>3. Waiting(w) => Holding(w) /\ req[w].pc # "idle"
  BY DEF Waiting, Holding
<1>4. RequestsTyped'
  BY <1>1, <1>3 DEF History, RequestsTyped, Holding
<1>5. VersionsContiguous' /\ NewestExists'
  BY <1>2 DEF History, VersionsContiguous, NewestExists, IsNewest
<1>6. \A x \in Writers : Holding(x)' => /\ Holding(x)
                                        /\ Waiting(x)' <=> Waiting(x)
                                        /\ req'[x].version = req[x].version
                                        /\ req'[x].source = req[x].source
  <2> TAKE x \in Writers
  <2>1. CASE x # w
    BY <2>1, <1>1 DEF Holding, Waiting
  <2>2. CASE x = w
    BY <2>2, <1>1, <1>3 DEF Holding, Waiting
  <2> QED
    BY <2>1, <2>2
<1>7. VersionIds'
  BY <1>6 DEF History, VersionIds
<1>8. PredecessorsStored'
  BY <1>6, <1>2 DEF History, PredecessorsStored
<1> QED
  BY <1>4, <1>5, <1>7, <1>8 DEF History

(* Inserting a version whose number is free makes it the newest one.       *)
LEMMA FreeNumberIsNext ==
  ASSUME TablesTyped, History, NEW w \in Writers, Waiting(w), ~NumberTaken(req[w].version)
  PROVE  \A u \in VersionsOf(req[w].source) : u.number < req[w].version.number
<1> DEFINE v == req[w].version
<1>1. /\ v \in Version /\ v.source = req[w].source
  BY DEF History, RequestsTyped, Holding, Waiting
<1> SUFFICES ASSUME NEW u \in VersionsOf(v.source), u.number >= v.number PROVE FALSE
  BY <1>1 DEF VersionsOf, TablesTyped, Version
<1>2. u \in versions /\ u.source = v.source /\ u.number \in Nat /\ v.number \in Nat \ {0}
  BY <1>1 DEF VersionsOf, TablesTyped, Version
<1>3. v.number \in 1..u.number
  BY <1>2
<1>4. \E t \in VersionsOf(v.source) : t.number = v.number
  BY <1>2, <1>3 DEF History, VersionsContiguous
<1> QED
  BY <1>4 DEF NumberTaken, VersionsOf

LEMMA InsertStep ==
  ASSUME TablesTyped, History, NEW w \in Writers, NEW q \in Request,
         NEW v, v = req[w].version, Waiting(w), ~NumberTaken(v),
         versions' = versions \cup {v}, issued' = issued,
         req' = [req EXCEPT ![w] = q],
         \/ q.pc = "idle"
         \/ /\ q.pc \in {"audit", "pointer"}
            /\ q.version = v /\ q.source = req[w].source /\ q.kind = req[w].kind
  PROVE  History' /\ IsNewest(v)'
<1>v. v = req[w].version
  OBVIOUS
<1>s. PICK s : s = req[w].source
  OBVIOUS
<1>h. Holding(w) /\ req[w].pc # "idle"
  BY DEF Waiting, Holding
<1>1. v \in Version /\ v.source = s /\ v.id <= issued /\ s \in Sources /\ v.number <= v.id
  BY <1>v, <1>s, <1>h DEF History, RequestsTyped, VersionIds
<1>2. /\ req'[w] = q
      /\ \A x \in Writers : x # w => req'[x] = req[x]
  BY DEF History, RequestsTyped
<1>3. /\ versions' = versions \cup {v}
      /\ VersionsOf(s)' = VersionsOf(s) \cup {v}
      /\ \A r : r # s => VersionsOf(r)' = VersionsOf(r)
      /\ \A r : VersionsOf(r) \subseteq VersionsOf(r)'
  BY <1>v, <1>1 DEF VersionsOf
<1>4. \A u \in VersionsOf(s) : u.number < v.number
  BY FreeNumberIsNext, <1>v, <1>s
<1>5. \A u \in versions : u.id # v.id
  BY <1>v, <1>h DEF History, VersionIds
<1>6. \A n \in 1..(v.number - 1) : \E u \in VersionsOf(s) : u.number = n
  BY <1>v, <1>s, <1>h DEF History, PredecessorsStored
<1>7. \A u \in versions : u \in Version
  BY DEF TablesTyped
<1>8. IsNewest(v)'
  BY <1>1, <1>3, <1>4, <1>7 DEF IsNewest, Version, VersionsOf
<1>9. RequestsTyped'
  BY <1>2, <1>h DEF History, RequestsTyped, Holding
<1>10. VersionsContiguous'
  <2> SUFFICES ASSUME NEW u \in versions'
               PROVE  /\ \A t \in VersionsOf(u.source)' : t.number = u.number => t = u
                      /\ \A n \in 1..u.number : \E t \in VersionsOf(u.source)' : t.number = n
    BY DEF VersionsContiguous
  <2>1. CASE u = v
    <3>1. \A t \in VersionsOf(s)' : t.number = v.number => t = v
      BY <1>1, <1>3, <1>4, <1>7 DEF VersionsOf, Version
    <3>2. \A n \in 1..v.number : n = v.number \/ n \in 1..(v.number - 1)
      BY <1>1 DEF Version
    <3>3. \A n \in 1..v.number : \E t \in VersionsOf(s)' : t.number = n
      BY <3>2, <1>6, <1>3
    <3> QED
      BY <3>1, <3>3, <2>1, <1>1
  <2>2. CASE u # v /\ u.source # s
    BY <2>2, <1>3 DEF History, VersionsContiguous
  <2>3. CASE u # v /\ u.source = s
    <3>1. u \in VersionsOf(s) /\ u \in versions
      BY <2>3, <1>3 DEF VersionsOf
    <3>2. u.number # v.number
      BY <3>1, <1>4, <1>7, <1>1 DEF Version
    <3> QED
      BY <3>1, <3>2, <1>3, <2>3 DEF History, VersionsContiguous
  <2> QED
    BY <2>1, <2>2, <2>3
<1>11. VersionIds'
  <2>1. \A x \in Writers : Holding(x)' => /\ Holding(x)
                                          /\ x # w => (Waiting(x)' <=> Waiting(x))
                                          /\ x = w => ~Waiting(x)'
                                          /\ req'[x].version = req[x].version
    BY <1>2, <1>h DEF Holding, Waiting
  <2>2. \A x \in Writers : x # w /\ Holding(x) => req[x].version.id # v.id
    BY <1>v, <1>h DEF History, VersionIds
  <2>3. \A x, y \in versions' : x.id = y.id => x = y
    BY <1>3, <1>5 DEF History, VersionIds
  <2>4. \A x \in versions' : x.number <= x.id
    BY <1>3, <1>1 DEF History, VersionIds
  <2>5. ASSUME NEW x \in Writers, Holding(x)'
        PROVE  /\ req'[x].version.number <= req'[x].version.id
               /\ Waiting(x)' => \A u \in versions' : u.id # req'[x].version.id
               /\ ~Waiting(x)' => req'[x].version \in versions'
               /\ \A y \in Writers : y # x /\ Holding(y)' =>
                     req'[y].version.id # req'[x].version.id
    BY <2>1, <2>2, <2>5, <1>3, <1>v DEF History, VersionIds
  <2> QED
    BY <2>3, <2>4, <2>5 DEF VersionIds
<1>12. PredecessorsStored'
  <2>1. \A x \in Writers : Holding(x)' => /\ Holding(x)
                                          /\ req'[x].version = req[x].version
                                          /\ req'[x].source = req[x].source
    BY <1>2, <1>h DEF Holding
  <2> QED
    BY <2>1, <1>3 DEF History, PredecessorsStored
<1>13. NewestExists'
  <2> SUFFICES ASSUME NEW r \in Sources, VersionsOf(r)' # {}
               PROVE  \E u \in VersionsOf(r)' : IsNewest(u)'
    BY DEF NewestExists
  <2>1. CASE r = s
    BY <2>1, <1>8, <1>3
  <2>2. CASE r # s
    <3>1. PICK u \in VersionsOf(r) : IsNewest(u)
      BY <2>2, <1>3 DEF History, NewestExists
    <3>2. u.source = r
      BY DEF VersionsOf
    <3> QED
      BY <3>1, <3>2, <2>2, <1>3 DEF IsNewest
  <2> QED
    BY <2>1, <2>2
<1> QED
  BY <1>8, <1>9, <1>10, <1>11, <1>12, <1>13, <1>v DEF History

(* What the reads find: the newest version seen, and the next number.      *)
LEMMA SeenVersions ==
  ASSUME TablesTyped, History, NEW q \in Request, q.source \in Sources
  PROVE  /\ Seen(q) \subseteq VersionsOf(q.source)
         /\ Seen(q) # {} => /\ Newest(Seen(q)) \in Seen(q)
                            /\ NextNumber(q) = Newest(Seen(q)).number + 1
         /\ Seen(q) = {} => NextNumber(q) = 1
<1>1. Seen(q) = {} \/ Seen(q) = VersionsOf(q.source)
  BY DEF Seen
<1>2. \A v \in VersionsOf(q.source) : v \in versions /\ v.source = q.source /\ v.id # 0
  BY DEF VersionsOf, TablesTyped, Version
<1>3. ASSUME Seen(q) # {} PROVE Newest(Seen(q)) \in Seen(q)
  <2>1. PICK v \in Seen(q) : \A u \in Seen(q) : u.number <= v.number
    BY <1>1, <1>2, <1>3 DEF History, NewestExists, IsNewest
  <2> QED
    BY <2>1 DEF Newest
<1>4. ~\E v \in Seen(q) : v.id = 0
  BY <1>1, <1>2
<1>5. Seen(q) # {} => NextNumber(q) = Newest(Seen(q)).number + 1
  BY <1>4 DEF NextNumber, ActiveOf
<1>6. Seen(q) = {} => NextNumber(q) = 1
  BY DEF NextNumber, ActiveOf, NoVersion
<1> QED
  BY <1>1, <1>3, <1>5, <1>6

LEMMA NextNumberFollows ==
  ASSUME TablesTyped, History, NEW q \in Request, q.source \in Sources
  PROVE  /\ NextNumber(q) \in 1..(issued + 1)
         /\ \A n \in 1..(NextNumber(q) - 1) : \E u \in VersionsOf(q.source) : u.number = n
<1>0. issued \in Nat
  BY GoldenAssumption DEF TablesTyped
<1>1. CASE Seen(q) = {}
  BY <1>0, <1>1, SeenVersions
<1>2. CASE Seen(q) # {}
  <2>1. PICK v \in VersionsOf(q.source) : NextNumber(q) = v.number + 1
    BY <1>2, SeenVersions
  <2>2. v \in versions /\ v.source = q.source
    BY DEF VersionsOf
  <2>3. v.number \in Nat \ {0} /\ v.id \in Nat /\ v.number <= v.id /\ v.id <= issued
    BY <2>2 DEF TablesTyped, History, VersionIds, Version
  <2>4. NextNumber(q) \in 1..(issued + 1) /\ NextNumber(q) - 1 = v.number
    BY <2>1, <2>3, <1>0
  <2> QED
    BY <2>2, <2>4 DEF History, VersionsContiguous
<1> QED
  BY <1>1, <1>2

LEMMA BaseTyped ==
  ASSUME TablesTyped, History, NEW q \in Request, q.source \in Sources
  PROVE  Base(q).id \in 0..issued /\ Base(q).content \in SUBSET Facts
<1>1. \A v \in Seen(q) : v.id \in 0..issued /\ v.content \in SUBSET Facts
  BY SeenVersions DEF VersionsOf, TablesTyped, Version
<1>2. NoVersion.id \in 0..issued /\ NoVersion.content \in SUBSET Facts
  BY GoldenAssumption DEF NoVersion, TablesTyped
<1>3. \A p : LET b == ActiveOf(p, Seen(q)) IN b = NoVersion \/ b \in Seen(q)
  BY SeenVersions DEF ActiveOf
<1> QED
  BY <1>1, <1>2, <1>3 DEF Base

ChangeTyped(x) == x.content \in SUBSET Facts /\ x.touched \in SUBSET Facts

LEMMA ChangesTyped ==
  ASSUME NEW q \in Request, q.kind # "none", NEW base, base.content \in SUBSET Facts,
         NEW x \in Changes(q, base)
  PROVE  ChangeTyped(x)
<1> DEFINE c == base.content
<1>0. Assignments \subseteq Facts /\ Definitions \subseteq Facts /\ Controls \subseteq Facts
  BY DEF Facts
<1>1. \A t, g : t \subseteq Facts /\ g \subseteq Facts => ChangeTyped(Replacing(c, t, g))
  BY DEF Replacing, Change, ChangeTyped
<1>2. \A t, g : t \subseteq Facts /\ g \subseteq Facts => ChangeTyped(Change(g, t))
  BY DEF Change, ChangeTyped
<1>3. \A F : F \subseteq Facts => \A y \in Rewritings(c, F) : ChangeTyped(y)
  BY <1>1 DEF Rewritings
<1>4. \A y : ChangeTyped(FromSnapshot(q, c, y))
  <2> TAKE y
  <2> DEFINE filled == {d \in Definitions : /\ Part[d] \in Observes(q)
                                 /\ \A e \in c \cap Definitions : Part[e] # Part[d]}
             about == {a \in Assignments : Covers[y] = {} \/ Provider[a] \in Covers[y]}
             t == about \cup Controls \cup filled
  <2>1. t \subseteq Facts
    BY <1>0
  <2>2. FromSnapshot(q, c, y) = Replacing(c, t, Shows[y] \cap t)
    BY DEF FromSnapshot
  <2> QED
    BY <2>1, <2>2, <1>1
<1>5. \A X : \A y \in SnapshotChanges(q, c, X) : ChangeTyped(y)
  BY <1>4 DEF SnapshotChanges
<1>k. q.kind \in WebKinds \cup CliKinds
  BY DEF Request
<1>6. CASE q.kind \in {"edit", "promote", "describe"}
  <2>1. ASSUME q.kind = "edit" PROVE x \in Rewritings(c, Assignments)
    BY <2>1 DEF Changes
  <2>2. ASSUME q.kind = "promote" PROVE x \in Rewritings(c, Assignments)
    BY <2>2 DEF Changes
  <2>3. ASSUME q.kind = "describe" PROVE x \in Rewritings(c, Definitions)
    BY <2>3 DEF Changes
  <2> HIDE DEF c
  <2> QED
    BY <1>6, <2>1, <2>2, <2>3, <1>3, <1>0
<1>7. CASE q.kind \in {"baseline", "confirm", "cli_promote"}
  <2>1. ASSUME q.kind \in {"baseline", "cli_promote"} PROVE x \in SnapshotChanges(q, c, Taken)
    BY <2>1 DEF Changes
  <2>2. ASSUME q.kind = "confirm" PROVE x \in SnapshotChanges(q, c, {Latest})
    BY <2>2 DEF Changes
  <2> HIDE DEF c
  <2> QED
    BY <1>7, <2>1, <2>2, <1>5
<1>8. CASE q.kind = "adopt"
  <2>1. \A y : ChangeTyped(Replacing(c, Controls, Shows[y] \cap Controls))
    BY <1>1, <1>0
  <2>2. PICK y : x = Replacing(c, Controls, Shows[y] \cap Controls)
    BY <1>8 DEF Changes
  <2> QED
    BY <2>1, <2>2
<1>9. CASE q.kind \in {"annotate", "from_scratch", "cli_import", "cli_edit"}
  <2>1. CASE q.kind = "annotate"
    <3>1. PICK a \in c \cap Assignments : x = Change(c, {a})
      BY <2>1 DEF Changes
    <3> QED
      BY <3>1, <1>2, <1>0
  <2>2. CASE q.kind = "from_scratch"
    BY <2>2, <1>2 DEF Changes
  <2>3. CASE q.kind \in {"cli_import", "cli_edit"}
    <3>1. PICK a \in SUBSET Assignments : x = Change(a, Facts)
      BY <2>3 DEF Changes
    <3> QED
      BY <3>1, <1>2, <1>0
  <2> QED
    BY <2>1, <2>2, <2>3, <1>9
<1> QED
  BY <1>6, <1>7, <1>8, <1>9, <1>k DEF WebKinds, CliKinds

(* Making a version: a fresh id, and a number all of whose predecessors    *)
(* are stored.                                                             *)
LEMMA MakeStep ==
  ASSUME TablesTyped, History, NEW w \in Writers, NEW q \in Request,
         versions' = versions, issued' = issued + 1, req' = [req EXCEPT ![w] = q],
         q.pc \in {"copy", "insert", "commit"}, q.source \in Sources, q.kind # "none",
         q.version \in Version, q.version.source = q.source, q.version.id = issued + 1,
         q.version.number <= issued + 1,
         \A n \in 1..(q.version.number - 1) : \E u \in VersionsOf(q.source) : u.number = n
  PROVE  History'
<1>0. issued \in Nat
  BY GoldenAssumption DEF TablesTyped
<1>1. /\ req'[w] = q
      /\ \A x \in Writers : x # w => req'[x] = req[x]
  BY DEF History, RequestsTyped
<1>2. \A s : VersionsOf(s)' = VersionsOf(s)
  BY DEF VersionsOf
<1>3. \A x \in Writers : x # w => (Holding(x)' <=> Holding(x)) /\ (Waiting(x)' <=> Waiting(x))
  BY <1>1 DEF Holding, Waiting
<1>4. Holding(w)' /\ Waiting(w)'
  BY <1>1 DEF Holding, Waiting
<1>5. \A x \in Writers : Holding(x) => req[x].version \in Version /\ req[x].version.id <= issued
  BY DEF History, RequestsTyped
<1>6. RequestsTyped'
  <2>1. req' \in [Writers -> Request]
    BY DEF History, RequestsTyped
  <2>2. ASSUME NEW x \in Writers, x # w
        PROVE  /\ req'[x].pc # "idle" => req'[x].source \in Sources /\ req'[x].kind # "none"
               /\ Holding(x)' => /\ req'[x].version \in Version
                                 /\ req'[x].version.source = req'[x].source
                                 /\ req'[x].version.id <= issued'
    BY <1>0, <1>1, <1>3, <2>2 DEF History, RequestsTyped, Version
  <2> QED
    BY <2>1, <2>2, <1>0, <1>1 DEF RequestsTyped
<1>7. VersionsContiguous' /\ NewestExists'
  BY <1>2 DEF History, VersionsContiguous, NewestExists, IsNewest
<1>8. VersionIds'
  <2>1. \A u \in versions : u.id # issued + 1
    BY <1>0 DEF TablesTyped, Version
  <2>2. \A x \in Writers : Holding(x) => req[x].version.id # issued + 1
    BY <1>0, <1>5 DEF Version
  <2>3. ASSUME NEW x \in Writers, Holding(x)'
        PROVE  /\ req'[x].version.number <= req'[x].version.id
               /\ Waiting(x)' => \A u \in versions : u.id # req'[x].version.id
               /\ ~Waiting(x)' => req'[x].version \in versions
               /\ \A y \in Writers : y # x /\ Holding(y)' =>
                     req'[y].version.id # req'[x].version.id
    <3>1. CASE x = w
      BY <3>1, <2>1, <2>2, <1>1, <1>3, <1>4
    <3>2. CASE x # w
      BY <3>2, <2>2, <2>3, <1>1, <1>3 DEF History, VersionIds
    <3> QED
      BY <3>1, <3>2
  <2> QED
    BY <2>3 DEF History, VersionIds
<1>9. PredecessorsStored'
  <2> SUFFICES ASSUME NEW x \in Writers, Holding(x)'
               PROVE  \A n \in 1..(req'[x].version.number - 1) :
                          \E u \in VersionsOf(req'[x].source) : u.number = n
    BY <1>2 DEF PredecessorsStored
  <2>1. CASE x = w
    BY <2>1, <1>1
  <2>2. CASE x # w
    BY <2>2, <1>1, <1>3 DEF History, PredecessorsStored
  <2> QED
    BY <2>1, <2>2
<1> QED
  BY <1>6, <1>7, <1>8, <1>9 DEF History

LEMMA ReadVersionsStep ==
  ASSUME TablesTyped, History, NEW w \in Writers, ReadVersions(w)
  PROVE  TablesTyped' /\ History'
<1> DEFINE q == req[w]
<1>1. q \in Request /\ q.pc = "versions" /\ q.source \in Sources /\ q.kind # "none"
  BY DEF History, RequestsTyped, ReadVersions
<1>2. issued \in Nat /\ MaxIds \in Nat
  BY GoldenAssumption DEF TablesTyped
<1>3. UNCHANGED <<tables, compared>>
  BY DEF ReadVersions
<1>4. CASE Finish(w) /\ UNCHANGED issued
  <2>1. TablesTyped'
    BY <1>3, <1>4 DEF TablesTyped, tables
  <2>2. versions' = versions /\ req' = [req EXCEPT ![w] = NoRequest] /\ NoRequest.pc = "idle"
    BY <1>3, <1>4 DEF tables, Finish, NoRequest
  <2> QED
    BY <2>1, <2>2, <1>4, QuietStep, NoRequestType
<1>5. CASE ~(Finish(w) /\ UNCHANGED issued)
  <2> DEFINE pc(r) == CASE r.kind \in TransactionKinds -> "commit"
                        [] r.kind \in CliKinds -> "insert"
                        [] OTHER -> "copy"
             ver(r, x) == [id |-> issued + 1, source |-> r.source, number |-> NextNumber(r),
                           parent |-> Base(r).id, content |-> x.content, touched |-> x.touched]
             com(r, x) == IF r.kind \in CliKinds THEN {}
                          ELSE {a \in x.content \cap Assignments :
                                   <<Base(r).id, a>> \in annotations}
  <2>1. PICK x \in Changes(q, Base(q)) :
           req' = [req EXCEPT ![w] = [q EXCEPT !.pc = pc(q), !.version = ver(q, x),
                                               !.comments = com(q, x)]]
    BY <1>5, Zenon DEF ReadVersions
  <2>2. issued' = issued + 1 /\ issued + 1 <= MaxIds
    BY <1>5 DEF ReadVersions
  <2>3. ChangeTyped(x)
    BY <1>1, BaseTyped, ChangesTyped
  <2>4. /\ NextNumber(q) \in 1..(issued + 1)
        /\ \A n \in 1..(NextNumber(q) - 1) : \E u \in VersionsOf(q.source) : u.number = n
    BY <1>1, NextNumberFollows
  <2>5. ver(q, x) \in Version
    <3>1. Base(q).id \in Id
      BY <1>1, <1>2, <2>2, BaseTyped DEF Id
    <3> QED
      BY <3>1, <1>1, <1>2, <2>2, <2>3, <2>4 DEF Version, ChangeTyped
  <2>6. com(q, x) \in SUBSET Assignments /\ pc(q) \in {"copy", "insert", "commit"}
    OBVIOUS
  <2>7. PICK v : v = ver(q, x) /\ v \in Version /\ v.source = q.source /\ v.id = issued + 1
                  /\ v.number = NextNumber(q)
    BY <2>5
  <2>8. PICK k : k = com(q, x) /\ k \in SUBSET Assignments
    BY <2>6
  <2>9. PICK p : p = pc(q) /\ p \in {"copy", "insert", "commit"}
    BY <2>6
  <2> HIDE DEF ver, com, pc
  <2>10. PICK r : r = [q EXCEPT !.pc = p, !.version = v, !.comments = k]
    OBVIOUS
  <2>11. /\ r \in Request /\ r.pc = p /\ r.source = q.source /\ r.kind = q.kind
         /\ r.version = v
    BY <2>7, <2>8, <2>9, <2>10, <1>1 DEF Request
  <2>12. req' = [req EXCEPT ![w] = r]
    BY <2>1, <2>7, <2>8, <2>9, <2>10
  <2>13. versions' = versions
    BY <1>3 DEF tables
  <2>14. v.number <= issued + 1
    BY <2>4, <2>7, <1>2
  <2>15. /\ r.pc \in {"copy", "insert", "commit"} /\ r.source \in Sources /\ r.kind # "none"
         /\ r.version \in Version /\ r.version.source = r.source /\ r.version.id = issued + 1
         /\ r.version.number <= issued + 1
         /\ \A n \in 1..(r.version.number - 1) : \E u \in VersionsOf(r.source) : u.number = n
    BY <2>4, <2>7, <2>9, <2>11, <2>14, <1>1
  <2>17. History'
    BY <2>2, <2>11, <2>12, <2>13, <2>15, MakeStep
  <2>16. TablesTyped'
    BY <1>2, <1>3, <2>2 DEF TablesTyped, tables, Version
  <2> QED
    BY <2>16, <2>17
<1> QED
  BY <1>4, <1>5

LEMMA Unrelated ==
  ASSUME History, UNCHANGED <<versions, issued, req>>
  PROVE  History'
<1>1. \A s : VersionsOf(s)' = VersionsOf(s)
  BY DEF VersionsOf
<1>2. \A w : (Holding(w)' <=> Holding(w)) /\ (Waiting(w)' <=> Waiting(w))
  BY DEF Holding, Waiting
<1>3. RequestsTyped'
  BY <1>2 DEF History, RequestsTyped
<1>4. VersionsContiguous' /\ NewestExists'
  BY <1>1 DEF History, VersionsContiguous, NewestExists, IsNewest
<1>5. VersionIds' /\ PredecessorsStored'
  BY <1>1, <1>2 DEF History, VersionIds, PredecessorsStored
<1> QED
  BY <1>3, <1>4, <1>5 DEF History

LEMMA TakeSnapshotTyped ==
  ASSUME TablesTyped, TakeSnapshot
  PROVE  snapshots' \in Seq(Snapshots)
<1>1. snapshots \in Seq(Snapshots) /\ Len(snapshots) \in Nat
  BY DEF TablesTyped
<1>5. PICK x \in Snapshots \ Taken, n \in {Len(snapshots), Len(snapshots) - 1} \cap Nat :
         snapshots' = SubSeq(snapshots, 1, n) \o <<x>> \o SubSeq(snapshots, n + 1, Len(snapshots))
  BY Zenon DEF TakeSnapshot
<1>2. n \in Nat /\ n <= Len(snapshots) /\ <<x>> \in Seq(Snapshots)
  BY <1>1, <1>5
<1>3. SubSeq(snapshots, 1, n) \in Seq(Snapshots)
  BY <1>1, <1>2, SubSeqProperties
<1>4. SubSeq(snapshots, n + 1, Len(snapshots)) \in Seq(Snapshots)
  BY <1>1, <1>2, SubSeqProperties
<1> QED
  BY <1>2, <1>3, <1>4, <1>5, ConcatProperties

LEMMA HistoryInit == Init => TablesTyped /\ History /\ AuditedStored
<1> SUFFICES ASSUME Init PROVE TablesTyped /\ History /\ AuditedStored
  OBVIOUS
<1>1. \A w \in Writers : req[w].pc = "idle"
  BY DEF Init, NoRequest
<1>2. TablesTyped /\ AuditedStored
  BY GoldenAssumption DEF Init, TablesTyped, AuditedStored
<1>3. RequestsTyped
  BY <1>1, NoRequestType DEF Init, RequestsTyped, Holding
<1>4. VersionsContiguous /\ VersionIds /\ PredecessorsStored /\ NewestExists
  BY <1>1 DEF Init, VersionsContiguous, VersionIds, PredecessorsStored, NewestExists,
              Holding, VersionsOf
<1> QED
  BY <1>2, <1>3, <1>4 DEF History

LEMMA HistoryStep ==
  ASSUME TablesTyped, History, AuditedStored, [Next]_vars
  PROVE  TablesTyped' /\ History' /\ AuditedStored'
<1> USE DEF tables
<1>0. issued \in Nat /\ MaxIds \in Nat
  BY GoldenAssumption DEF TablesTyped
<1>a. ASSUME versions \subseteq versions', audit' = audit PROVE AuditedStored'
  BY <1>a DEF AuditedStored
<1>w. WebWriters \subseteq Writers /\ CliWriters \subseteq Writers
  BY DEF Writers
<1>n. NoRequest.pc = "idle"
  BY DEF NoRequest
<1>f. ASSUME NEW w \in Writers, Finish(w), versions' = versions, issued' = issued
      PROVE  History'
  BY <1>f, <1>n, NoRequestType, QuietStep DEF Finish
<1>h. ASSUME NEW w \in Writers, Holding(w)
      PROVE  /\ req[w] \in Request /\ req[w].source \in Sources
             /\ req[w].version \in Version /\ req[w].version.id \in 1..issued
             /\ req[w].version.source = req[w].source
  BY <1>h, <1>0 DEF History, RequestsTyped, Holding, Version
<1>1. ASSUME TakeSnapshot PROVE TablesTyped' /\ History' /\ AuditedStored'
  <2>1. TablesTyped'
    BY <1>1, TakeSnapshotTyped DEF TakeSnapshot, TablesTyped
  <2> QED
    BY <2>1, <1>1, <1>a, Unrelated DEF TakeSnapshot
<1>2. ASSUME NEW w \in WebWriters, CompareBaseline(w)
      PROVE  TablesTyped' /\ History' /\ AuditedStored'
  <2>1. PICK s \in Sources :
           /\ VersionsOf(s) # {}
           /\ compared' = [compared EXCEPT ![w] = [version |-> Newest(VersionsOf(s)).id,
                                                   snapshot |-> Latest]]
    BY <1>2 DEF CompareBaseline
  <2>2. Newest(VersionsOf(s)) \in versions
    BY <2>1 DEF History, NewestExists, IsNewest, Newest, VersionsOf
  <2>3. Newest(VersionsOf(s)).id \in 0..issued
    BY <2>2, <1>0 DEF TablesTyped, Version
  <2>4. Latest \in Snapshots
    BY <1>2 DEF CompareBaseline, Latest, TablesTyped
  <2>5. compared' \in [WebWriters -> [version : 0..issued, snapshot : Snapshots \cup {"none"}]]
    BY <2>1, <2>3, <2>4 DEF TablesTyped
  <2>6. UNCHANGED <<tables, issued, req>>
    BY <1>2 DEF CompareBaseline
  <2> QED
    BY <2>5, <2>6, <1>a, Unrelated DEF TablesTyped
<1>3. ASSUME NEW w \in WebWriters, ReadSource(w)
      PROVE  TablesTyped' /\ History' /\ AuditedStored'
  <2>1. PICK k \in Kinds \cap WebKinds, s \in Sources :
           req' = [req EXCEPT ![w] =
                [NoRequest EXCEPT !.pc = "versions", !.kind = k, !.source = s,
                                  !.pointer = active[s], !.fresh = (s \notin rows)]]
    BY <1>3 DEF ReadSource
  <2>2. UNCHANGED <<tables, issued, compared>>
    BY <1>3 DEF ReadSource
  <2>3. active[s] \in Id
    BY <1>0 DEF TablesTyped, Id
  <2>4. PICK q : q = [NoRequest EXCEPT !.pc = "versions", !.kind = k, !.source = s,
                                       !.pointer = active[s], !.fresh = (s \notin rows)]
    OBVIOUS
  <2>5. q \in Request /\ q.pc = "versions" /\ q.source = s /\ q.kind = k
    BY <2>3, <2>4, NoRequestType DEF Request
  <2>6. k # "none"
    BY DEF WebKinds
  <2>7. History'
    BY <2>1, <2>2, <2>4, <2>5, <2>6, <1>w, QuietStep
  <2> QED
    BY <2>2, <2>7, <1>a DEF TablesTyped
<1>4. ASSUME NEW w \in CliWriters, CliReadSource(w)
      PROVE  TablesTyped' /\ History' /\ AuditedStored'
  <2>1. PICK k \in Kinds \cap CliKinds, s \in Sources :
           /\ rows' = rows \cup {s}
           /\ req' = [req EXCEPT ![w] =
                [NoRequest EXCEPT !.pc = "versions", !.kind = k, !.source = s,
                                  !.pointer = active[s]]]
    BY <1>4 DEF CliReadSource
  <2>2. UNCHANGED <<active, versions, annotations, audit, snapshots, issued, compared>>
    BY <1>4 DEF CliReadSource
  <2>3. active[s] \in Id
    BY <1>0 DEF TablesTyped, Id
  <2>4. PICK q : q = [NoRequest EXCEPT !.pc = "versions", !.kind = k, !.source = s,
                                       !.pointer = active[s]]
    OBVIOUS
  <2>5. q \in Request /\ q.pc = "versions" /\ q.source = s /\ q.kind = k
    BY <2>3, <2>4, NoRequestType DEF Request
  <2>6. k # "none"
    BY DEF CliKinds
  <2>7. History'
    BY <2>1, <2>2, <2>4, <2>5, <2>6, <1>w, QuietStep
  <2> QED
    BY <2>1, <2>2, <2>7, <1>a DEF TablesTyped
<1>5. ASSUME NEW w \in Writers, ReadVersions(w)
      PROVE  TablesTyped' /\ History' /\ AuditedStored'
  BY <1>5, <1>a, ReadVersionsStep DEF ReadVersions
<1>6. ASSUME NEW w \in WebWriters, CopyComment(w)
      PROVE  TablesTyped' /\ History' /\ AuditedStored'
  <2>1. PICK a \in req[w].comments :
           /\ annotations' = annotations \cup {<<req[w].version.id, a>>}
           /\ req' = [req EXCEPT ![w] = [req[w] EXCEPT !.comments = req[w].comments \ {a}]]
    BY <1>6 DEF CopyComment
  <2>2. UNCHANGED <<rows, active, versions, audit, snapshots, issued, compared>>
    BY <1>6 DEF CopyComment
  <2>3. req[w].pc = "copy" /\ Holding(w) /\ Waiting(w) /\ w \in Writers
    BY <1>6, <1>w DEF CopyComment, Holding, Waiting
  <2>4. PICK q : q = [req[w] EXCEPT !.comments = req[w].comments \ {a}]
    OBVIOUS
  <2>5. /\ q \in Request /\ q.pc = "copy" /\ q.version = req[w].version
        /\ q.source = req[w].source /\ q.kind = req[w].kind
    BY <2>3, <2>4, <1>h DEF Request
  <2>6. History'
    BY <2>1, <2>2, <2>3, <2>4, <2>5, QuietStep
  <2>7. a \in Assignments
    BY <2>3, <1>h DEF Request
  <2>8. annotations' \subseteq (1..issued) \X Assignments
    BY <2>1, <2>3, <2>7, <1>h DEF TablesTyped
  <2> QED
    BY <2>2, <2>6, <2>8, <1>a DEF TablesTyped
<1>7. ASSUME NEW w \in WebWriters, PointFirst(w)
      PROVE  TablesTyped' /\ History' /\ AuditedStored'
  <2>1. req[w].pc = "copy" /\ Holding(w) /\ Waiting(w) /\ w \in Writers
    BY <1>7, <1>w DEF PointFirst, Holding, Waiting
  <2>2. UNCHANGED <<versions, annotations, audit, snapshots, issued, compared>>
    BY <1>7 DEF PointFirst
  <2>3. CASE Finish(w) /\ UNCHANGED <<rows, active>>
    BY <2>1, <2>2, <2>3, <1>f, <1>a DEF TablesTyped
  <2>4. CASE /\ rows' = rows \cup {req[w].source}
             /\ active' = [active EXCEPT ![req[w].source] = req[w].version.id]
             /\ req' = [req EXCEPT ![w] = [req[w] EXCEPT !.pc = "insert"]]
    <3>1. PICK q : q = [req[w] EXCEPT !.pc = "insert"]
      OBVIOUS
    <3>2. /\ q \in Request /\ q.pc = "insert" /\ q.version = req[w].version
          /\ q.source = req[w].source /\ q.kind = req[w].kind
      BY <3>1, <2>1, <1>h DEF Request
    <3>3. History'
      BY <2>1, <2>2, <2>4, <3>1, <3>2, QuietStep
    <3>4. req[w].version.id \in 0..issued /\ req[w].source \in Sources
      BY <2>1, <1>h, <1>0
    <3>5. rows' \subseteq Sources /\ active' \in [Sources -> 0..issued]
      BY <3>4, <2>4 DEF TablesTyped
    <3> QED
      BY <3>3, <3>5, <2>2, <1>a DEF TablesTyped
  <2> QED
    BY <1>7, <2>3, <2>4 DEF PointFirst
<1>8. ASSUME NEW w \in Writers, InsertVersion(w)
      PROVE  TablesTyped' /\ History' /\ AuditedStored'
  <2>1. req[w].pc = "insert" /\ Holding(w) /\ Waiting(w)
    BY <1>8 DEF InsertVersion, Holding, Waiting
  <2>2. UNCHANGED <<rows, active, annotations, audit, snapshots, issued, compared>>
    BY <1>8 DEF InsertVersion
  <2>3. CASE Finish(w) /\ UNCHANGED versions
    BY <2>2, <2>3, <1>f, <1>a DEF TablesTyped
  <2>4. CASE /\ ~NumberTaken(req[w].version)
             /\ versions' = versions \cup {req[w].version}
             /\ req' = [req EXCEPT ![w] =
                   [req[w] EXCEPT !.pc = IF req[w].kind \in CliKinds THEN "pointer" ELSE "audit"]]
    <3>1. PICK p \in {"pointer", "audit"} : p = IF req[w].kind \in CliKinds THEN "pointer" ELSE "audit"
      OBVIOUS
    <3>2. PICK q : q = [req[w] EXCEPT !.pc = p]
      OBVIOUS
    <3>3. /\ q \in Request /\ q.pc = p /\ q.version = req[w].version
          /\ q.source = req[w].source /\ q.kind = req[w].kind
      BY <3>2, <2>1, <1>h DEF Request
    <3>4. req' = [req EXCEPT ![w] = q]
      BY <3>1, <3>2, <2>4
    <3>5. History'
      BY <2>1, <2>2, <2>4, <3>3, <3>4, InsertStep
    <3> QED
      BY <3>5, <2>1, <2>2, <2>4, <1>h, <1>a DEF TablesTyped
  <2> QED
    BY <1>8, <2>3, <2>4 DEF InsertVersion
<1>9. ASSUME NEW w \in WebWriters, RecordAudit(w)
      PROVE  TablesTyped' /\ History' /\ AuditedStored'
  <2>1. Holding(w) /\ ~Waiting(w) /\ w \in Writers
    BY <1>9, <1>w DEF RecordAudit, Holding, Waiting
  <2>2. /\ audit' = audit \cup {req[w].version.id}
        /\ Finish(w)
        /\ UNCHANGED <<rows, active, versions, annotations, snapshots, issued, compared>>
    BY <1>9 DEF RecordAudit
  <2>3. req[w].version \in versions
    BY <2>1 DEF History, VersionIds
  <2>4. AuditedStored'
    BY <2>2, <2>3 DEF AuditedStored
  <2> QED
    BY <2>1, <2>2, <2>4, <1>f, <1>h DEF TablesTyped
<1>10. ASSUME NEW w \in CliWriters, PointLast(w)
      PROVE  TablesTyped' /\ History' /\ AuditedStored'
  <2>1. Holding(w) /\ w \in Writers
    BY <1>10, <1>w DEF PointLast, Holding
  <2>2. /\ active' = [active EXCEPT ![req[w].source] = req[w].version.id]
        /\ Finish(w)
        /\ UNCHANGED <<rows, versions, annotations, audit, snapshots, issued, compared>>
    BY <1>10 DEF PointLast
  <2>3. req[w].version.id \in 0..issued /\ req[w].source \in Sources
    BY <2>1, <1>h, <1>0
  <2> QED
    BY <2>1, <2>2, <2>3, <1>f, <1>a DEF TablesTyped
<1>11. ASSUME NEW w \in WebWriters, CommitAll(w)
      PROVE  TablesTyped' /\ History' /\ AuditedStored'
  <2>1. Holding(w) /\ Waiting(w) /\ w \in Writers
    BY <1>11, <1>w DEF CommitAll, Holding, Waiting
  <2>2. Finish(w) /\ UNCHANGED <<rows, snapshots, issued, compared>>
    BY <1>11 DEF CommitAll
  <2>3. CASE UNCHANGED <<active, versions, annotations, audit>>
    BY <2>1, <2>2, <2>3, <1>f, <1>a DEF TablesTyped
  <2>4. CASE /\ ~NumberTaken(req[w].version)
             /\ \E on \in BOOLEAN :
                   annotations' = annotations \cup TransactionComments(req[w], on)
             /\ active' = [active EXCEPT ![req[w].source] = req[w].version.id]
             /\ versions' = versions \cup {req[w].version}
             /\ audit' = audit \cup {req[w].version.id}
    <3>1. History'
      BY <2>1, <2>2, <2>4, <1>n, NoRequestType, InsertStep DEF Finish
    <3>2. PICK on \in BOOLEAN : annotations' = annotations \cup TransactionComments(req[w], on)
      BY <2>4
    <3>3. req[w].version.id \in 1..issued /\ req[w].comments \subseteq Assignments
      BY <2>1, <1>h DEF Request
    <3>4. TransactionComments(req[w], on) \subseteq (1..issued) \X Assignments
      BY <3>3 DEF TransactionComments
    <3>5. req[w].version.id \in 0..issued /\ req[w].source \in Sources /\ req[w].version \in Version
      BY <2>1, <1>h, <1>0
    <3>8. active' \in [Sources -> 0..issued]
      BY <2>4, <3>5 DEF TablesTyped
    <3>9. versions' \subseteq Version /\ \A v \in versions' : v.id <= issued
      BY <2>4, <3>3, <3>5 DEF TablesTyped
    <3>10. annotations' \subseteq (1..issued) \X Assignments /\ audit' \subseteq 1..issued
      BY <2>4, <3>2, <3>3, <3>4 DEF TablesTyped
    <3>6. TablesTyped'
      BY <2>2, <3>8, <3>9, <3>10 DEF TablesTyped
    <3>7. AuditedStored'
      BY <2>4 DEF AuditedStored
    <3> QED
      BY <3>1, <3>6, <3>7
  <2> QED
    BY <1>11, <2>3, <2>4 DEF CommitAll
<1>12. ASSUME NEW w \in Writers, Fail(w)
      PROVE  TablesTyped' /\ History' /\ AuditedStored'
  <2>1. Finish(w) /\ UNCHANGED <<tables, issued, compared>>
    BY <1>12 DEF Fail
  <2> QED
    BY <2>1, <1>f, <1>a DEF TablesTyped
<1>13. CASE UNCHANGED vars
  BY <1>13, <1>a, Unrelated DEF vars, TablesTyped
<1> QED
  BY <1>1, <1>2, <1>3, <1>4, <1>5, <1>6, <1>7, <1>8, <1>9, <1>10, <1>11, <1>12, <1>13
     DEF Next, WebStep

(* Where the pointer is, without the command line: it names the newest     *)
(* version or one that is not stored.                                      *)
LEMMA PointerQuiet ==
  ASSUME PointerInv, UNCHANGED <<versions, active>>,
         \A x \in Writers : /\ req'[x].kind \notin CliKinds
                            /\ req'[x].pc = "insert" => req'[x] = req[x]
  PROVE  PointerInv'
<1>1. \A s : VersionsOf(s)' = VersionsOf(s)
  BY DEF VersionsOf
<1>2. PointsNewest'
  BY <1>1 DEF PointerInv, PointsNewest, IsNewest
<1>3. \A x \in Writers : req'[x].pc = "insert" => Pointed(x)'
  BY <1>1 DEF PointerInv, Pointed, NumberTaken
<1> QED
  BY <1>2, <1>3 DEF PointerInv

(* The pointer is set to a version that is not stored yet.                 *)
LEMMA PointerSet ==
  ASSUME PointerInv, TablesTyped, History, NEW w \in Writers, Waiting(w), NEW q \in Request,
         q.version = req[w].version, q.source = req[w].source, q.kind = req[w].kind,
         versions' = versions, req' = [req EXCEPT ![w] = q],
         active' = [active EXCEPT ![req[w].source] = req[w].version.id]
  PROVE  PointerInv'
<1>1. /\ req'[w] = q
      /\ \A x \in Writers : x # w => req'[x] = req[x]
  BY DEF History, RequestsTyped
<1>2. \A s : VersionsOf(s)' = VersionsOf(s)
  BY DEF VersionsOf
<1>h. Holding(w) /\ req[w].pc # "idle"
  BY DEF Waiting, Holding
<1>3. /\ req[w].source \in Sources
      /\ \A u \in versions : u.id # req[w].version.id /\ u.source \in Sources
  BY <1>h DEF History, RequestsTyped, VersionIds, TablesTyped, Version
<1>4. /\ active'[req[w].source] = req[w].version.id
      /\ \A s \in Sources : s # req[w].source => active'[s] = active[s]
  BY <1>3 DEF TablesTyped
<1>5. PointsNewest'
  BY <1>2, <1>3, <1>4 DEF PointerInv, PointsNewest, IsNewest
<1>6. ASSUME NEW x \in Writers, req'[x].pc = "insert" PROVE Pointed(x)'
  <2>1. CASE x = w
    BY <2>1, <1>1, <1>4 DEF Pointed
  <2>2. CASE x # w /\ req[x].source = req[w].source
    <3>1. \A u \in VersionsOf(req[w].source) : u.id # active'[req[w].source]
      BY <1>3, <1>4 DEF VersionsOf
    <3> QED
      BY <3>1, <2>2, <1>1, <1>2 DEF Pointed
  <2>3. CASE x # w /\ req[x].source # req[w].source
    <3>1. req'[x] = req[x] /\ req[x].source \in Sources /\ Pointed(x)
      BY <2>3, <1>6, <1>1 DEF PointerInv, History, RequestsTyped
    <3>2. active'[req[x].source] = active[req[x].source]
      BY <3>1, <2>3, <1>4
    <3> QED
      BY <3>1, <3>2, <1>2 DEF Pointed, NumberTaken
  <2> QED
    BY <2>1, <2>2, <2>3
<1> QED
  BY <1>1, <1>5, <1>6 DEF PointerInv

(* A version is stored: if the pointer names it, it is the newest, and any *)
(* other request for the same source will lose its number.                 *)
LEMMA PointerInsert ==
  ASSUME PointerInv, TablesTyped, History, NEW w \in Writers, Waiting(w), NEW q \in Request,
         NEW v, v = req[w].version, ~NumberTaken(v), q.pc # "insert", q.kind \notin CliKinds,
         IsNewest(v)',
         versions' = versions \cup {v}, req' = [req EXCEPT ![w] = q],
         \/ active' = [active EXCEPT ![req[w].source] = v.id]
         \/ active' = active /\ Pointed(w)
  PROVE  PointerInv'
<1>s. PICK s : s = req[w].source
  OBVIOUS
<1>h. Holding(w) /\ req[w].pc # "idle"
  BY DEF Waiting, Holding
<1>1. /\ req'[w] = q
      /\ \A x \in Writers : x # w => req'[x] = req[x]
  BY DEF History, RequestsTyped
<1>2. /\ v \in Version /\ v.source = s /\ s \in Sources
      /\ \A u \in versions : u.id # v.id /\ u.source \in Sources /\ u \in Version
  BY <1>h, <1>s DEF History, RequestsTyped, VersionIds, TablesTyped, Version
<1>3. /\ \A r \in Sources : r # s => VersionsOf(r)' = VersionsOf(r)
      /\ VersionsOf(s)' = VersionsOf(s) \cup {v}
  BY <1>2 DEF VersionsOf
<1>4. \A r \in Sources : r # s => active'[r] = active[r]
  BY <1>s, <1>2 DEF TablesTyped
<1>5. active'[s] = v.id \/ (active' = active /\ \A u \in VersionsOf(s) : u.id # active[s])
  BY <1>s, <1>2 DEF Pointed, TablesTyped
<1>6. PointsNewest'
  <2> SUFFICES ASSUME NEW u \in versions', active'[u.source] = u.id
               PROVE  IsNewest(u)'
    BY DEF PointsNewest
  <2>1. CASE u.source # s
    BY <2>1, <1>2, <1>3, <1>4 DEF PointerInv, PointsNewest, IsNewest
  <2>2. CASE u.source = s
    <3>1. u = v
      BY <2>2, <1>2, <1>5 DEF VersionsOf
    <3> QED
      BY <3>1
  <2> QED
    BY <2>1, <2>2
<1>7. ASSUME NEW x \in Writers, req'[x].pc = "insert" PROVE Pointed(x)'
  <2>1. x # w /\ req'[x] = req[x] /\ req[x].pc = "insert" /\ Pointed(x) /\ Holding(x)
    BY <1>7, <1>1 DEF PointerInv, Holding
  <2>2. /\ req[x].source \in Sources /\ req[x].version \in Version
        /\ req[x].version.source = req[x].source
    BY <2>1 DEF History, RequestsTyped
  <2>3. CASE req[x].source # s
    BY <2>1, <2>2, <2>3, <1>3, <1>4 DEF Pointed, NumberTaken
  <2>4. CASE req[x].source = s
    <3>1. CASE req[x].version.number <= v.number
      <4>1. \A n \in 1..v.number : n = v.number \/ n \in 1..(v.number - 1)
        BY <1>2 DEF Version
      <4>2. req[x].version.number \in 1..v.number
        BY <3>1, <2>2, <1>2 DEF Version
      <4>3. \E u \in VersionsOf(s)' : u.number = req[x].version.number
        BY <4>1, <4>2, <1>3, <1>s, <1>h DEF History, PredecessorsStored
      <4> QED
        BY <4>3, <2>1, <2>2, <2>4 DEF Pointed, NumberTaken, VersionsOf
    <3>2. CASE req[x].version.number > v.number
      <4>1. v.number \in 1..(req[x].version.number - 1)
        BY <3>2, <2>2, <1>2 DEF Version
      <4>2. \E u \in VersionsOf(s) : u.number = v.number
        BY <4>1, <2>1, <2>4 DEF History, PredecessorsStored
      <4> QED
        BY <4>2, <1>2 DEF NumberTaken, VersionsOf
    <3> QED
      BY <3>1, <3>2, <2>2, <1>2 DEF Version
  <2> QED
    BY <2>3, <2>4
<1> QED
  BY <1>1, <1>6, <1>7 DEF PointerInv

LEMMA PointerStep ==
  ASSUME CliWriters = {}, TablesTyped, History, PointerInv, [Next]_vars
  PROVE  PointerInv'
<1> USE DEF tables
<1>n. NoRequest.pc # "insert" /\ NoRequest.kind \notin CliKinds /\ NoRequest \in Request
  BY NoRequestType DEF NoRequest, CliKinds
<1>w. WebWriters = Writers
  BY DEF Writers
<1>r. req \in [Writers -> Request]
  BY DEF History, RequestsTyped
<1>u. ASSUME UNCHANGED <<versions, active, req>> PROVE PointerInv'
  BY <1>u, PointerQuiet DEF PointerInv
<1>f. ASSUME NEW w \in Writers, Finish(w), UNCHANGED <<versions, active>> PROVE PointerInv'
  <2>1. \A x \in Writers : req'[x] = IF x = w THEN NoRequest ELSE req[x]
    BY <1>f, <1>r DEF Finish
  <2> QED
    BY <2>1, <1>f, <1>n, PointerQuiet DEF PointerInv
<1>1. ASSUME NEW w \in Writers, ReadSource(w) PROVE PointerInv'
  <2>1. PICK k \in Kinds \cap WebKinds, s \in Sources :
           req' = [req EXCEPT ![w] =
                [NoRequest EXCEPT !.pc = "versions", !.kind = k, !.source = s,
                                  !.pointer = active[s], !.fresh = (s \notin rows)]]
    BY <1>1 DEF ReadSource
  <2>2. UNCHANGED <<versions, active>>
    BY <1>1 DEF ReadSource
  <2>3. req'[w].pc = "versions" /\ req'[w].kind = k
    BY <2>1, <1>r DEF NoRequest
  <2>4. \A x \in Writers : x # w => req'[x] = req[x]
    BY <2>1, <1>r
  <2>5. k \notin CliKinds
    BY DEF WebKinds, CliKinds
  <2> QED
    BY <2>2, <2>3, <2>4, <2>5, PointerQuiet DEF PointerInv
<1>2. ASSUME NEW w \in Writers, ReadVersions(w) PROVE PointerInv'
  <2>1. UNCHANGED <<versions, active>>
    BY <1>2 DEF ReadVersions
  <2>2. req[w].kind \notin CliKinds
    BY DEF PointerInv
  <2>3. CASE Finish(w)
    BY <2>1, <2>3, <1>f
  <2>4. CASE ~Finish(w)
    <3> DEFINE q == req[w]
               pc == CASE q.kind \in TransactionKinds -> "commit"
                       [] q.kind \in CliKinds -> "insert"
                       [] OTHER -> "copy"
               ver(x) == [id |-> issued + 1, source |-> q.source, number |-> NextNumber(q),
                          parent |-> Base(q).id, content |-> x.content, touched |-> x.touched]
               com(x) == IF q.kind \in CliKinds THEN {}
                         ELSE {a \in x.content \cap Assignments : <<Base(q).id, a>> \in annotations}
    <3>0. PICK x \in Changes(q, Base(q)) :
             req' = [req EXCEPT ![w] =
                        [q EXCEPT !.pc = pc, !.version = ver(x), !.comments = com(x)]]
      BY <1>2, <2>4, Zenon DEF ReadVersions
    <3>v. PICK v : v = ver(x)
      OBVIOUS
    <3>k. PICK k : k = com(x)
      OBVIOUS
    <3>1. req' = [req EXCEPT ![w] = [q EXCEPT !.pc = pc, !.version = v, !.comments = k]]
      BY <3>0, <3>v, <3>k, Zenon
    <3>2. PICK p \in {"commit", "copy"} : p = pc
      BY <2>2
    <3> HIDE DEF pc, ver, com
    <3>3. req' = [req EXCEPT ![w] = [req[w] EXCEPT !.pc = p, !.version = v, !.comments = k]]
      BY <3>1, <3>2
    <3>4. req[w] \in Request
      BY <1>r
    <3>5. req'[w].pc = p /\ req'[w].kind = req[w].kind
      BY <3>3, <3>4, <1>r DEF Request
    <3>6. \A z \in Writers : z # w => req'[z] = req[z]
      BY <3>3, <1>r
    <3> QED
      BY <2>1, <2>2, <3>5, <3>6, PointerQuiet DEF PointerInv
  <2> QED
    BY <2>3, <2>4
<1>3. ASSUME NEW w \in Writers, CopyComment(w) PROVE PointerInv'
  <2>1. PICK k : req' = [req EXCEPT ![w] = [req[w] EXCEPT !.comments = k]]
    BY <1>3 DEF CopyComment
  <2>2. req[w] \in Request
    BY <1>r
  <2>3. req'[w].pc = req[w].pc /\ req'[w].kind = req[w].kind /\ req[w].pc = "copy"
    BY <1>3, <2>1, <2>2, <1>r DEF CopyComment, Request
  <2>4. \A x \in Writers : x # w => req'[x] = req[x]
    BY <2>1, <1>r
  <2>5. UNCHANGED <<versions, active>>
    BY <1>3 DEF CopyComment
  <2> QED
    BY <2>3, <2>4, <2>5, PointerQuiet DEF PointerInv
<1>4. ASSUME NEW w \in Writers, PointFirst(w) PROVE PointerInv'
  <2>1. Waiting(w) /\ versions' = versions /\ req[w] \in Request
    BY <1>4, <1>r DEF PointFirst, Waiting
  <2>2. CASE Finish(w) /\ UNCHANGED <<rows, active>>
    BY <2>1, <2>2, <1>f
  <2>3. CASE /\ active' = [active EXCEPT ![req[w].source] = req[w].version.id]
             /\ req' = [req EXCEPT ![w] = [req[w] EXCEPT !.pc = "insert"]]
    <3>1. PICK q : q = [req[w] EXCEPT !.pc = "insert"]
      OBVIOUS
    <3>2. /\ q \in Request /\ q.version = req[w].version /\ q.source = req[w].source
          /\ q.kind = req[w].kind
      BY <3>1, <2>1 DEF Request
    <3> QED
      BY <2>1, <2>3, <3>1, <3>2, PointerSet
  <2> QED
    BY <1>4, <2>2, <2>3 DEF PointFirst
<1>5. ASSUME NEW w \in Writers, InsertVersion(w) PROVE PointerInv'
  <2>1. /\ Waiting(w) /\ active' = active /\ issued' = issued /\ req[w] \in Request
        /\ req[w].kind \notin CliKinds /\ Pointed(w)
    BY <1>5, <1>r DEF InsertVersion, Waiting, PointerInv
  <2>2. CASE Finish(w) /\ UNCHANGED versions
    BY <2>1, <2>2, <1>f
  <2>3. CASE /\ ~NumberTaken(req[w].version)
             /\ versions' = versions \cup {req[w].version}
             /\ req' = [req EXCEPT ![w] =
                   [req[w] EXCEPT !.pc = IF req[w].kind \in CliKinds THEN "pointer" ELSE "audit"]]
    <3>1. PICK q : q = [req[w] EXCEPT !.pc = "audit"]
      OBVIOUS
    <3>2. /\ q \in Request /\ q.pc = "audit" /\ q.version = req[w].version
          /\ q.source = req[w].source /\ q.kind = req[w].kind
      BY <3>1, <2>1 DEF Request
    <3>3. req' = [req EXCEPT ![w] = q]
      BY <2>1, <2>3, <3>1
    <3>4. PICK v : v = req[w].version
      OBVIOUS
    <3>5. IsNewest(v)'
      BY <2>1, <2>3, <3>2, <3>3, <3>4, InsertStep
    <3> QED
      BY <2>1, <2>3, <3>2, <3>3, <3>4, <3>5, PointerInsert
  <2> QED
    BY <1>5, <2>2, <2>3 DEF InsertVersion
<1>6. ASSUME NEW w \in Writers, CommitAll(w) PROVE PointerInv'
  <2>1. Waiting(w) /\ issued' = issued /\ req' = [req EXCEPT ![w] = NoRequest] /\ Finish(w)
    BY <1>6 DEF CommitAll, Waiting, Finish
  <2>2. CASE UNCHANGED <<active, versions, annotations, audit>>
    BY <2>1, <2>2, <1>f
  <2>3. CASE /\ ~NumberTaken(req[w].version)
             /\ active' = [active EXCEPT ![req[w].source] = req[w].version.id]
             /\ versions' = versions \cup {req[w].version}
    <3>1. PICK v : v = req[w].version
      OBVIOUS
    <3>2. NoRequest.pc = "idle"
      BY DEF NoRequest
    <3>3. IsNewest(v)'
      BY <2>1, <2>3, <3>1, <3>2, <1>n, InsertStep
    <3> QED
      BY <2>1, <2>3, <3>1, <3>3, <1>n, PointerInsert
  <2> QED
    BY <1>6, <2>2, <2>3 DEF CommitAll
<1>7. ASSUME NEW w \in Writers, RecordAudit(w) \/ Fail(w) PROVE PointerInv'
  BY <1>7, <1>f DEF RecordAudit, Fail
<1>8. ASSUME NEW w \in Writers, CompareBaseline(w) PROVE PointerInv'
  BY <1>8, <1>u DEF CompareBaseline
<1>9. ASSUME TakeSnapshot PROVE PointerInv'
  BY <1>9, <1>u DEF TakeSnapshot
<1>10. CASE UNCHANGED vars
  BY <1>10, <1>u DEF vars
<1> QED
  BY <1>1, <1>2, <1>3, <1>4, <1>5, <1>6, <1>7, <1>8, <1>9, <1>10, <1>w DEF Next, WebStep

(* The invariant says what everyone reads: the version the pointer names   *)
(* is the newest, and when it names none the newest is taken.              *)
LEMMA PointerImplies ==
  ASSUME TablesTyped, History, PointsNewest
  PROVE  ActiveIsNewest
<1> SUFFICES ASSUME NEW s \in Sources, VersionsOf(s) # {}
             PROVE  ActiveOf(active[s], VersionsOf(s)) = Newest(VersionsOf(s))
  BY DEF ActiveIsNewest
<1> DEFINE V == VersionsOf(s)
<1>1. CASE ~\E v \in V : v.id = active[s]
  BY <1>1 DEF ActiveOf
<1>2. CASE \E v \in V : v.id = active[s]
  <2>1. PICK v \in V : v.id = active[s]
    BY <1>2
  <2>2. \A u \in V : u \in versions /\ u.source = s /\ u.number \in Nat
    BY DEF VersionsOf, TablesTyped, Version
  <2>3. \A u \in V : u.id = active[s] => u = v
    BY <2>1, <2>2 DEF History, VersionIds
  <2>4. ActiveOf(active[s], V) = v
    BY <2>1, <2>3, <1>2 DEF ActiveOf
  <2>5. \A u \in V : u.number <= v.number
    BY <2>1, <2>2 DEF PointsNewest, IsNewest
  <2>6. \A u \in V : (\A t \in V : t.number <= u.number) => u = v
    <3> TAKE u \in V
    <3> HAVE \A t \in V : t.number <= u.number
    <3>1. u.number = v.number
      BY <2>2, <2>5
    <3> QED
      BY <3>1, <2>2 DEF History, VersionsContiguous
  <2>7. Newest(V) = v
    BY <2>5, <2>6 DEF Newest
  <2> QED
    BY <2>4, <2>7
<1> QED
  BY <1>1, <1>2
-----------------------------------------------------------------------------
(* What a step does to versions, comments and requests, as the proofs      *)
(* below need it: it leaves them alone, ends or begins a request, advances *)
(* one that holds its version, makes a version or stores it.               *)

Ends(w, q) ==
    /\ q.pc \in {"idle", "versions"} /\ q.version = NoVersion
    /\ q.kind \in Kinds \cup {"none"}
    /\ UNCHANGED <<versions, annotations, compared>>

Advances(w, q) ==
    /\ req[w].pc = "copy"
    /\ q.version = req[w].version /\ q.kind = req[w].kind
    /\ \/ /\ q.pc = "copy"
          /\ \E a \in req[w].comments :
                /\ q.comments = req[w].comments \ {a}
                /\ annotations' = annotations \cup {<<req[w].version.id, a>>}
       \/ /\ q.pc = "insert" /\ q.comments = {} /\ req[w].comments = {}
          /\ UNCHANGED annotations
    /\ UNCHANGED <<versions, compared>>

Makes(w, q) ==
    LET base == Base(req[w]) IN
    /\ req[w].pc = "versions" /\ Admissible(w, req[w], base)
    /\ q.kind = req[w].kind
    /\ q.pc \in {"copy", "insert", "commit"} /\ (q.pc = "insert" => q.kind \in CliKinds)
    /\ \E x \in Changes(req[w], base) :
          /\ q.version = [id |-> issued + 1, source |-> req[w].source,
                number |-> NextNumber(req[w]), parent |-> base.id,
                content |-> x.content, touched |-> x.touched]
          /\ q.comments = IF q.kind \in CliKinds THEN {}
                ELSE {a \in x.content \cap Assignments : <<base.id, a>> \in annotations}
    /\ UNCHANGED <<versions, annotations, compared>>

Stores(w, q) ==
    /\ versions' = versions \cup {req[w].version}
    /\ q.kind \in {req[w].kind, "none"}
    /\ \/ /\ req[w].pc = "insert" /\ q.pc \in {"audit", "pointer"}
          /\ q.version = req[w].version
          /\ UNCHANGED annotations
       \/ /\ req[w].pc = "commit" /\ q.pc = "idle" /\ q.version = NoVersion
          /\ \E on \in BOOLEAN : annotations' = annotations \cup TransactionComments(req[w], on)
    /\ UNCHANGED compared

Unconcerned ==
    /\ UNCHANGED <<versions, annotations, req>>
    /\ \A w \in WebWriters : compared'[w] = compared[w] \/ req[w] = NoRequest

LEMMA Shapes ==
  ASSUME TablesTyped, History, [Next]_vars
  PROVE  \/ Unconcerned
         \/ \E w \in Writers, q \in Request :
               /\ req' = [req EXCEPT ![w] = q]
               /\ Ends(w, q) \/ Advances(w, q) \/ Makes(w, q) \/ Stores(w, q)
<1> DEFINE Goal == \/ Unconcerned
                   \/ \E w \in Writers, q \in Request :
                         /\ req' = [req EXCEPT ![w] = q]
                         /\ Ends(w, q) \/ Advances(w, q) \/ Makes(w, q) \/ Stores(w, q)
<1> USE DEF tables
<1>w. WebWriters \subseteq Writers /\ CliWriters \subseteq Writers
  BY DEF Writers
<1>q. \A w \in Writers : req[w] \in Request
  BY DEF History, RequestsTyped
<1>g. ASSUME NEW w \in Writers, NEW q \in Request, req' = [req EXCEPT ![w] = q],
             Ends(w, q) \/ Advances(w, q) \/ Makes(w, q) \/ Stores(w, q)
      PROVE  Goal
  BY <1>g
<1>f. ASSUME NEW w \in Writers, Finish(w), UNCHANGED <<versions, annotations, compared>>
      PROVE  Goal
  <2>1. /\ NoRequest \in Request /\ NoRequest.pc = "idle" /\ NoRequest.version = NoVersion
        /\ NoRequest.kind = "none"
    BY NoRequestType DEF NoRequest
  <2>2. req' = [req EXCEPT ![w] = NoRequest] /\ Ends(w, NoRequest)
    BY <2>1, <1>f DEF Ends, Finish
  <2> QED
    BY <2>1, <2>2, <1>g
<1>u. ASSUME UNCHANGED <<versions, annotations, compared, req>> PROVE Goal
  BY <1>u DEF Unconcerned
<1> HIDE DEF Goal
<1>1. ASSUME TakeSnapshot PROVE Goal
  BY <1>1, <1>u DEF TakeSnapshot
<1>2. ASSUME NEW w \in WebWriters, CompareBaseline(w) PROVE Goal
  <2>1. \A x \in WebWriters : compared'[x] = compared[x] \/ req[x] = NoRequest
    BY <1>2 DEF CompareBaseline, TablesTyped
  <2>2. Unconcerned
    BY <2>1, <1>2 DEF CompareBaseline, Unconcerned
  <2> QED
    BY <2>2 DEF Goal
<1>3. ASSUME NEW w \in WebWriters, ReadSource(w) PROVE Goal
  <2>1. PICK k \in Kinds \cap WebKinds, s \in Sources :
           req' = [req EXCEPT ![w] =
                [NoRequest EXCEPT !.pc = "versions", !.kind = k, !.source = s,
                                  !.pointer = active[s], !.fresh = (s \notin rows)]]
    BY <1>3 DEF ReadSource
  <2>2. PICK q : q = [NoRequest EXCEPT !.pc = "versions", !.kind = k, !.source = s,
                                       !.pointer = active[s], !.fresh = (s \notin rows)]
    OBVIOUS
  <2>3. active[s] \in Id
    BY GoldenAssumption DEF TablesTyped, Id
  <2>4. q \in Request
    BY <2>2, <2>3, NoRequestType DEF Request
  <2>5. q.pc = "versions" /\ q.version = NoVersion /\ q.kind = k
    BY <2>2 DEF NoRequest
  <2>6. Ends(w, q)
    BY <2>5, <1>3 DEF Ends, ReadSource
  <2> QED
    BY <2>1, <2>2, <2>4, <2>6, <1>g, <1>w
<1>4. ASSUME NEW w \in CliWriters, CliReadSource(w) PROVE Goal
  <2>1. PICK k \in Kinds \cap CliKinds, s \in Sources :
           req' = [req EXCEPT ![w] =
                [NoRequest EXCEPT !.pc = "versions", !.kind = k, !.source = s,
                                  !.pointer = active[s]]]
    BY <1>4 DEF CliReadSource
  <2>2. PICK q : q = [NoRequest EXCEPT !.pc = "versions", !.kind = k, !.source = s,
                                       !.pointer = active[s]]
    OBVIOUS
  <2>3. active[s] \in Id
    BY GoldenAssumption DEF TablesTyped, Id
  <2>4. q \in Request
    BY <2>2, <2>3, NoRequestType DEF Request
  <2>5. q.pc = "versions" /\ q.version = NoVersion /\ q.kind = k
    BY <2>2 DEF NoRequest
  <2>6. Ends(w, q)
    BY <2>5, <1>4 DEF Ends, CliReadSource
  <2> QED
    BY <2>1, <2>2, <2>4, <2>6, <1>g, <1>w
<1>5. ASSUME NEW w \in Writers, ReadVersions(w) PROVE Goal
  <2>1. CASE Finish(w)
    BY <2>1, <1>5, <1>f DEF ReadVersions
  <2>2. CASE ~Finish(w)
    <3> DEFINE r == req[w]
               pc == CASE r.kind \in TransactionKinds -> "commit"
                       [] r.kind \in CliKinds -> "insert"
                       [] OTHER -> "copy"
               ver(x) == [id |-> issued + 1, source |-> r.source, number |-> NextNumber(r),
                          parent |-> Base(r).id, content |-> x.content, touched |-> x.touched]
               com(x) == IF r.kind \in CliKinds THEN {}
                         ELSE {a \in x.content \cap Assignments : <<Base(r).id, a>> \in annotations}
    <3>1. PICK x \in Changes(r, Base(r)) :
             req' = [req EXCEPT ![w] =
                        [r EXCEPT !.pc = pc, !.version = ver(x), !.comments = com(x)]]
      BY <1>5, <2>2, Zenon DEF ReadVersions
    <3>2. PICK q : q = [r EXCEPT !.pc = pc, !.version = ver(x), !.comments = com(x)]
      OBVIOUS
    <3>3. r.pc = "versions" /\ Admissible(w, r, Base(r))
          /\ UNCHANGED <<versions, annotations, compared>>
      BY <1>5, <2>2, Zenon DEF ReadVersions
    <3>4. pc \in {"copy", "insert", "commit"} /\ (pc = "insert" => r.kind \in CliKinds)
      OBVIOUS
    <3> HIDE DEF pc, ver, com
    <3>5. q.pc = pc /\ q.kind = r.kind /\ q.version = ver(x) /\ q.comments = com(x)
      BY <3>2, <1>q DEF Request
    <3>6. req' = [req EXCEPT ![w] = q]
      BY <3>1, <3>2
    <3>7. req' \in [Writers -> Request]
      BY <1>5, ReadVersionsStep DEF History, RequestsTyped
    <3>8. q \in Request
      <4>1. req'[w] = q
        BY <3>6 DEF History, RequestsTyped
      <4> QED
        BY <4>1, <3>7
    <3>9. Makes(w, q)
      BY <3>3, <3>4, <3>5 DEF Makes, ver, com
    <3> QED
      BY <3>6, <3>8, <3>9, <1>g
  <2> QED
    BY <2>1, <2>2
<1>6. ASSUME NEW w \in WebWriters, CopyComment(w) PROVE Goal
  <2>1. PICK a \in req[w].comments :
           /\ annotations' = annotations \cup {<<req[w].version.id, a>>}
           /\ req' = [req EXCEPT ![w] = [req[w] EXCEPT !.comments = req[w].comments \ {a}]]
    BY <1>6 DEF CopyComment
  <2>2. PICK q : q = [req[w] EXCEPT !.comments = req[w].comments \ {a}]
    OBVIOUS
  <2>3. req[w].pc = "copy" /\ UNCHANGED <<versions, compared>>
    BY <1>6 DEF CopyComment
  <2>4. /\ q \in Request /\ q.pc = "copy" /\ q.version = req[w].version
        /\ q.kind = req[w].kind /\ q.comments = req[w].comments \ {a}
    BY <2>2, <2>3, <1>q, <1>w DEF Request
  <2>5. Advances(w, q)
    BY <2>1, <2>3, <2>4 DEF Advances
  <2> QED
    BY <2>1, <2>2, <2>4, <2>5, <1>g, <1>w
<1>7. ASSUME NEW w \in WebWriters, PointFirst(w) PROVE Goal
  <2>1. /\ req[w].pc = "copy" /\ req[w].comments = {}
        /\ UNCHANGED <<versions, annotations, compared>>
    BY <1>7 DEF PointFirst
  <2>2. CASE Finish(w)
    BY <2>1, <2>2, <1>f, <1>w
  <2>3. CASE req' = [req EXCEPT ![w] = [req[w] EXCEPT !.pc = "insert"]]
    <3>1. PICK q : q = [req[w] EXCEPT !.pc = "insert"]
      OBVIOUS
    <3>2. /\ q \in Request /\ q.pc = "insert" /\ q.version = req[w].version
          /\ q.kind = req[w].kind /\ q.comments = req[w].comments
      BY <3>1, <1>q, <1>w DEF Request
    <3>3. Advances(w, q)
      BY <2>1, <3>2 DEF Advances
    <3> QED
      BY <2>3, <3>1, <3>2, <3>3, <1>g, <1>w
  <2> QED
    BY <1>7, <2>2, <2>3 DEF PointFirst
<1>8. ASSUME NEW w \in Writers, InsertVersion(w) PROVE Goal
  <2>1. req[w].pc = "insert" /\ UNCHANGED <<annotations, compared>>
    BY <1>8 DEF InsertVersion
  <2>2. CASE Finish(w) /\ UNCHANGED versions
    BY <2>1, <2>2, <1>f
  <2>3. CASE /\ versions' = versions \cup {req[w].version}
             /\ req' = [req EXCEPT ![w] =
                   [req[w] EXCEPT !.pc = IF req[w].kind \in CliKinds THEN "pointer" ELSE "audit"]]
    <3>1. PICK p \in {"pointer", "audit"} : p = IF req[w].kind \in CliKinds THEN "pointer" ELSE "audit"
      OBVIOUS
    <3>2. PICK q : q = [req[w] EXCEPT !.pc = p]
      OBVIOUS
    <3>3. q \in Request /\ q.pc = p /\ q.version = req[w].version /\ q.kind = req[w].kind
      BY <3>2, <1>q DEF Request
    <3>4. req' = [req EXCEPT ![w] = q]
      BY <2>3, <3>1, <3>2
    <3>5. Stores(w, q)
      BY <2>1, <2>3, <3>3 DEF Stores
    <3> QED
      BY <3>3, <3>4, <3>5, <1>g
  <2> QED
    BY <1>8, <2>2, <2>3 DEF InsertVersion
<1>9. ASSUME NEW w \in WebWriters, CommitAll(w) PROVE Goal
  <2>1. req[w].pc = "commit" /\ Finish(w) /\ UNCHANGED compared
    BY <1>9 DEF CommitAll
  <2>2. CASE UNCHANGED <<active, versions, annotations, audit>>
    BY <2>1, <2>2, <1>f, <1>w
  <2>3. CASE /\ \E on \in BOOLEAN :
                   annotations' = annotations \cup TransactionComments(req[w], on)
             /\ versions' = versions \cup {req[w].version}
    <3>1. /\ NoRequest \in Request /\ NoRequest.pc = "idle" /\ NoRequest.version = NoVersion
          /\ NoRequest.kind = "none"
      BY NoRequestType DEF NoRequest
    <3>2. Stores(w, NoRequest) /\ req' = [req EXCEPT ![w] = NoRequest]
      BY <2>1, <2>3, <3>1 DEF Stores, Finish
    <3> QED
      BY <3>1, <3>2, <1>g, <1>w
  <2> QED
    BY <1>9, <2>2, <2>3 DEF CommitAll
<1>10. ASSUME NEW w \in Writers, RecordAudit(w) \/ PointLast(w) \/ Fail(w) PROVE Goal
  BY <1>10, <1>f DEF RecordAudit, PointLast, Fail
<1>11. ASSUME UNCHANGED vars PROVE Goal
  BY <1>11, <1>u DEF vars
<1>12. Goal
  BY <1>1, <1>2, <1>3, <1>4, <1>5, <1>6, <1>7, <1>8, <1>9, <1>10, <1>11, <1>w DEF Next, WebStep
<1> QED
  BY <1>12 DEF Goal


(* The base of a request is a stored version, or none; a version that is   *)
(* stored under the same id is the base.                                   *)
LEMMA BaseStored ==
  ASSUME TablesTyped, History, NEW q \in Request, q.source \in Sources
  PROVE  /\ Base(q) = NoVersion \/ (Base(q) \in versions /\ Base(q).source = q.source)
         /\ \A p \in versions : p.id = Base(q).id => p = Base(q)
<1>1. \A i : LET b == ActiveOf(i, Seen(q)) IN b = NoVersion \/ b \in Seen(q)
  BY SeenVersions DEF ActiveOf
<1>2. Base(q) = NoVersion \/ Base(q) \in Seen(q)
  BY <1>1 DEF Base
<1>3. Base(q) = NoVersion \/ (Base(q) \in versions /\ Base(q).source = q.source)
  BY <1>2, SeenVersions DEF VersionsOf
<1>4. \A p \in versions : p.id # 0
  BY DEF TablesTyped, Version
<1>5. NoVersion.id = 0
  BY DEF NoVersion
<1> QED
  BY <1>3, <1>4, <1>5 DEF History, VersionIds

(* A change replaces nothing but what it says it touches.                  *)
Respects(x, c) == x.touched \subseteq Facts /\ x.content \ x.touched = c \ x.touched

LEMMA ChangesRespect ==
  ASSUME NEW q \in Request, q.kind # "none", NEW base, base.content \in SUBSET Facts,
         NEW x \in Changes(q, base)
  PROVE  /\ Respects(x, base.content)
         /\ q.kind \in CliKinds => base.content \cap Assignments \subseteq x.touched
         /\ q.kind = "cli_edit" => x.touched = Facts
         /\ q.kind = "confirm" => x = FromSnapshot(q, base.content, Latest)
<1> DEFINE c == base.content
<1>0. Assignments \subseteq Facts /\ Definitions \subseteq Facts /\ Controls \subseteq Facts
  BY DEF Facts
<1>1. \A t, g : g \subseteq t /\ t \subseteq Facts => Respects(Replacing(c, t, g), c)
  BY DEF Replacing, Change, Respects
<1>2. \A F : F \subseteq Facts => \A y \in Rewritings(c, F) : Respects(y, c)
  <2> SUFFICES ASSUME NEW F, F \subseteq Facts, NEW y \in Rewritings(c, F) PROVE Respects(y, c)
    OBVIOUS
  <2>1. PICK t \in SUBSET F : \E g \in SUBSET t : y = Replacing(c, t, g)
    BY DEF Rewritings
  <2> QED
    BY <2>1, <1>1
<1>3. \A y : /\ Respects(FromSnapshot(q, c, y), c)
             /\ CoveredBy(c, y) => c \cap Assignments \subseteq FromSnapshot(q, c, y).touched
  <2> TAKE y
  <2> DEFINE filled == {d \in Definitions : /\ Part[d] \in Observes(q)
                                 /\ \A e \in c \cap Definitions : Part[e] # Part[d]}
             about == {a \in Assignments : Covers[y] = {} \/ Provider[a] \in Covers[y]}
             t == about \cup Controls \cup filled
  <2>1. t \subseteq Facts
    BY <1>0
  <2>2. FromSnapshot(q, c, y) = Replacing(c, t, Shows[y] \cap t)
    BY DEF FromSnapshot
  <2>3. Respects(FromSnapshot(q, c, y), c)
    BY <2>1, <2>2, <1>1
  <2>4. FromSnapshot(q, c, y).touched = t
    BY <2>2 DEF Replacing, Change
  <2>5. CoveredBy(c, y) => c \cap Assignments \subseteq about
    BY DEF CoveredBy
  <2> QED
    BY <2>3, <2>4, <2>5
<1>4. \A X : \A z \in SnapshotChanges(q, c, X) :
         \E y \in X : CoveredBy(c, y) /\ z = FromSnapshot(q, c, y)
  BY DEF SnapshotChanges
<1>k. q.kind \in WebKinds \cup CliKinds
  BY DEF Request
<1>5. CASE q.kind \in {"edit", "promote", "describe"}
  <2>1. ASSUME q.kind = "edit" PROVE x \in Rewritings(c, Assignments)
    BY <2>1 DEF Changes
  <2>2. ASSUME q.kind = "promote" PROVE x \in Rewritings(c, Assignments)
    BY <2>2 DEF Changes
  <2>3. ASSUME q.kind = "describe" PROVE x \in Rewritings(c, Definitions)
    BY <2>3 DEF Changes
  <2>4. q.kind \notin CliKinds \cup {"cli_edit", "confirm"}
    BY <1>5 DEF CliKinds
  <2> HIDE DEF c
  <2>5. Respects(x, c)
    BY <1>5, <2>1, <2>2, <2>3, <1>2, <1>0
  <2> QED
    BY <2>4, <2>5 DEF c
<1>6. CASE q.kind \in {"baseline", "cli_promote"}
  <2>1. x \in SnapshotChanges(q, c, Taken)
    BY <1>6 DEF Changes
  <2>2. PICK y : CoveredBy(c, y) /\ x = FromSnapshot(q, c, y)
    BY <2>1, <1>4
  <2> HIDE DEF c
  <2>3. Respects(x, c) /\ c \cap Assignments \subseteq x.touched
    BY <2>2, <1>3
  <2> QED
    BY <2>3, <1>6 DEF c
<1>7. CASE q.kind = "confirm"
  <2>1. x \in SnapshotChanges(q, c, {Latest})
    BY <1>7 DEF Changes
  <2>2. x = FromSnapshot(q, c, Latest)
    BY <2>1, <1>4
  <2>3. q.kind \notin CliKinds \cup {"cli_edit"}
    BY <1>7 DEF CliKinds
  <2>4. Respects(x, c)
    BY <2>2, <1>3
  <2> QED
    BY <2>2, <2>3, <2>4
<1>8. CASE q.kind = "adopt"
  <2>1. PICK y : x = Replacing(c, Controls, Shows[y] \cap Controls)
    BY <1>8 DEF Changes
  <2>2. Respects(x, c)
    BY <2>1, <1>1, <1>0
  <2> QED
    BY <2>2, <1>8 DEF CliKinds
<1>9. CASE q.kind = "annotate"
  <2>1. PICK a \in c \cap Assignments : x = Change(c, {a})
    BY <1>9 DEF Changes
  <2>2. Respects(x, c)
    BY <2>1, <1>0 DEF Change, Respects
  <2> QED
    BY <2>2, <1>9 DEF CliKinds
<1>10. CASE q.kind \in {"from_scratch", "cli_import", "cli_edit"}
  <2>1. x.touched = Facts /\ x.content \subseteq Facts
    <3>1. CASE q.kind = "from_scratch"
      BY <3>1 DEF Changes, Change
    <3>2. CASE q.kind \in {"cli_import", "cli_edit"}
      <4>1. PICK a \in SUBSET Assignments : x = Change(a, Facts)
        BY <3>2 DEF Changes
      <4> QED
        BY <4>1, <1>0 DEF Change
    <3> QED
      BY <3>1, <3>2, <1>10
  <2>2. Respects(x, c)
    BY <2>1 DEF Respects
  <2> QED
    BY <2>1, <2>2, <1>0, <1>10
<1> QED
  BY <1>5, <1>6, <1>7, <1>8, <1>9, <1>10, <1>k DEF WebKinds, CliKinds


(* Stored versions keep their lineage and their comments in a step that    *)
(* gives no new comment to a stored version and stores only new ids.       *)
LEMMA CopiedStays ==
  ASSUME versions \subseteq versions', annotations \subseteq annotations',
         \A p \in versions : \A a : <<p.id, a>> \in annotations' => <<p.id, a>> \in annotations,
         \A p \in versions' : p \in versions \/ (p.id # 0 /\ \A u \in versions : u.id # p.id)
  PROVE  \A v, pending : Evolved(v) /\ Copied(v, pending) => Evolved(v)' /\ Copied(v, pending)'
<1> SUFFICES ASSUME NEW v, NEW pending, Evolved(v), Copied(v, pending)
             PROVE  Evolved(v)' /\ Copied(v, pending)'
  OBVIOUS
<1>1. Evolved(v)'
  BY DEF Evolved
<1>2. ASSUME NEW p \in versions', v.parent = p.id PROVE p \in versions
  BY <1>2 DEF Evolved
<1>3. Copied(v, pending)'
  BY <1>2 DEF Copied
<1> QED
  BY <1>1, <1>3

LEMMA LineageStep ==
  ASSUME TablesTyped, History, LineageInv, NEW w \in Writers, NEW q \in Request,
         req' = [req EXCEPT ![w] = q],
         Ends(w, q) \/ Advances(w, q) \/ Makes(w, q) \/ Stores(w, q)
  PROVE  LineageInv'
<1>1. /\ req'[w] = q
      /\ \A x \in Writers : x # w => req'[x] = req[x]
  BY DEF History, RequestsTyped
<1>2. \A x \in Writers : x # w => (Holding(x)' <=> Holding(x)) /\ (Waiting(x)' <=> Waiting(x))
  BY <1>1 DEF Holding, Waiting
<1>w. \A x \in Writers : Waiting(x) => Holding(x)
  BY DEF Waiting, Holding
<1>h. Waiting(w) => /\ req[w].version \in Version
                    /\ \A u \in versions : u.id # req[w].version.id
  BY <1>w DEF History, RequestsTyped, VersionIds
<1>p. PICK n : n = req[w].version
  OBVIOUS
<1>k. PICK kept : kept = req[w].comments
  OBVIOUS
(* What every case shows: the step disturbs no stored version, and w keeps *)
(* the invariant.                                                          *)
<1>s. ASSUME versions \subseteq versions', annotations \subseteq annotations',
             \A p \in versions : \A a : <<p.id, a>> \in annotations' => <<p.id, a>> \in annotations,
             \A p \in versions' : p \in versions \/ (p.id # 0 /\ \A u \in versions : u.id # p.id),
             \A v \in versions' : v \in versions \/ (Evolved(v)' /\ Copied(v, {})'),
             Holding(w)' => Evolved(q.version)',
             Waiting(w)' => Copied(q.version, q.comments)',
             q.pc = "insert" => q.comments = {}
      PROVE  LineageInv'
  <2>1. \A v, pending : Evolved(v) /\ Copied(v, pending) => Evolved(v)' /\ Copied(v, pending)'
    BY <1>s, CopiedStays
  <2>2. \A v \in versions' : Evolved(v)' /\ Copied(v, {})'
    BY <2>1, <1>s DEF LineageInv
  <2>3. ASSUME NEW x \in Writers
        PROVE  /\ Holding(x)' => Evolved(req[x].version)'
               /\ Waiting(x)' => Copied(req[x].version, req[x].comments)'
               /\ req'[x].pc = "insert" => req'[x].comments = {}
    <3>1. CASE x = w
      <4>1. PICK v : v = q.version
        OBVIOUS
      <4>2. PICK c : c = q.comments
        OBVIOUS
      <4>3. req'[x].version = v /\ req'[x].comments = c /\ req'[x].pc = q.pc
        BY <3>1, <4>1, <4>2, <1>1
      <4>4. /\ Holding(x)' => Evolved(v)'
            /\ Waiting(x)' => Copied(v, c)'
        BY <1>s, <3>1, <4>1, <4>2
      <4> QED
        BY <4>3, <4>4, <4>2, <1>s
    <3>2. CASE x # w
      <4>1. PICK v : v = req[x].version
        OBVIOUS
      <4>2. PICK c : c = req[x].comments
        OBVIOUS
      <4>3. req'[x] = req[x] /\ req'[x].version = v /\ req'[x].comments = c
        BY <3>2, <4>1, <4>2, <1>1
      <4>4. /\ Holding(x) => Evolved(v)
            /\ Waiting(x) => Copied(v, c)
            /\ req[x].pc = "insert" => c = {}
        BY <4>1, <4>2 DEF LineageInv
      <4>5. Holding(x) => Evolved(v)'
        BY <4>4, <1>s DEF Evolved
      <4>6. Waiting(x) => Copied(v, c)'
        BY <4>4, <2>1, <1>w
      <4> QED
        BY <4>3, <4>4, <4>5, <4>6, <3>2, <1>2
    <3> QED
      BY <3>1, <3>2
  <2> QED
    BY <2>2, <2>3 DEF LineageInv
<1>3. CASE Ends(w, q)
  <2>1. ~Holding(w)' /\ ~Waiting(w)' /\ q.pc # "insert"
    BY <1>3, <1>1 DEF Ends, Holding, Waiting
  <2>2. versions' = versions /\ annotations' = annotations
    BY <1>3 DEF Ends
  <2> QED
    BY <2>1, <2>2, <1>s
<1>4. CASE Advances(w, q)
  <2>1. Waiting(w) /\ Holding(w) /\ q.version = n /\ UNCHANGED versions
    BY <1>4, <1>p DEF Advances, Waiting, Holding
  <2>2. Evolved(n) /\ Copied(n, kept)
    BY <2>1, <1>p, <1>k DEF LineageInv
  <2>3. /\ \A u \in versions : u.id # n.id
        /\ annotations \subseteq annotations'
        /\ \A t \in annotations' : t \in annotations \/ \E a : t = <<n.id, a>>
        /\ \A a \in kept : a \in q.comments \/ <<n.id, a>> \in annotations'
        /\ q.pc = "insert" => q.comments = {}
    BY <1>4, <2>1, <1>h, <1>p, <1>k DEF Advances
  <2>4. \A p \in versions : \A a : <<p.id, a>> \in annotations' => <<p.id, a>> \in annotations
    BY <2>3
  <2>5. Evolved(n)' /\ Copied(n, kept)'
    BY <2>1, <2>2, <2>3, <2>4, CopiedStays
  <2>6. PICK c : c = q.comments
    OBVIOUS
  <2>7. Copied(n, c)'
    BY <2>3, <2>5, <2>6 DEF Copied
  <2>8. Evolved(q.version)' /\ Copied(q.version, q.comments)'
    BY <2>1, <2>5, <2>6, <2>7
  <2> QED
    BY <2>1, <2>3, <2>4, <2>8, <1>s
<1>5. CASE Makes(w, q)
  <2>1. /\ versions' = versions /\ annotations' = annotations
        /\ req[w].pc = "versions" /\ q.kind = req[w].kind
        /\ q.pc = "insert" => q.kind \in CliKinds
    BY <1>5 DEF Makes
  <2>2. req[w] \in Request /\ req[w].source \in Sources /\ req[w].kind # "none"
    BY <2>1 DEF History, RequestsTyped
  <2>3. PICK b : b = Base(req[w])
    OBVIOUS
  <2>4. /\ b = NoVersion \/ b \in versions
        /\ \A p \in versions : p.id = b.id => p = b
        /\ b.content \in SUBSET Facts
    BY <2>2, <2>3, BaseStored, BaseTyped
  <2>5. PICK x \in Changes(req[w], b) :
           /\ q.version = [id |-> issued + 1, source |-> req[w].source,
                 number |-> NextNumber(req[w]), parent |-> b.id,
                 content |-> x.content, touched |-> x.touched]
           /\ q.comments = IF q.kind \in CliKinds THEN {}
                 ELSE {a \in x.content \cap Assignments : <<b.id, a>> \in annotations}
    BY <1>5, <2>3 DEF Makes
  <2>6. q.kind \in CliKinds => b.content \cap Assignments \subseteq x.touched
    BY <2>1, <2>2, <2>4, <2>5, ChangesRespect
  <2>7. PICK v : v = q.version
    OBVIOUS
  <2>8. v.parent = b.id /\ v.content = x.content /\ v.touched = x.touched
    BY <2>5, <2>7
  <2>9. PICK c : c = q.comments
    OBVIOUS
  <2>10. Evolved(v)
    BY <2>4, <2>8 DEF Evolved, NoVersion
  <2>11. Copied(v, c)
    <3> SUFFICES ASSUME NEW p \in versions, v.parent = p.id,
                        NEW a \in (v.content \cap p.content \cap Assignments) \ v.touched,
                        <<p.id, a>> \in annotations
                 PROVE  a \in c
      BY DEF Copied
    <3>1. p = b
      BY <2>4, <2>8
    <3>2. q.kind \notin CliKinds
      BY <3>1, <2>6, <2>8
    <3> QED
      BY <3>1, <3>2, <2>5, <2>8, <2>9
  <2>12. Evolved(v)' /\ Copied(v, c)'
    BY <2>1, <2>10, <2>11 DEF Evolved, Copied
  <2>13. q.pc = "insert" => q.comments = {}
    BY <2>1, <2>5
  <2>14. Evolved(q.version)' /\ Copied(q.version, q.comments)'
    BY <2>7, <2>9, <2>12
  <2> QED
    BY <2>1, <2>13, <2>14, <1>s
<1>6. CASE Stores(w, q)
  <2>1. Waiting(w) /\ Holding(w) /\ versions' = versions \cup {n} /\ ~Waiting(w)'
        /\ q.pc # "insert"
    BY <1>6, <1>1, <1>p DEF Stores, Waiting, Holding
  <2>2. /\ Evolved(n) /\ Copied(n, kept)
        /\ req[w].pc = "insert" => kept = {}
    BY <2>1, <1>p, <1>k DEF LineageInv
  <2>3. n.id # 0 /\ \A u \in versions : u.id # n.id
    BY <2>1, <1>h, <1>p DEF Version
  <2>4. /\ annotations \subseteq annotations'
        /\ \A t \in annotations' : t \in annotations \/ \E a : t = <<n.id, a>>
        /\ \A a \in kept \ n.touched : <<n.id, a>> \in annotations'
    <3>1. CASE req[w].pc = "insert" /\ UNCHANGED annotations
      BY <3>1, <2>2
    <3>2. CASE \E on \in BOOLEAN : annotations' = annotations \cup TransactionComments(req[w], on)
      BY <3>2, <1>p, <1>k DEF TransactionComments
    <3> QED
      BY <1>6, <3>1, <3>2 DEF Stores
  <2>5. \A p \in versions : \A a : <<p.id, a>> \in annotations' => <<p.id, a>> \in annotations
    BY <2>3, <2>4
  <2>6. \A p \in versions' : p \in versions \/ (p.id # 0 /\ \A u \in versions : u.id # p.id)
    BY <2>1, <2>3
  <2>7. Evolved(n)' /\ Copied(n, kept)'
    BY <2>1, <2>2, <2>4, <2>5, <2>6, CopiedStays
  <2>8. Copied(n, {})'
    BY <2>4, <2>7 DEF Copied
  <2>9. Holding(w)' => q.version = n
    BY <1>6, <1>1, <1>p DEF Stores, Holding
  <2>10. Holding(w)' => Evolved(q.version)'
    BY <2>7, <2>9
  <2>11. \A v \in versions' : v \in versions \/ (Evolved(v)' /\ Copied(v, {})')
    BY <2>1, <2>7, <2>8
  <2> QED
    BY <2>1, <2>4, <2>5, <2>6, <2>10, <2>11, <1>s
<1> QED
  BY <1>3, <1>4, <1>5, <1>6


(* No writer evolves the version the pointer named when it was read: the   *)
(* editors of the web, which do, may be overtaken between their two reads. *)
EvolvesNewest == Kinds \cap PointerKinds \subseteq {"cli_edit"}

LEMMA MakesSuccessor ==
  ASSUME EvolvesNewest, TablesTyped, History, NEW w \in Writers, NEW q \in Request,
         req[w].kind \in Kinds, Makes(w, q), q.version.number > 1
  PROVE  \E p \in versions : Follows(q.version, p)
<1>1. req[w].pc = "versions"
  BY DEF Makes
<1>2. req[w] \in Request /\ req[w].source \in Sources /\ req[w].kind # "none"
  BY <1>1 DEF History, RequestsTyped
<1>b. PICK b : b = Base(req[w])
  OBVIOUS
<1>r. PICK r : r = req[w]
  OBVIOUS
<1>3. b.content \in SUBSET Facts
  BY <1>2, <1>b, BaseTyped
<1>4. PICK x \in Changes(r, b) :
         q.version = [id |-> issued + 1, source |-> r.source, number |-> NextNumber(r),
                      parent |-> b.id, content |-> x.content, touched |-> x.touched]
  BY <1>b, <1>r DEF Makes
<1>5. Respects(x, b.content) /\ (r.kind = "cli_edit" => x.touched = Facts)
  BY <1>2, <1>3, <1>4, <1>r, ChangesRespect
<1>6. PICK v : v = q.version
  OBVIOUS
<1>7. /\ v.source = r.source /\ v.number = NextNumber(r) /\ v.number > 1
      /\ v.parent = b.id /\ v.content = x.content /\ v.touched = x.touched
  BY <1>4, <1>6
<1>8. Seen(r) # {}
  BY <1>2, <1>7, <1>r, SeenVersions
<1>9. PICK p : p = Newest(Seen(r))
  OBVIOUS
<1>10. /\ p \in versions /\ p.source = r.source /\ v.number = p.number + 1
  BY <1>2, <1>7, <1>8, <1>9, <1>r, SeenVersions DEF VersionsOf
<1>11. ASSUME r.kind \notin PointerKinds PROVE p = b
  <2>1. \A u \in Seen(r) : u.id # 0
    BY <1>2, <1>r, SeenVersions DEF VersionsOf, TablesTyped, Version
  <2> QED
    BY <2>1, <1>8, <1>9, <1>11, <1>b, <1>r DEF Base, ActiveOf
<1>12. CASE r.kind = "cli_edit"
  <2>1. v.touched = Facts
    BY <1>5, <1>7, <1>12
  <2>2. v.content \ v.touched = p.content \ v.touched
    <3>1. p.content \subseteq Facts /\ b.content \subseteq Facts
      BY <1>3, <1>10 DEF TablesTyped, Version
    <3> QED
      BY <3>1, <2>1, <1>5, <1>7 DEF Respects
  <2>3. Follows(v, p)
    BY <2>1, <2>2, <1>7, <1>10 DEF Follows
  <2> QED
    BY <2>3, <1>10, <1>6
<1>13. CASE r.kind \notin PointerKinds
  <2>1. p = b
    BY <1>13, <1>11
  <2>2. Follows(v, p)
    BY <2>1, <1>5, <1>7, <1>10 DEF Follows, Respects
  <2> QED
    BY <2>2, <1>10, <1>6
<1> QED
  BY <1>12, <1>13, <1>r DEF EvolvesNewest

LEMMA SuccessorStep ==
  ASSUME EvolvesNewest, TablesTyped, History, SuccessorInv, NEW w \in Writers,
         NEW q \in Request, req' = [req EXCEPT ![w] = q],
         Ends(w, q) \/ Advances(w, q) \/ Makes(w, q) \/ Stores(w, q)
  PROVE  SuccessorInv'
<1>1. /\ req'[w] = q
      /\ \A x \in Writers : x # w => req'[x] = req[x]
  BY DEF History, RequestsTyped
<1>2. versions \subseteq versions' /\ \A v \in versions' : v \in versions \/ v = req[w].version
  BY DEF Ends, Advances, Makes, Stores
<1>3. q.kind \in Kinds \cup {"none"}
  BY DEF SuccessorInv, Ends, Advances, Makes, Stores
<1>4. Holding(w)' => (q.version = req[w].version /\ Holding(w)) \/ Makes(w, q)
  BY <1>1 DEF Holding, Ends, Advances, Stores
<1>5. ASSUME Makes(w, q) PROVE req[w].kind \in Kinds
  <2>1. req[w].kind # "none"
    BY <1>5 DEF Makes, History, RequestsTyped
  <2> QED
    BY <2>1 DEF SuccessorInv
<1>6. ASSUME Holding(w)', q.version.number > 1
      PROVE  \E p \in versions : Follows(q.version, p)
  <2>1. CASE Makes(w, q)
    BY <2>1, <1>5, <1>6, MakesSuccessor
  <2>2. CASE q.version = req[w].version /\ Holding(w)
    BY <2>2, <1>6 DEF SuccessorInv
  <2> QED
    BY <2>1, <2>2, <1>4, <1>6
<1>7. versions' # versions => Holding(w)
  BY DEF Ends, Advances, Makes, Stores, Holding
<1>8. ASSUME NEW v \in versions', v.number > 1 PROVE \E p \in versions' : Follows(v, p)
  <2>1. CASE v \in versions
    BY <2>1, <1>2, <1>8 DEF SuccessorInv, NothingDropped
  <2>2. CASE v \notin versions
    <3>1. v = req[w].version /\ Holding(w)
      BY <2>2, <1>2, <1>7
    <3>2. \E p \in versions : Follows(v, p)
      BY <3>1, <1>8 DEF SuccessorInv
    <3> QED
      BY <3>2, <1>2
  <2> QED
    BY <2>1, <2>2
<1>9. ASSUME NEW x \in Writers, Holding(x)', req'[x].version.number > 1
      PROVE  \E p \in versions' : Follows(req'[x].version, p)
  <2>1. CASE x = w
    BY <2>1, <1>1, <1>2, <1>6, <1>9
  <2>2. CASE x # w
    <3>1. Holding(x) /\ req'[x].version = req[x].version
      BY <2>2, <1>1, <1>9 DEF Holding
    <3>2. \E p \in versions : Follows(req[x].version, p)
      BY <3>1, <1>9 DEF SuccessorInv
    <3> QED
      BY <3>1, <3>2, <1>2
  <2> QED
    BY <2>1, <2>2
<1>10. \A x \in Writers : req'[x].kind \in Kinds \cup {"none"}
  BY <1>1, <1>3 DEF SuccessorInv
<1>11. NothingDropped'
  BY <1>8 DEF NothingDropped
<1>12. \A x \in Writers : Holding(x)' /\ req'[x].version.number > 1 =>
          \E p \in versions' : Follows(req'[x].version, p)
  BY <1>9
<1> QED
  BY <1>10, <1>11, <1>12 DEF SuccessorInv, Follows

LEMMA SnapshotKind ==
  ASSUME NEW q, NEW r, q.kind = r.kind
  PROVE  \A c, y : FromSnapshot(q, c, y) = FromSnapshot(r, c, y)
BY DEF FromSnapshot, Observes

(* Making a confirmation: it is refused unless what its user compared is   *)
(* still the newest version and the newest snapshot.                       *)
LEMMA MakesAsCompared ==
  ASSUME TablesTyped, History, NEW w \in WebWriters, NEW q \in Request,
         Makes(w, q), q.kind = "confirm"
  PROVE  \E p \in versions :
            /\ p.id = compared[w].version
            /\ q.version.parent = p.id
            /\ q.version.content = FromSnapshot(q, p.content, compared[w].snapshot).content
<1>1. req[w].pc = "versions" /\ req[w].kind = "confirm" /\ w \in Writers
  BY DEF Makes, Writers
<1>2. req[w] \in Request /\ req[w].source \in Sources /\ req[w].kind # "none"
  BY <1>1 DEF History, RequestsTyped
<1>b. PICK b : b = Base(req[w])
  OBVIOUS
<1>r. PICK r : r = req[w]
  OBVIOUS
<1>3. b # NoVersion /\ compared[w] = [version |-> b.id, snapshot |-> Latest]
  BY <1>1, <1>b DEF Makes, Admissible
<1>4. b \in versions /\ b.content \in SUBSET Facts
  BY <1>2, <1>3, <1>b, BaseStored, BaseTyped
<1>5. PICK x \in Changes(r, b) :
         q.version = [id |-> issued + 1, source |-> r.source, number |-> NextNumber(r),
                      parent |-> b.id, content |-> x.content, touched |-> x.touched]
  BY <1>b, <1>r DEF Makes
<1>6. x = FromSnapshot(r, b.content, Latest)
  BY <1>1, <1>2, <1>4, <1>5, <1>r, ChangesRespect
<1>7. x = FromSnapshot(q, b.content, Latest)
  BY <1>6, <1>1, <1>r, SnapshotKind
<1>8. compared[w].version = b.id /\ compared[w].snapshot = Latest
  BY <1>3
<1>9. q.version.parent = b.id /\ q.version.content = x.content
  BY <1>5
<1> QED
  BY <1>4, <1>7, <1>8, <1>9

LEMMA ConfirmStep ==
  ASSUME TablesTyped, History, ConfirmInv, NEW w \in Writers, NEW q \in Request,
         req' = [req EXCEPT ![w] = q],
         Ends(w, q) \/ Advances(w, q) \/ Makes(w, q) \/ Stores(w, q)
  PROVE  ConfirmInv'
<1>1. /\ req'[w] = q
      /\ \A x \in Writers : x # w => req'[x] = req[x]
  BY DEF History, RequestsTyped
<1>2. versions \subseteq versions' /\ compared' = compared
  BY DEF Ends, Advances, Makes, Stores
<1>3. ASSUME NEW x \in WebWriters
      PROVE  /\ ~Holding(x)' => req'[x].version = NoVersion
             /\ Waiting(x)' /\ req'[x].kind = "confirm" => AsCompared(x)'
  <2>w. x \in Writers
    BY DEF Writers
  <2>1. CASE x # w
    <3>1. req'[x] = req[x]
      BY <2>1, <2>w, <1>1
    <3>2. /\ ~Holding(x) => req[x].version = NoVersion
          /\ Waiting(x) /\ req[x].kind = "confirm" => AsCompared(x)
      BY DEF ConfirmInv
    <3>3. PICK r : r = req[x]
      OBVIOUS
    <3>4. AsCompared(x) => AsCompared(x)'
      <4>1. \A c, y : FromSnapshot(req'[x], c, y) = FromSnapshot(req[x], c, y)
        BY <3>1
      <4>2. \A c, y : FromSnapshot(req[x], c, y)' = FromSnapshot(req[x], c, y)
        BY <3>1 DEF FromSnapshot, Observes
      <4> QED
        BY <3>1, <4>2, <1>2 DEF AsCompared
    <3> QED
      BY <3>1, <3>2, <3>4 DEF Holding, Waiting
  <2>2. CASE x = w
    <3>1. ~Holding(w)' => q.version = NoVersion
      BY <1>1 DEF Ends, Advances, Makes, Stores, Holding
    <3>2. ASSUME Waiting(w)', q.kind = "confirm"
          PROVE  \E p \in versions :
                    /\ p.id = compared[w].version
                    /\ q.version.parent = p.id
                    /\ q.version.content = FromSnapshot(q, p.content, compared[w].snapshot).content
      <4>1. CASE Makes(w, q)
        BY <4>1, <3>2, <2>2, MakesAsCompared
      <4>2. CASE Advances(w, q)
        <5>1. Waiting(w) /\ req[w].kind = q.kind /\ q.version = req[w].version
          BY <4>2 DEF Advances, Waiting
        <5>2. AsCompared(w)
          BY <5>1, <3>2, <2>2 DEF ConfirmInv
        <5> QED
          BY <5>1, <5>2, SnapshotKind DEF AsCompared
      <4>3. ~Ends(w, q) /\ ~Stores(w, q)
        BY <3>2, <1>1 DEF Ends, Stores, Waiting
      <4> QED
        BY <4>1, <4>2, <4>3
    <3>3. ASSUME Waiting(w)', q.kind = "confirm" PROVE AsCompared(w)'
      <4>1. PICK p \in versions :
               /\ p.id = compared[w].version
               /\ q.version.parent = p.id
               /\ q.version.content = FromSnapshot(q, p.content, compared[w].snapshot).content
        BY <3>2, <3>3
      <4>2. \A c, y : FromSnapshot(req[w], c, y)' = FromSnapshot(q, c, y)
        BY <1>1 DEF FromSnapshot, Observes
      <4> QED
        BY <4>1, <4>2, <1>1, <1>2 DEF AsCompared
    <3> QED
      BY <3>1, <3>3, <2>2, <1>1
  <2> QED
    BY <2>1, <2>2
<1> QED
  BY <1>3 DEF ConfirmInv

-----------------------------------------------------------------------------

LEMMA HistoryAlways == Spec => []HistoryInv
<1>1. Init => HistoryInv
  BY HistoryInit DEF HistoryInv
<1>2. HistoryInv /\ [Next]_vars => HistoryInv'
  BY HistoryStep DEF HistoryInv
<1> QED
  BY <1>1, <1>2, PTL DEF Spec

(* Tables and requests keep their types; in particular a version number    *)
(* never exceeds the number of versions ever prepared.                     *)
THEOREM TypeCorrect == Spec => []TypeOK
<1>1. HistoryInv => TypeOK
  BY DEF HistoryInv, TypeOK, History
<1> QED
  BY <1>1, HistoryAlways, PTL

(* However many web and command line writers race or fail, the history of  *)
(* every source has no gap and no fork.                                    *)
THEOREM HistoryIsContiguous == Spec => []VersionsContiguous
<1>1. HistoryInv => VersionsContiguous
  BY DEF HistoryInv, History
<1> QED
  BY <1>1, HistoryAlways, PTL

(* The audit trail never names a version that was not stored.              *)
THEOREM AuditNamesStored == Spec => []AuditedStored
<1>1. HistoryInv => AuditedStored
  BY DEF HistoryInv
<1> QED
  BY <1>1, HistoryAlways, PTL

(* No step of any writer changes or removes a stored version.              *)
THEOREM VersionsAreImmutable == Spec => VersionsImmutable
<1>1. [Next]_vars => [versions \subseteq versions']_vars
  BY DEF Next, vars, tables, WebStep, TakeSnapshot, CompareBaseline, ReadSource, CliReadSource,
         ReadVersions, CopyComment, PointFirst, InsertVersion, RecordAudit, PointLast,
         CommitAll, Fail
<1> QED
  BY <1>1, PTL DEF Spec, VersionsImmutable

(* Without the command line, what everyone reads as the expected state is  *)
(* the newest version, at every moment of any number of racing or failing  *)
(* web requests.                                                           *)
THEOREM ActiveVersionIsNewest ==
  ASSUME CliWriters = {}
  PROVE  Spec => []ActiveIsNewest
<1>1. Init => PointerInv
  BY DEF Init, PointerInv, PointsNewest, NoRequest, CliKinds
<1>2. HistoryInv /\ PointerInv /\ [Next]_vars => PointerInv'
  BY PointerStep DEF HistoryInv
<1>3. HistoryInv /\ PointerInv => ActiveIsNewest
  BY PointerImplies DEF HistoryInv, PointerInv
<1> QED
  BY <1>1, <1>2, <1>3, HistoryAlways, PTL DEF Spec

LEMMA LineageAlways == Spec => []LineageInv
<1>1. Init => LineageInv
  BY DEF Init, LineageInv, NoRequest, Holding, Waiting
<1>2. HistoryInv /\ LineageInv /\ [Next]_vars => LineageInv'
  <2> SUFFICES ASSUME HistoryInv, LineageInv, [Next]_vars PROVE LineageInv'
    OBVIOUS
  <2>1. TablesTyped /\ History
    BY DEF HistoryInv
  <2>2. CASE Unconcerned
    BY <2>2 DEF Unconcerned, LineageInv, Evolved, Copied, Holding, Waiting
  <2>3. CASE \E w \in Writers, q \in Request :
               /\ req' = [req EXCEPT ![w] = q]
               /\ Ends(w, q) \/ Advances(w, q) \/ Makes(w, q) \/ Stores(w, q)
    BY <2>1, <2>3, LineageStep
  <2> QED
    BY <2>1, <2>2, <2>3, Shapes
<1> QED
  BY <1>1, <1>2, HistoryAlways, PTL DEF Spec

(* Whoever evolves a version, on the web in one transaction or comment by  *)
(* comment, or at the command line, which copies no comments: those of     *)
(* every expected assignment it does not rewrite are on the new version.   *)
THEOREM CommentsAreKept == Spec => []CommentsFollow
<1>1. LineageInv => CommentsFollow
  BY DEF LineageInv, Copied, CommentsFollow
<1> QED
  BY <1>1, LineageAlways, PTL

(* Of the writers that evolve the newest version, web and command line,    *)
(* however many race or fail, none undoes what another one stored.         *)
THEOREM NothingIsDropped ==
  ASSUME EvolvesNewest
  PROVE  Spec => []NothingDropped
<1>1. Init => SuccessorInv
  BY DEF Init, SuccessorInv, NothingDropped, NoRequest, Holding
<1>2. HistoryInv /\ SuccessorInv /\ [Next]_vars => SuccessorInv'
  <2> SUFFICES ASSUME HistoryInv, SuccessorInv, [Next]_vars PROVE SuccessorInv'
    OBVIOUS
  <2>1. TablesTyped /\ History
    BY DEF HistoryInv
  <2>2. CASE Unconcerned
    BY <2>2 DEF Unconcerned, SuccessorInv, NothingDropped, Holding
  <2>3. CASE \E w \in Writers, q \in Request :
               /\ req' = [req EXCEPT ![w] = q]
               /\ Ends(w, q) \/ Advances(w, q) \/ Makes(w, q) \/ Stores(w, q)
    BY <2>1, <2>3, SuccessorStep
  <2> QED
    BY <2>1, <2>2, <2>3, Shapes
<1>3. SuccessorInv => NothingDropped
  BY DEF SuccessorInv
<1> QED
  BY <1>1, <1>2, <1>3, HistoryAlways, PTL DEF Spec

(* For any number of writers and snapshots: the version a confirmation     *)
(* stores evolves the version its user compared with the snapshot its user *)
(* compared, whatever was stored or collected meanwhile.                   *)
THEOREM ConfirmationsAreAsCompared == Spec => ConfirmedAsCompared
<1>1. Init => ConfirmInv
  BY DEF Init, ConfirmInv, NoRequest, Holding, Waiting, Writers
<1>2. HistoryInv /\ ConfirmInv /\ [Next]_vars => ConfirmInv'
  <2> SUFFICES ASSUME HistoryInv, ConfirmInv, [Next]_vars PROVE ConfirmInv'
    OBVIOUS
  <2>1. TablesTyped /\ History
    BY DEF HistoryInv
  <2>2. CASE Unconcerned
    <3> SUFFICES ASSUME NEW x \in WebWriters
                 PROVE  /\ ~Holding(x)' => req'[x].version = NoVersion
                        /\ Waiting(x)' /\ req'[x].kind = "confirm" => AsCompared(x)'
      BY DEF ConfirmInv
    <3>1. versions' = versions /\ req' = req
      BY <2>2 DEF Unconcerned
    <3>2. /\ ~Holding(x) => req[x].version = NoVersion
          /\ Waiting(x) /\ req[x].kind = "confirm" => AsCompared(x)
      BY DEF ConfirmInv
    <3>3. Waiting(x) => compared'[x] = compared[x]
      BY <2>2 DEF Unconcerned, Waiting, NoRequest
    <3>4. \A c, y : FromSnapshot(req[x], c, y)' = FromSnapshot(req[x], c, y)
      BY <3>1 DEF FromSnapshot, Observes
    <3>5. Waiting(x) /\ AsCompared(x) => AsCompared(x)'
      BY <3>1, <3>3, <3>4 DEF AsCompared
    <3> QED
      BY <3>1, <3>2, <3>5 DEF Holding, Waiting
  <2>3. CASE \E w \in Writers, q \in Request :
               /\ req' = [req EXCEPT ![w] = q]
               /\ Ends(w, q) \/ Advances(w, q) \/ Makes(w, q) \/ Stores(w, q)
    BY <2>1, <2>3, ConfirmStep
  <2> QED
    BY <2>1, <2>2, <2>3, Shapes
<1>3. HistoryInv /\ HistoryInv' /\ ConfirmInv =>
         \A w \in WebWriters :
            req[w].kind = "confirm" /\ req[w].version \in versions' \ versions => AsCompared(w)
  <2> SUFFICES ASSUME HistoryInv, HistoryInv', ConfirmInv, NEW w \in WebWriters,
                      req[w].kind = "confirm", req[w].version \in versions' \ versions
               PROVE  AsCompared(w)
    OBVIOUS
  <2>1. req[w].version # NoVersion
    BY DEF HistoryInv, TablesTyped, Version, NoVersion
  <2>2. Holding(w) /\ w \in Writers
    BY <2>1 DEF ConfirmInv, Writers
  <2>3. Waiting(w)
    BY <2>2 DEF HistoryInv, History, VersionIds
  <2> QED
    BY <2>3 DEF ConfirmInv
<1>4. HistoryInv /\ HistoryInv' /\ ConfirmInv /\ [Next]_vars =>
        [\A w \in WebWriters :
            req[w].kind = "confirm" /\ req[w].version \in versions' \ versions => AsCompared(w)]_vars
  BY <1>3
<1> QED
  BY <1>1, <1>2, <1>4, HistoryAlways, PTL DEF Spec, ConfirmedAsCompared
=============================================================================
