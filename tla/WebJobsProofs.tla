--------------------------- MODULE WebJobsProofs ---------------------------
(* Theorems about WebJobs, for every number of jobs, threads and faults.   *)
EXTENDS WebJobs, TLAPS

(* What the three operations on the executor's queue do to its entries.    *)
LEMMA AppendQueue ==
  ASSUME NEW S, NEW q \in Seq(S), NEW e \in S
  PROVE  /\ Append(q, e) \in Seq(S)
         /\ Range(Append(q, e)) = Range(q) \cup {e}
         /\ Len(Append(q, e)) = Len(q) + 1
         /\ \A i \in 1 .. Len(q) : Append(q, e)[i] = q[i]
         /\ Append(q, e)[Len(q) + 1] = e
<1>1. /\ Append(q, e) \in Seq(S)
      /\ Len(Append(q, e)) = Len(q) + 1
      /\ \A i \in 1 .. Len(q) : Append(q, e)[i] = q[i]
      /\ Append(q, e)[Len(q) + 1] = e
  OBVIOUS
<1>2. DOMAIN q = 1 .. Len(q) /\ DOMAIN Append(q, e) = 1 .. Len(q) + 1 /\ Len(q) \in Nat
  BY <1>1
<1>3. 1 .. Len(q) + 1 = (1 .. Len(q)) \cup {Len(q) + 1}
  BY <1>2
<1>4. Range(Append(q, e)) = Range(q) \cup {e}
  BY <1>1, <1>2, <1>3 DEF Range
<1> QED BY <1>1, <1>4

LEMMA TailQueue ==
  ASSUME NEW S, NEW q \in Seq(S), q # <<>>
  PROVE  /\ Tail(q) \in Seq(S)
         /\ Head(q) \in Range(q) /\ Range(q) \subseteq S
         /\ Range(Tail(q)) \subseteq Range(q)
         /\ Len(q) \in Nat \ {0} /\ Len(Tail(q)) = Len(q) - 1
         /\ \A i \in 1 .. Len(q) - 1 : Tail(q)[i] = q[i + 1]
         /\ (\A i, k \in 1 .. Len(q) : q[i] = q[k] => i = k) => Head(q) \notin Range(Tail(q))
<1>1. /\ Tail(q) \in Seq(S) /\ Len(q) \in Nat \ {0}
      /\ Len(Tail(q)) = Len(q) - 1
      /\ \A i \in 1 .. Len(q) - 1 : Tail(q)[i] = q[i + 1]
      /\ Head(q) = q[1]
  OBVIOUS
<1>2. DOMAIN q = 1 .. Len(q) /\ DOMAIN Tail(q) = 1 .. Len(q) - 1 /\ \A i \in 1 .. Len(q) : q[i] \in S
  BY <1>1
<1>3. Head(q) \in Range(q) /\ Range(q) \subseteq S
  BY <1>1, <1>2 DEF Range
<1>4. ASSUME NEW x \in Range(Tail(q)) PROVE \E i \in 2 .. Len(q) : x = q[i]
  <2>1. PICK i \in 1 .. Len(q) - 1 : x = Tail(q)[i]
    BY <1>2 DEF Range
  <2> QED BY <2>1, <1>1
<1>5. Range(Tail(q)) \subseteq Range(q)
  BY <1>4, <1>2, <1>1 DEF Range
<1>6. ASSUME \A i, k \in 1 .. Len(q) : q[i] = q[k] => i = k PROVE Head(q) \notin Range(Tail(q))
  BY <1>4, <1>6, <1>1
<1> QED BY <1>1, <1>3, <1>5, <1>6

(* Every entry of the queue is a job, and is among the jobs of the queue.  *)
LEMMA PoolEntries ==
  ASSUME TypeOK
  PROVE  /\ Len(pool) \in Nat /\ Range(pool) \subseteq Jobs
         /\ \A i \in 1 .. Len(pool) : pool[i] \in Range(pool)
<1>1. Len(pool) \in Nat /\ DOMAIN pool = 1 .. Len(pool) /\ \A i \in 1 .. Len(pool) : pool[i] \in Jobs
  BY DEF TypeOK
<1> QED BY <1>1 DEF Range

LEMMA InvInit == Init => JobInv
<1> SUFFICES ASSUME Init PROVE JobInv
  OBVIOUS
<1>0. Range(pool) = {} /\ Len(pool) = 0 /\ pool \in Seq(Jobs)
  BY DEF Init, Range
<1>1. TypeOK
  BY <1>0, WebJobsAssumption DEF Init, TypeOK, ThreadType, Idle, Artifact
<1>2. OnePlace
  BY <1>0 DEF Init, OnePlace, Busy, At, Idle
<1>3. RowsTell /\ StagesTell /\ ArtifactsTell
  BY <1>0 DEF Init, RowsTell, StagesTell, ArtifactsTell, Busy, At, Idle
<1> QED BY <1>1, <1>2, <1>3 DEF JobInv

LEMMA InvCreate ==
  ASSUME JobInv, NEW j \in Jobs, NEW k \in {"sync", "preview"}, CreateJob(j, k)
  PROVE  JobInv'
<1> USE WebJobsAssumption DEF JobInv
<1>0. row[j].kind = None /\ j \notin imported \cup lost \cup inserted \cup Range(pool)
  BY DEF CreateJob, RowsTell
<1>t. \A w \in Workers : Busy(w) => thread[w].job \in Jobs \ {j}
  BY <1>0 DEF RowsTell, OnePlace
<1>r. /\ row'[j] = [kind |-> k, status |-> "QUEUED"]
      /\ \A i \in Jobs \ {j} : row'[i] = row[i] /\ since'[i] = since[i]
      /\ since'[j] = source /\ inserted' = inserted \cup {j}
      /\ UNCHANGED <<source, pool, thread, artifact, inventory, imported, lost, faults>>
  BY DEF CreateJob, TypeOK
<1>1. TypeOK'
  BY DEF CreateJob, TypeOK
<1>2. OnePlace'
  BY <1>0, <1>t, <1>r DEF OnePlace, Busy, At, Range
<1>3. RowsTell'
  <2>0. Range(pool)' = Range(pool) /\ inserted \cup Range(pool) \cup imported \subseteq Jobs
    BY <1>r, PoolEntries DEF TypeOK
  <2>1. \A i \in inserted' \cup Range(pool)' :
           row'[i].kind # None /\ row'[i].status = "QUEUED" /\ i \notin imported'
    BY <1>0, <1>r, <2>0 DEF RowsTell
  <2>2. \A w \in Workers :
           Busy(w)' => row'[thread'[w].job].kind # None /\ row'[thread'[w].job].status = "RUNNING"
    BY <1>t, <1>r DEF RowsTell, Busy, At
  <2>3. \A i \in Jobs : row'[i].kind = None => i \notin imported' \cup lost'
    BY <1>r DEF RowsTell
  <2>4. \A i \in imported' : row'[i].kind = "sync"
    BY <1>0, <1>r, <2>0 DEF RowsTell
  <2> QED BY <2>1, <2>2, <2>3, <2>4 DEF RowsTell
<1>4. StagesTell'
  BY <1>0, <1>t, <1>r DEF StagesTell, Busy, At
<1>5. ArtifactsTell'
  <2>1. artifact[j] = None
    BY <1>0, <1>t DEF ArtifactsTell, Busy, At
  <2>2. \A i \in Jobs : since'[i] <= source'
    BY <1>r DEF ArtifactsTell, TypeOK
  <2>3. ASSUME NEW i \in Jobs, artifact'[i] # None
        PROVE  i # j /\ artifact'[i] = artifact[i] /\ since'[i] = since[i] /\ artifact[i] # None
    BY <1>r, <2>1, <2>3
  <2> QED BY <1>r, <2>2, <2>3 DEF ArtifactsTell
<1> QED BY <1>1, <1>2, <1>3, <1>4, <1>5

LEMMA InvSubmit ==
  ASSUME JobInv, NEW j \in Jobs, Submit(j)
  PROVE  JobInv'
<1> USE WebJobsAssumption DEF JobInv
<1>0. /\ j \in inserted /\ inserted' = inserted \ {j} /\ pool' = Append(pool, j)
      /\ UNCHANGED <<source, row, thread, artifact, inventory, imported, since, lost, faults>>
  BY DEF Submit, historyVars
<1>p. /\ pool' \in Seq(Jobs) /\ Range(pool') = Range(pool) \cup {j} /\ Len(pool') = Len(pool) + 1
      /\ \A i \in 1 .. Len(pool) : pool'[i] = pool[i]
      /\ pool'[Len(pool) + 1] = j
      /\ \A i \in 1 .. Len(pool) : pool[i] \in Range(pool)
      /\ Len(pool) \in Nat
  <2>1. pool \in Seq(Jobs)
    BY DEF TypeOK
  <2>2. /\ Append(pool, j) \in Seq(Jobs) /\ Range(Append(pool, j)) = Range(pool) \cup {j}
        /\ Len(Append(pool, j)) = Len(pool) + 1
        /\ \A i \in 1 .. Len(pool) : Append(pool, j)[i] = pool[i]
        /\ Append(pool, j)[Len(pool) + 1] = j
    BY <2>1, AppendQueue
  <2> QED BY <1>0, <2>2, PoolEntries
<1>1. TypeOK'
  BY <1>0, <1>p DEF TypeOK
<1>2. OnePlace'
  <2>1. ASSUME NEW i \in 1 .. Len(pool'), NEW k \in 1 .. Len(pool'), pool'[i] = pool'[k] PROVE i = k
    BY <2>1, <1>0, <1>p DEF OnePlace
  <2>2. /\ (inserted \cap Range(pool))' = {}
        /\ (inserted \cup Range(pool))' = inserted \cup Range(pool)
    BY <1>0, <1>p DEF OnePlace
  <2> QED BY <2>1, <2>2, <1>0 DEF OnePlace, Busy, At
<1>3. (inserted \cup Range(pool))' = inserted \cup Range(pool)
  BY <1>0, <1>p
<1>4. RowsTell' /\ StagesTell' /\ ArtifactsTell'
  BY <1>0, <1>3 DEF RowsTell, StagesTell, ArtifactsTell, Busy, At
<1> QED BY <1>1, <1>2, <1>4

LEMMA InvSourceChanges == ASSUME JobInv, SourceChanges PROVE JobInv'
<1> USE DEF JobInv
<1>0. /\ source' = source + 1 /\ source \in Nat
      /\ UNCHANGED <<row, inserted, pool, thread, artifact, inventory, imported, since, lost, faults>>
  BY DEF SourceChanges, historyVars, TypeOK
<1>1. TypeOK'
  BY <1>0 DEF TypeOK
<1>2. OnePlace' /\ RowsTell'
  BY <1>0 DEF OnePlace, RowsTell, Busy, At, Range
<1>3. \A n \in Nat : n .. source \subseteq n .. source'
  BY <1>0
<1>4. \A j \in Jobs : since[j] \in Nat
  BY DEF TypeOK
<1>5. StagesTell'
  <2> SUFFICES ASSUME NEW w \in Workers, thread[w].stage = "store"
               PROVE  thread[w].read \in since[thread[w].job] .. source'
    BY <1>0 DEF StagesTell
  <2>1. thread[w].job \in Jobs /\ thread[w].read \in since[thread[w].job] .. source
    BY DEF OnePlace, StagesTell, Busy, At
  <2> QED BY <2>1, <1>3, <1>4
<1>6. ArtifactsTell'
  <2>1. \A j \in Jobs : since[j] <= source'
    BY <1>0, <1>4 DEF ArtifactsTell
  <2>2. \A j \in Jobs : artifact[j] # None => artifact[j] \in since[j] .. source'
    BY <1>3, <1>4 DEF ArtifactsTell
  <2> QED BY <1>0, <2>1, <2>2 DEF ArtifactsTell
<1> QED BY <1>1, <1>2, <1>5, <1>6

(* A thread goes on with the job it has.                                   *)
LEMMA Moves ==
  ASSUME JobInv, NEW w \in Workers, Busy(w), NEW t \in ThreadType,
         t.job = thread[w].job, t.stage # "idle", thread' = [thread EXCEPT ![w] = t],
         UNCHANGED <<row, inserted, pool, lost>>
  PROVE  /\ thread' \in [Workers -> ThreadType] /\ thread'[w] = t
         /\ \A v \in Workers \ {w} : thread'[v] = thread[v]
         /\ \A v \in Workers \ {w} : Busy(v) => thread[v].job # t.job
         /\ \A v \in Workers : thread'[v].job = thread[v].job /\ (Busy(v)' <=> Busy(v))
         /\ t.job \in Jobs \ (lost \cup inserted \cup Range(pool))
         /\ Range(pool)' = Range(pool)
         /\ OnePlace'
         /\ imported' = imported => RowsTell'
<1>1. /\ thread' \in [Workers -> ThreadType] /\ thread'[w] = t
      /\ \A v \in Workers \ {w} : thread'[v] = thread[v]
  BY DEF JobInv, TypeOK
<1>2. \A v \in Workers : thread'[v].job = thread[v].job /\ (Busy(v)' <=> Busy(v))
  BY <1>1 DEF Busy, At
<1>3. Range(pool)' = Range(pool)
  BY DEF Range
<1>4. t.job \in Jobs \ (lost \cup inserted \cup Range(pool))
  BY DEF JobInv, OnePlace
<1>5. \A v \in Workers \ {w} : Busy(v) => thread[v].job # t.job
  BY DEF JobInv, OnePlace
<1>6. OnePlace'
  BY <1>2, <1>3 DEF JobInv, OnePlace
<1>7. imported' = imported => RowsTell'
  BY <1>2, <1>3 DEF JobInv, RowsTell
<1> QED BY <1>1, <1>2, <1>3, <1>4, <1>5, <1>6, <1>7

LEMMA InvCollect ==
  ASSUME JobInv, NEW w \in Workers, Collect(w)
  PROVE  JobInv'
<1> DEFINE t == [thread[w] EXCEPT !.stage = "read"]
<1>0. /\ Busy(w) /\ thread' = [thread EXCEPT ![w] = t] /\ thread[w].stage = "collect"
      /\ artifact' = [artifact EXCEPT ![thread[w].job] = source]
      /\ UNCHANGED <<source, row, inserted, pool, inventory, imported, since, lost, faults>>
  BY DEF Collect, Busy, At, Goto, Artifact
<1>1. t \in ThreadType /\ t.job = thread[w].job /\ t.stage = "read"
  BY DEF JobInv, TypeOK, ThreadType
<1> HIDE DEF t
<1>2. /\ thread' \in [Workers -> ThreadType] /\ thread'[w] = t
      /\ \A v \in Workers \ {w} : thread'[v] = thread[v]
      /\ \A v \in Workers \ {w} : Busy(v) => thread[v].job # t.job
      /\ t.job \in Jobs
      /\ OnePlace' /\ RowsTell'
  BY <1>0, <1>1, Moves
<1>3. TypeOK'
  BY <1>0, <1>2 DEF JobInv, TypeOK
<1>4. StagesTell'
  <2>1. t.job \notin imported
    BY <1>0, <1>1 DEF JobInv, StagesTell
  <2> QED BY <1>0, <1>1, <1>2, <2>1 DEF JobInv, StagesTell
<1>5. ArtifactsTell'
  <2>1. /\ artifact'[t.job] = source /\ source \in since[t.job] .. source
        /\ \A i \in Jobs \ {t.job} : artifact'[i] = artifact[i]
    BY <1>0, <1>1, <1>2 DEF JobInv, TypeOK, ArtifactsTell
  <2>2. \E v \in Workers : thread'[v].job = t.job /\ thread'[v].stage \in {"read", "store", "audit", "unlink"}
    BY <1>1, <1>2
  <2>3. ASSUME NEW i \in Jobs \ {t.job}, artifact[i] # None
        PROVE  \/ i \in lost
               \/ \E v \in Workers : thread'[v].job = i /\ thread'[v].stage \in {"read", "store", "audit", "unlink"}
    BY <1>1, <1>2, <2>3 DEF JobInv, ArtifactsTell
  <2> QED BY <1>0, <2>1, <2>2, <2>3 DEF JobInv, ArtifactsTell
<1> QED BY <1>2, <1>3, <1>4, <1>5 DEF JobInv

LEMMA InvReadArtifact ==
  ASSUME JobInv, NEW w \in Workers, ReadArtifact(w)
  PROVE  JobInv'
<1> DEFINE version == artifact[Artifact(thread[w].job)]
           t == [thread[w] EXCEPT !.stage = IF version = None THEN "unlink" ELSE "store",
                                  !.ok = version # None, !.read = version]
<1>0. /\ Busy(w) /\ thread' = [thread EXCEPT ![w] = t] /\ thread[w].stage = "read"
      /\ UNCHANGED <<source, row, inserted, pool, artifact, inventory, imported, since, lost, faults>>
  BY DEF ReadArtifact, Busy, At, JobInv, TypeOK, ThreadType, historyVars
<1>a. thread[w] \in ThreadType /\ thread[w].job \in Jobs /\ version \in Nat \cup {None}
  BY <1>0 DEF JobInv, TypeOK, OnePlace, Artifact
<1>1. /\ t \in ThreadType /\ t.job = thread[w].job /\ t.stage \in {"store", "unlink"}
      /\ t.stage = "store" => t.read = artifact[t.job] /\ t.read # None
      /\ t.stage = "unlink" => ~t.ok
  BY <1>a DEF ThreadType, Artifact
<1> HIDE DEF t, version
<1>2. /\ thread' \in [Workers -> ThreadType] /\ thread'[w] = t
      /\ \A v \in Workers \ {w} : thread'[v] = thread[v]
      /\ OnePlace' /\ RowsTell' /\ t.job \in Jobs
  <2>1. t.stage # "idle" /\ UNCHANGED <<row, inserted, pool, lost>>
    BY <1>0, <1>1
  <2> QED BY <1>0, <1>1, <2>1, Moves
<1>3. TypeOK'
  BY <1>0, <1>2 DEF JobInv, TypeOK
<1>4. StagesTell'
  <2>1. t.job \notin imported /\ (t.stage = "store" => t.read \in since[t.job] .. source)
    BY <1>0, <1>1, <1>2 DEF JobInv, StagesTell, ArtifactsTell
  <2> QED BY <1>0, <1>1, <1>2, <2>1 DEF JobInv, StagesTell
<1>5. ArtifactsTell'
  <2>1. ASSUME NEW i \in Jobs, artifact[i] # None
        PROVE  \/ i \in lost
               \/ \E v \in Workers : thread'[v].job = i /\ thread'[v].stage \in {"read", "store", "audit", "unlink"}
    BY <1>1, <1>2, <2>1 DEF JobInv, ArtifactsTell
  <2> QED BY <1>0, <2>1 DEF JobInv, ArtifactsTell
<1> QED BY <1>2, <1>3, <1>4, <1>5 DEF JobInv

LEMMA InvStore ==
  ASSUME JobInv, NEW w \in Workers, Store(w)
  PROVE  JobInv'
<1> DEFINE t == [thread[w] EXCEPT !.stage = "audit", !.read = None]
<1>0. /\ Busy(w) /\ thread' = [thread EXCEPT ![w] = t] /\ thread[w].stage = "store"
      /\ UNCHANGED <<source, row, inserted, pool, artifact, since, lost, faults>>
  BY DEF Store, Busy, At, JobInv, TypeOK, ThreadType
<1>a. thread[w] \in ThreadType
  BY DEF JobInv, TypeOK
<1>1. t \in ThreadType /\ t.job = thread[w].job /\ t.stage = "audit"
  BY <1>a DEF ThreadType
<1>i. IF row[t.job].kind = "sync"
      THEN inventory' = thread[w].read /\ imported' = imported \cup {t.job}
      ELSE inventory' = inventory /\ imported' = imported
  BY <1>1 DEF Store, Installs
<1> HIDE DEF t
<1>2. /\ thread' \in [Workers -> ThreadType] /\ thread'[w] = t
      /\ \A v \in Workers \ {w} : thread'[v] = thread[v]
      /\ \A v \in Workers \ {w} : Busy(v) => thread[v].job # t.job
      /\ \A v \in Workers : thread'[v].job = thread[v].job /\ (Busy(v)' <=> Busy(v))
      /\ t.job \in Jobs \ (lost \cup inserted \cup Range(pool))
      /\ Range(pool)' = Range(pool)
      /\ OnePlace'
  <2>1. t.stage # "idle" /\ UNCHANGED <<row, inserted, pool, lost>>
    BY <1>0, <1>1
  <2> QED BY <1>0, <1>1, <2>1, Moves
<1>b. imported \subseteq imported' /\ imported' \subseteq imported \cup {t.job}
  BY <1>i
<1>3. TypeOK'
  <2>1. inventory' \in Nat
    BY <1>0, <1>1, <1>2, <1>i DEF JobInv, TypeOK, StagesTell
  <2>2. imported' \in SUBSET Jobs
    BY <1>2, <1>b DEF JobInv, TypeOK
  <2> QED BY <1>0, <1>2, <2>1, <2>2 DEF JobInv, TypeOK
<1>4. RowsTell'
  <2>1. row[t.job].kind # None
    BY <1>0, <1>1 DEF JobInv, RowsTell
  <2>2. \A i \in imported' : row[i].kind = "sync"
    BY <1>i DEF JobInv, RowsTell
  <2>3. \A i \in Jobs : row[i].kind = None => i \notin imported' \cup lost
    BY <2>1, <1>b DEF JobInv, RowsTell
  <2>4. \A i \in inserted \cup Range(pool) :
           row[i].kind # None /\ row[i].status = "QUEUED" /\ i \notin imported'
    BY <1>2, <1>b DEF JobInv, RowsTell
  <2>5. \A v \in Workers :
           Busy(v)' => row'[thread'[v].job].kind # None /\ row'[thread'[v].job].status = "RUNNING"
    BY <1>0, <1>2 DEF JobInv, RowsTell
  <2> QED BY <1>0, <1>2, <2>2, <2>3, <2>4, <2>5 DEF RowsTell
<1>5. StagesTell'
  <2> SUFFICES ASSUME NEW v \in Workers
               PROVE  /\ thread'[v].stage \in {"collect", "read", "store"} => thread'[v].job \notin imported'
                      /\ thread'[v].stage = "store" => thread'[v].read \in since[thread'[v].job] .. source
                      /\ /\ \/ thread'[v].stage = "audit"
                            \/ thread'[v].stage \in {"unlink", "report"} /\ thread'[v].ok
                         /\ row[thread'[v].job].kind = "sync"
                         => thread'[v].job \in imported'
    BY <1>0 DEF StagesTell
  <2>1. CASE v = w
    BY <2>1, <1>1, <1>2, <1>i
  <2>2. CASE v # w
    <3>1. thread'[v] = thread[v]
      BY <2>2, <1>2
    <3>2. Busy(v) => thread[v].job # t.job
      BY <2>2, <1>2
    <3> QED BY <3>1, <3>2, <1>b DEF JobInv, StagesTell, Busy, At
  <2> QED BY <2>1, <2>2
<1>6. ArtifactsTell'
  BY <1>0, <1>1, <1>2 DEF JobInv, ArtifactsTell
<1> QED BY <1>2, <1>3, <1>4, <1>5, <1>6 DEF JobInv

LEMMA InvAudit ==
  ASSUME JobInv, NEW w \in Workers, Audit(w)
  PROVE  JobInv'
<1> DEFINE t == [thread[w] EXCEPT !.stage = "unlink"]
<1>0. /\ Busy(w) /\ thread' = [thread EXCEPT ![w] = t] /\ thread[w].stage = "audit"
      /\ UNCHANGED <<source, row, inserted, pool, artifact, inventory, imported, since, lost, faults>>
  BY DEF Audit, Busy, At, Goto, historyVars
<1>1. t \in ThreadType /\ t.job = thread[w].job /\ t.stage = "unlink"
  BY DEF JobInv, TypeOK, ThreadType
<1> HIDE DEF t
<1>2. /\ thread' \in [Workers -> ThreadType] /\ thread'[w] = t
      /\ \A v \in Workers \ {w} : thread'[v] = thread[v]
      /\ OnePlace' /\ RowsTell'
  <2>1. t.stage # "idle" /\ UNCHANGED <<row, inserted, pool, lost>>
    BY <1>0, <1>1
  <2> QED BY <1>0, <1>1, <2>1, Moves
<1>3. TypeOK'
  BY <1>0, <1>2 DEF JobInv, TypeOK
<1>4. StagesTell'
  BY <1>0, <1>1, <1>2 DEF JobInv, StagesTell
<1>5. ArtifactsTell'
  BY <1>0, <1>1, <1>2 DEF JobInv, ArtifactsTell
<1> QED BY <1>2, <1>3, <1>4, <1>5 DEF JobInv

LEMMA InvUnlink ==
  ASSUME JobInv, NEW w \in Workers, Unlink(w)
  PROVE  JobInv'
<1> DEFINE t == [thread[w] EXCEPT !.stage = "report"]
<1>0. /\ Busy(w) /\ thread' = [thread EXCEPT ![w] = t] /\ thread[w].stage = "unlink"
      /\ artifact' = [artifact EXCEPT ![thread[w].job] = None]
      /\ UNCHANGED <<source, row, inserted, pool, inventory, imported, since, lost, faults>>
  BY DEF Unlink, Busy, At, Goto, historyVars, Artifact
<1>1. t \in ThreadType /\ t.job = thread[w].job /\ t.stage = "report" /\ t.ok = thread[w].ok
  BY DEF JobInv, TypeOK, ThreadType
<1> HIDE DEF t
<1>2. /\ thread' \in [Workers -> ThreadType] /\ thread'[w] = t
      /\ \A v \in Workers \ {w} : thread'[v] = thread[v]
      /\ OnePlace' /\ RowsTell' /\ t.job \in Jobs
  <2>1. t.stage # "idle" /\ UNCHANGED <<row, inserted, pool, lost>>
    BY <1>0, <1>1
  <2> QED BY <1>0, <1>1, <2>1, Moves
<1>a. artifact'[t.job] = None /\ \A i \in Jobs \ {t.job} : artifact'[i] = artifact[i]
  BY <1>0, <1>1, <1>2 DEF JobInv, TypeOK
<1>3. TypeOK'
  BY <1>0, <1>2 DEF JobInv, TypeOK
<1>4. StagesTell'
  BY <1>0, <1>1, <1>2 DEF JobInv, StagesTell
<1>5. ArtifactsTell'
  BY <1>0, <1>1, <1>2, <1>a DEF JobInv, ArtifactsTell
<1> QED BY <1>2, <1>3, <1>4, <1>5 DEF JobInv

LEMMA InvOperationFails ==
  ASSUME JobInv, NEW w \in Workers, OperationFails(w)
  PROVE  JobInv'
<1> DEFINE t == [thread[w] EXCEPT !.stage = "unlink", !.ok = FALSE]
<1>0. /\ Busy(w) /\ thread' = [thread EXCEPT ![w] = t]
      /\ thread[w].stage \in {"collect", "read", "store", "audit"}
      /\ faults' = faults + 1
      /\ UNCHANGED <<source, row, inserted, pool, artifact, inventory, imported, since, lost>>
  BY DEF OperationFails, Raise, Fault, Busy, At, historyVars, JobInv, TypeOK, ThreadType
<1>1. t \in ThreadType /\ t.job = thread[w].job /\ t.stage = "unlink" /\ ~t.ok
  BY DEF JobInv, TypeOK, ThreadType
<1> HIDE DEF t
<1>2. /\ thread' \in [Workers -> ThreadType] /\ thread'[w] = t
      /\ \A v \in Workers \ {w} : thread'[v] = thread[v]
      /\ OnePlace' /\ RowsTell'
  <2>1. t.stage # "idle" /\ UNCHANGED <<row, inserted, pool, lost>>
    BY <1>0, <1>1
  <2> QED BY <1>0, <1>1, <2>1, Moves
<1>3. TypeOK'
  BY <1>0, <1>2 DEF JobInv, TypeOK
<1>4. StagesTell'
  BY <1>0, <1>1, <1>2 DEF JobInv, StagesTell
<1>5. ArtifactsTell'
  BY <1>0, <1>1, <1>2 DEF JobInv, ArtifactsTell
<1> QED BY <1>2, <1>3, <1>4, <1>5 DEF JobInv

(* The first job of the queue leaves it.                                   *)
LEMMA Dequeue ==
  ASSUME JobInv, pool # <<>>, pool' = Tail(pool)
  PROVE  /\ pool' \in Seq(Jobs)
         /\ Head(pool) \in Jobs /\ Head(pool) \in Range(pool)
         /\ Range(pool)' \subseteq Range(pool) /\ Head(pool) \notin Range(pool)'
         /\ \A i, k \in 1 .. Len(pool') : pool'[i] = pool'[k] => i = k
<1>0. pool \in Seq(Jobs) /\ \A i, k \in 1 .. Len(pool) : pool[i] = pool[k] => i = k
  BY DEF JobInv, TypeOK, OnePlace
<1>1. /\ Tail(pool) \in Seq(Jobs)
      /\ Head(pool) \in Range(pool) /\ Range(pool) \subseteq Jobs
      /\ Range(Tail(pool)) \subseteq Range(pool)
      /\ Len(pool) \in Nat \ {0} /\ Len(Tail(pool)) = Len(pool) - 1
      /\ \A i \in 1 .. Len(pool) - 1 : Tail(pool)[i] = pool[i + 1]
      /\ Head(pool) \notin Range(Tail(pool))
  BY <1>0, TailQueue
<1>2. \A i, k \in 1 .. Len(pool') : pool'[i] = pool'[k] => i = k
  <2> SUFFICES ASSUME NEW i \in 1 .. Len(pool) - 1, NEW k \in 1 .. Len(pool) - 1,
                      pool[i + 1] = pool[k + 1]
               PROVE  i = k
    BY <1>1
  <2>1. i + 1 \in 1 .. Len(pool) /\ k + 1 \in 1 .. Len(pool)
    BY <1>1
  <2>2. i + 1 = k + 1
    BY <1>0, <2>1
  <2> QED BY <2>2
<1> QED BY <1>1, <1>2

LEMMA InvTake ==
  ASSUME JobInv, NEW w \in Workers, Take(w)
  PROVE  JobInv'
<1> DEFINE h == Head(pool)
           t == [Idle EXCEPT !.job = h, !.stage = "collect"]
<1>0. /\ ~Busy(w) /\ thread' = [thread EXCEPT ![w] = t] /\ pool # <<>> /\ pool' = Tail(pool)
      /\ row' = [row EXCEPT ![h].status = "RUNNING"]
      /\ UNCHANGED <<source, inserted, artifact, inventory, imported, since, lost, faults>>
  BY DEF Take, Busy, historyVars
<1>p. /\ pool' \in Seq(Jobs) /\ h \in Jobs /\ h \in Range(pool)
      /\ Range(pool)' \subseteq Range(pool) /\ h \notin Range(pool)'
      /\ \A i, k \in 1 .. Len(pool') : pool'[i] = pool'[k] => i = k
  BY <1>0, Dequeue
<1>1. t \in ThreadType /\ t.job = h /\ t.stage = "collect"
  BY <1>p DEF ThreadType, Idle
<1> HIDE DEF h, t
<1>2. /\ thread' \in [Workers -> ThreadType] /\ thread'[w] = t
      /\ \A v \in Workers \ {w} : thread'[v] = thread[v] /\ (Busy(v)' <=> Busy(v))
      /\ Busy(w)'
  BY <1>0, <1>1 DEF JobInv, TypeOK, Busy, At
<1>3. /\ row'[h].kind = row[h].kind /\ row'[h].status = "RUNNING"
      /\ \A i \in Jobs \ {h} : row'[i] = row[i]
      /\ \A i \in Jobs : row'[i].kind = row[i].kind
      /\ row' \in [Jobs -> [kind : {None, "sync", "preview"},
                            status : {None, "QUEUED", "RUNNING"} \cup Final]]
  BY <1>0, <1>p DEF JobInv, TypeOK
<1>4. h \notin inserted \cup lost \cup imported /\ row[h].kind # None
  BY <1>p DEF JobInv, OnePlace, RowsTell
<1>5. \A v \in Workers : Busy(v) => thread[v].job # h /\ thread[v].job \in Jobs
  BY <1>p DEF JobInv, OnePlace
<1>6. TypeOK'
  BY <1>0, <1>p, <1>2, <1>3 DEF JobInv, TypeOK
<1>7. OnePlace'
  <2>1. (inserted \cap Range(pool))' = {} /\ (lost \cap (inserted \cup Range(pool)))' = {}
    BY <1>0, <1>p DEF JobInv, OnePlace
  <2>2. \A v \in Workers :
          IF Busy(v)' THEN thread'[v].job \in Jobs \ (lost \cup inserted \cup Range(pool)')
          ELSE thread'[v].job = None
    BY <1>1, <1>2, <1>4, <1>p DEF JobInv, OnePlace
  <2>3. \A u, v \in Workers : Busy(u)' /\ thread'[u].job = thread'[v].job => u = v
    <3> SUFFICES ASSUME NEW u \in Workers, NEW v \in Workers, Busy(u)', thread'[u].job = thread'[v].job
                 PROVE  u = v
      OBVIOUS
    <3>1. CASE u = w
      <4>1. SUFFICES ASSUME v # w PROVE FALSE
        BY <3>1
      <4>2. thread[v].job = h
        BY <3>1, <4>1, <1>1, <1>2
      <4>3. ~Busy(v) /\ thread[v].job = None
        BY <4>2, <1>5 DEF JobInv, OnePlace
      <4> QED BY <4>2, <4>3, <1>p, WebJobsAssumption DEF Jobs
    <3>2. CASE u # w
      <4>1. v # w
        BY <3>2, <1>1, <1>2, <1>5
      <4> QED BY <3>2, <4>1, <1>2 DEF JobInv, OnePlace
    <3> QED BY <3>1, <3>2
  <2> QED BY <1>0, <1>p, <2>1, <2>2, <2>3 DEF OnePlace
<1>8. RowsTell'
  <2>0. inserted \cup Range(pool) \subseteq Jobs
    BY PoolEntries DEF JobInv, TypeOK
  <2>1. \A i \in inserted \cup Range(pool)' :
           row'[i].kind # None /\ row'[i].status = "QUEUED" /\ i \notin imported
    BY <1>3, <1>4, <1>p, <2>0 DEF JobInv, RowsTell
  <2>2. \A v \in Workers :
           Busy(v)' => row'[thread'[v].job].kind # None /\ row'[thread'[v].job].status = "RUNNING"
    BY <1>1, <1>2, <1>3, <1>4, <1>5 DEF JobInv, RowsTell
  <2>3. \A i \in Jobs : row'[i].kind = None => i \notin imported \cup lost
    BY <1>3 DEF JobInv, RowsTell
  <2>4. \A i \in imported : row'[i].kind = "sync"
    BY <1>3 DEF JobInv, TypeOK, RowsTell
  <2> QED BY <1>0, <2>1, <2>2, <2>3, <2>4 DEF RowsTell
<1>9. StagesTell'
  <2> SUFFICES ASSUME NEW v \in Workers
               PROVE  /\ thread'[v].stage \in {"collect", "read", "store"} => thread'[v].job \notin imported
                      /\ thread'[v].stage = "store" => thread'[v].read \in since[thread'[v].job] .. source
                      /\ /\ \/ thread'[v].stage = "audit"
                            \/ thread'[v].stage \in {"unlink", "report"} /\ thread'[v].ok
                         /\ row'[thread'[v].job].kind = "sync"
                         => thread'[v].job \in imported
    BY <1>0 DEF StagesTell
  <2>1. CASE v = w
    BY <2>1, <1>1, <1>2, <1>4
  <2>2. CASE v # w
    BY <2>2, <1>2, <1>3, <1>5 DEF JobInv, StagesTell, Busy, At
  <2> QED BY <2>1, <2>2
<1>10. ArtifactsTell'
  BY <1>0, <1>2 DEF JobInv, ArtifactsTell, Busy, At
<1> QED BY <1>6, <1>7, <1>8, <1>9, <1>10 DEF JobInv

LEMMA InvTakeFails ==
  ASSUME JobInv, NEW w \in Workers, TakeFails(w)
  PROVE  JobInv'
<1> DEFINE h == Head(pool)
<1>0. /\ pool # <<>> /\ pool' = Tail(pool) /\ lost' = lost \cup {h} /\ faults' = faults + 1
      /\ UNCHANGED <<source, row, inserted, thread, artifact, inventory, imported, since>>
  BY DEF TakeFails, Fault, historyVars
<1>p. /\ pool' \in Seq(Jobs) /\ h \in Jobs /\ h \in Range(pool)
      /\ Range(pool)' \subseteq Range(pool) /\ h \notin Range(pool)'
      /\ \A i, k \in 1 .. Len(pool') : pool'[i] = pool'[k] => i = k
  BY <1>0, Dequeue
<1> HIDE DEF h
<1>1. h \notin inserted /\ row[h].kind # None
  BY <1>p DEF JobInv, OnePlace, RowsTell
<1>2. \A v \in Workers : (Busy(v)' <=> Busy(v)) /\ (Busy(v) => thread[v].job # h)
  BY <1>0, <1>p DEF JobInv, OnePlace, Busy, At
<1>3. TypeOK'
  BY <1>0, <1>p DEF JobInv, TypeOK
<1>4. OnePlace'
  <2>1. (inserted \cap Range(pool))' = {} /\ (lost \cap (inserted \cup Range(pool)))' = {}
    BY <1>0, <1>1, <1>p DEF JobInv, OnePlace
  <2>2. \A v \in Workers :
          IF Busy(v) THEN thread[v].job \in Jobs \ (lost' \cup inserted \cup Range(pool)')
          ELSE thread[v].job = None
    BY <1>0, <1>2, <1>p DEF JobInv, OnePlace
  <2> QED BY <1>0, <1>2, <1>p, <2>1, <2>2 DEF JobInv, OnePlace
<1>5. RowsTell'
  BY <1>0, <1>1, <1>2, <1>p DEF JobInv, RowsTell
<1>6. StagesTell' /\ ArtifactsTell'
  BY <1>0 DEF JobInv, StagesTell, ArtifactsTell
<1> QED BY <1>3, <1>4, <1>5, <1>6 DEF JobInv

(* A thread that has its outcome becomes idle, whatever it wrote.          *)
LEMMA Leaves ==
  ASSUME JobInv, NEW w \in Workers, At(w, "report"), thread' = [thread EXCEPT ![w] = Idle],
         UNCHANGED <<source, inserted, pool, artifact, imported, since>>,
         lost \subseteq lost', lost' \subseteq lost \cup {thread[w].job}
  PROVE  /\ thread' \in [Workers -> ThreadType] /\ thread'[w] = Idle /\ ~Busy(w)'
         /\ \A v \in Workers \ {w} : thread'[v] = thread[v] /\ (Busy(v)' <=> Busy(v))
         /\ \A v \in Workers \ {w} : Busy(v) => thread[v].job # thread[w].job
         /\ thread[w].job \in Jobs \ (lost \cup inserted \cup Range(pool))
         /\ row[thread[w].job].kind # None
         /\ Range(pool)' = Range(pool)
         /\ OnePlace' /\ ArtifactsTell'
<1>1. Idle \in ThreadType /\ Idle.stage = "idle" /\ Idle.job = None
  BY DEF Idle, ThreadType
<1>2. /\ thread' \in [Workers -> ThreadType] /\ thread'[w] = Idle /\ ~Busy(w)' /\ Busy(w)
      /\ \A v \in Workers \ {w} : thread'[v] = thread[v] /\ (Busy(v)' <=> Busy(v))
  BY <1>1 DEF JobInv, TypeOK, Busy, At
<1>3. /\ \A v \in Workers \ {w} : Busy(v) => thread[v].job # thread[w].job
      /\ thread[w].job \in Jobs \ (lost \cup inserted \cup Range(pool))
      /\ row[thread[w].job].kind # None
  BY <1>2 DEF JobInv, OnePlace, RowsTell
<1>4. Range(pool)' = Range(pool)
  BY DEF Range
<1>5. OnePlace'
  <2>1. \A v \in Workers :
          IF Busy(v)' THEN thread'[v].job \in Jobs \ (lost' \cup inserted \cup Range(pool))
          ELSE thread'[v].job = None
    BY <1>1, <1>2, <1>3 DEF JobInv, OnePlace
  <2>2. \A u, v \in Workers : Busy(u)' /\ thread'[u].job = thread'[v].job => u = v
    <3> SUFFICES ASSUME NEW u \in Workers, NEW v \in Workers, Busy(u)', thread'[u].job = thread'[v].job
                 PROVE  u = v
      OBVIOUS
    <3>1. u # w /\ thread'[u].job \in Jobs
      BY <1>2, <2>1
    <3>2. v # w
      BY <3>1, <1>1, <1>2, WebJobsAssumption DEF Jobs
    <3> QED BY <3>1, <3>2, <1>2 DEF JobInv, OnePlace
  <2>3. lost' \cap (inserted \cup Range(pool)) = {}
    BY <1>3 DEF JobInv, OnePlace
  <2> QED BY <1>4, <2>1, <2>2, <2>3 DEF JobInv, OnePlace
<1>6. ArtifactsTell'
  <2>1. ASSUME NEW i \in Jobs, artifact[i] # None
        PROVE  \/ i \in lost'
               \/ \E v \in Workers : thread'[v].job = i /\ thread'[v].stage \in {"read", "store", "audit", "unlink"}
    BY <1>2, <2>1 DEF JobInv, ArtifactsTell, At
  <2> QED BY <2>1 DEF JobInv, ArtifactsTell
<1> QED BY <1>2, <1>3, <1>4, <1>5, <1>6

LEMMA InvReport ==
  ASSUME JobInv, NEW w \in Workers, Report(w)
  PROVE  JobInv'
<1> DEFINE j == thread[w].job
<1>0. /\ At(w, "report") /\ thread' = [thread EXCEPT ![w] = Idle]
      /\ row' = [row EXCEPT ![j].status = IF thread[w].ok THEN "SUCCEEDED" ELSE "FAILED"]
      /\ UNCHANGED <<source, inserted, pool, artifact, inventory, imported, since, lost, faults>>
  BY DEF Report, historyVars
<1>1. /\ thread' \in [Workers -> ThreadType] /\ thread'[w] = Idle /\ ~Busy(w)'
      /\ \A v \in Workers \ {w} : thread'[v] = thread[v] /\ (Busy(v)' <=> Busy(v))
      /\ \A v \in Workers \ {w} : Busy(v) => thread[v].job # j
      /\ j \in Jobs \ (lost \cup inserted \cup Range(pool))
      /\ row[j].kind # None
      /\ Range(pool)' = Range(pool)
      /\ OnePlace' /\ ArtifactsTell'
  BY <1>0, Leaves
<1> HIDE DEF j
<1>2. /\ \A i \in Jobs \ {j} : row'[i] = row[i]
      /\ \A i \in Jobs : row'[i].kind = row[i].kind
      /\ row' \in [Jobs -> [kind : {None, "sync", "preview"},
                            status : {None, "QUEUED", "RUNNING"} \cup Final]]
  <2>1. PICK outcome \in Final : row' = [row EXCEPT ![j].status = outcome]
    BY <1>0 DEF Final
  <2>2. row \in [Jobs -> [kind : {None, "sync", "preview"},
                          status : {None, "QUEUED", "RUNNING"} \cup Final]]
    BY DEF JobInv, TypeOK
  <2> QED BY <1>1, <2>1, <2>2
<1>3. TypeOK'
  BY <1>0, <1>1, <1>2 DEF JobInv, TypeOK
<1>4. RowsTell'
  <2>0. inserted \cup Range(pool) \cup imported \subseteq Jobs
    BY PoolEntries DEF JobInv, TypeOK
  <2>1. \A i \in inserted \cup Range(pool) :
           row'[i].kind # None /\ row'[i].status = "QUEUED" /\ i \notin imported
    BY <1>1, <1>2, <2>0 DEF JobInv, RowsTell
  <2>2. \A v \in Workers :
           Busy(v)' => row'[thread'[v].job].kind # None /\ row'[thread'[v].job].status = "RUNNING"
    <3> SUFFICES ASSUME NEW v \in Workers, Busy(v)'
                 PROVE  row'[thread'[v].job].kind # None /\ row'[thread'[v].job].status = "RUNNING"
      OBVIOUS
    <3>1. v # w /\ Busy(v) /\ thread'[v] = thread[v] /\ thread[v].job # j
      BY <1>1
    <3>2. thread[v].job \in Jobs
      BY <3>1 DEF JobInv, OnePlace
    <3> QED BY <3>1, <3>2, <1>2 DEF JobInv, RowsTell
  <2>3. \A i \in Jobs : row'[i].kind = None => i \notin imported \cup lost
    BY <1>2 DEF JobInv, RowsTell
  <2>4. \A i \in imported : row'[i].kind = "sync"
    BY <1>2, <2>0 DEF JobInv, RowsTell
  <2> QED BY <1>0, <1>1, <2>1, <2>2, <2>3, <2>4 DEF RowsTell
<1>5. StagesTell'
  <2> SUFFICES ASSUME NEW v \in Workers
               PROVE  /\ thread'[v].stage \in {"collect", "read", "store"} => thread'[v].job \notin imported
                      /\ thread'[v].stage = "store" => thread'[v].read \in since[thread'[v].job] .. source
                      /\ /\ \/ thread'[v].stage = "audit"
                            \/ thread'[v].stage \in {"unlink", "report"} /\ thread'[v].ok
                         /\ row'[thread'[v].job].kind = "sync"
                         => thread'[v].job \in imported
    BY <1>0 DEF StagesTell
  <2>1. CASE v = w
    BY <2>1, <1>1 DEF Idle
  <2>2. CASE v # w
    <3>1. thread'[v] = thread[v] /\ (Busy(v) => thread[v].job \in Jobs)
      BY <2>2, <1>1 DEF JobInv, OnePlace
    <3> QED BY <3>1, <1>2 DEF JobInv, StagesTell, Busy, At
  <2> QED BY <2>1, <2>2
<1> QED BY <1>1, <1>3, <1>4, <1>5 DEF JobInv

LEMMA InvReportFails ==
  ASSUME JobInv, NEW w \in Workers, ReportFails(w)
  PROVE  JobInv'
<1> DEFINE j == thread[w].job
<1>0. /\ At(w, "report") /\ thread' = [thread EXCEPT ![w] = Idle] /\ lost' = lost \cup {j}
      /\ faults' = faults + 1
      /\ UNCHANGED <<source, row, inserted, pool, artifact, inventory, imported, since>>
  BY DEF ReportFails, Fault, historyVars
<1>1. /\ thread' \in [Workers -> ThreadType] /\ thread'[w] = Idle /\ ~Busy(w)'
      /\ \A v \in Workers \ {w} : thread'[v] = thread[v] /\ (Busy(v)' <=> Busy(v))
      /\ j \in Jobs /\ row[j].kind # None
      /\ Range(pool)' = Range(pool)
      /\ OnePlace' /\ ArtifactsTell'
  BY <1>0, Leaves
<1> HIDE DEF j
<1>2. TypeOK'
  BY <1>0, <1>1 DEF JobInv, TypeOK
<1>3. RowsTell'
  BY <1>0, <1>1 DEF JobInv, RowsTell
<1>4. StagesTell'
  BY <1>0, <1>1 DEF JobInv, StagesTell, Idle
<1> QED BY <1>1, <1>2, <1>3, <1>4 DEF JobInv

LEMMA InvRestart == ASSUME JobInv, Restart PROVE JobInv'
<1> DEFINE held == {thread[w].job : w \in Workers} \ {None}
<1>0. /\ lost' = lost \cup inserted \cup Range(pool) \cup held
      /\ inserted' = {} /\ pool' = <<>> /\ thread' = [w \in Workers |-> Idle]
      /\ faults' = faults + 1
      /\ UNCHANGED <<source, row, artifact, inventory, imported, since>>
  BY DEF Restart, Fault, historyVars
<1>1. held \subseteq Jobs /\ \A j \in held : row[j].kind # None
  BY DEF JobInv, OnePlace, RowsTell
<1>2. pool' \in Seq(Jobs) /\ Len(pool') = 0 /\ Range(pool)' = {}
  BY <1>0 DEF Range
<1>3. \A w \in Workers : thread'[w] = Idle /\ ~Busy(w)'
  BY <1>0 DEF Busy, At, Idle
<1>4. Idle \in ThreadType /\ Idle.stage = "idle" /\ Idle.job = None
  BY DEF Idle, ThreadType
<1>5. TypeOK'
  <2>1. lost' \subseteq Jobs
    BY <1>0, <1>1, PoolEntries DEF JobInv, TypeOK
  <2> QED BY <1>0, <1>2, <1>4, <2>1 DEF JobInv, TypeOK
<1>6. OnePlace'
  BY <1>0, <1>2, <1>3, <1>4 DEF OnePlace
<1>7. RowsTell'
  BY <1>0, <1>1, <1>2, <1>3 DEF JobInv, RowsTell
<1>8. StagesTell'
  BY <1>0, <1>3, <1>4 DEF StagesTell
<1>9. ArtifactsTell'
  <2>1. ASSUME NEW j \in Jobs, artifact[j] # None PROVE j \in lost'
    <3>1. CASE j \in lost
      BY <3>1, <1>0
    <3>2. CASE \E w \in Workers : thread[w].job = j
      BY <3>2, <1>0, WebJobsAssumption DEF Jobs
    <3> QED BY <2>1, <3>1, <3>2 DEF JobInv, ArtifactsTell
  <2> QED BY <1>0, <2>1 DEF JobInv, ArtifactsTell
<1> QED BY <1>5, <1>6, <1>7, <1>8, <1>9 DEF JobInv

LEMMA InvStep == ASSUME JobInv, [Next]_vars PROVE JobInv'
<1>1. CASE UNCHANGED vars
  BY <1>1 DEF vars, JobInv, TypeOK, OnePlace, RowsTell, StagesTell, ArtifactsTell, Busy, At, Range
<1>2. CASE Next
  <2>1. ASSUME NEW j \in Jobs, Submit(j) \/ \E k \in {"sync", "preview"} : CreateJob(j, k)
        PROVE  JobInv'
    BY <2>1, InvSubmit, InvCreate
  <2>2. ASSUME NEW w \in Workers, Work(w) \/ OperationFails(w) \/ TakeFails(w) \/ ReportFails(w)
        PROVE  JobInv'
    BY <2>2, InvTake, InvCollect, InvReadArtifact, InvStore, InvAudit, InvUnlink, InvReport,
       InvOperationFails, InvTakeFails, InvReportFails DEF Work
  <2> QED BY <1>2, <2>1, <2>2, InvSourceChanges, InvRestart DEF Next
<1> QED BY <1>1, <1>2

(* The inductive invariant holds in every reachable state.                 *)
THEOREM JobsAreConsistent == Spec => []JobInv
BY InvInit, InvStep, PTL DEF Spec

(* A file is left behind by a restart or a lost commit only, for every     *)
(* number of jobs and threads.                                             *)
THEOREM ArtifactsAreOfWorkingJobs == Spec => []ArtifactsOfWorkingJobs
<1>1. JobInv => ArtifactsOfWorkingJobs
  BY DEF JobInv, ArtifactsTell, ArtifactsOfWorkingJobs, Artifact, Working
<1> QED BY <1>1, JobsAreConsistent, PTL

-----------------------------------------------------------------------------
(* Every step of the threads is a step of SyncService or a stutter.        *)

LEMMA PhaseOf ==
  ASSUME TypeOK, NEW j \in Jobs, row[j].kind # None, row[j].status \notin Final, j \notin lost
  PROVE  /\ Phase(j) = IF j \in imported THEN "installed" ELSE row[j].kind
         /\ row[j].kind \in {"sync", "preview"}
         /\ Phase(j) \in {"sync", "preview", "installed"}
<1>1. row[j].kind \in {"sync", "preview"}
  BY DEF TypeOK
<1> QED BY <1>1 DEF Phase, Final

(* One phase changes.                                                      *)
LEMMA OnePhase ==
  ASSUME NEW j \in Jobs, NEW p, Phase(j)' = p, \A i \in Jobs \ {j} : Phase(i)' = Phase(i)
  PROVE  [i \in Jobs |-> Phase(i)]' = [[i \in Jobs |-> Phase(i)] EXCEPT ![j] = p]
OBVIOUS

LEMMA SamePhases ==
  ASSUME \A j \in Jobs : Phase(j)' = Phase(j), UNCHANGED <<source, inventory, since>>
  PROVE  UNCHANGED Promise!vars
BY DEF Promise!vars

(* Jobs that are lost are over for the promise.                            *)
LEMMA LosingIsEnd ==
  ASSUME JobInv, NEW L \in SUBSET (Jobs \ lost), lost' = lost \cup L,
         \A j \in L : row[j].kind # None /\ row[j].status \notin Final,
         UNCHANGED <<source, row, inventory, imported, since>>
  PROVE  Promise!End
<1>1. \A j \in L : Phase(j) \in {"sync", "preview", "installed"}
  BY PhaseOf DEF JobInv
<1>2. \A j \in L : Phase(j)' = "over"
  BY DEF Phase, Final
<1>3. \A j \in Jobs \ L : Phase(j)' = Phase(j)
  BY DEF Phase
<1>4. [j \in Jobs |-> Phase(j)]' =
         [j \in Jobs |-> IF j \in L THEN "over" ELSE [i \in Jobs |-> Phase(i)][j]]
  BY <1>2, <1>3
<1>5. L \in SUBSET {j \in Jobs : [i \in Jobs |-> Phase(i)][j] \in {"sync", "preview", "installed"}}
  BY <1>1
<1> QED BY <1>4, <1>5 DEF Promise!End

LEMMA CreateBegins ==
  ASSUME JobInv, NEW j \in Jobs, NEW k \in {"sync", "preview"}, CreateJob(j, k)
  PROVE  Promise!Begin(j)
<1>1. /\ row[j].kind = None /\ row'[j] = [kind |-> k, status |-> "QUEUED"]
      /\ \A i \in Jobs \ {j} : row'[i] = row[i]
      /\ since' = [since EXCEPT ![j] = source]
      /\ UNCHANGED <<source, inventory, imported, lost>>
  BY DEF CreateJob, JobInv, TypeOK
<1>2. Phase(j) = "new" /\ j \notin imported \cup lost
  BY <1>1 DEF Phase, JobInv, RowsTell
<1>3. Phase(j)' = k
  BY <1>1, <1>2, WebJobsAssumption DEF Phase
<1>4. \A i \in Jobs \ {j} : Phase(i)' = Phase(i)
  BY <1>1 DEF Phase
<1>5. [i \in Jobs |-> Phase(i)]' = [[i \in Jobs |-> Phase(i)] EXCEPT ![j] = k]
  BY <1>3, <1>4, OnePhase
<1> QED BY <1>1, <1>2, <1>5 DEF Promise!Begin

LEMMA StoreInstalls ==
  ASSUME JobInv, NEW w \in Workers, Store(w)
  PROVE  UNCHANGED Promise!vars \/ \E j \in Jobs : Promise!Install(j)
<1>0. PICK j \in Jobs : j = thread[w].job
  BY DEF Store, JobInv, OnePlace, Busy, At
<1>1. /\ thread[w].stage = "store" /\ Busy(w)
      /\ UNCHANGED <<source, row, since, lost>>
  BY DEF Store, At, Busy
<1>2. CASE row[j].kind # "sync"
  <2>1. UNCHANGED <<inventory, imported>>
    BY <1>0, <1>2 DEF Store, Installs
  <2> QED BY <1>1, <2>1, SamePhases DEF Phase
<1>3. CASE row[j].kind = "sync"
  <2>1. inventory' = thread[w].read /\ imported' = imported \cup {j}
    BY <1>0, <1>3 DEF Store, Installs
  <2>2. /\ j \in Jobs \ (lost \cup imported) /\ row[j].status \notin Final /\ row[j].kind # None
        /\ thread[w].read \in since[j] .. source
    BY <1>0, <1>1 DEF JobInv, OnePlace, RowsTell, StagesTell, Final
  <2>3. Phase(j) = "sync"
    BY <1>3, <2>2, PhaseOf DEF JobInv
  <2>4. Phase(j)' = "installed"
    BY <1>1, <2>1, <2>2 DEF Phase, Final
  <2>5. \A i \in Jobs \ {j} : Phase(i)' = Phase(i)
    BY <1>1, <2>1 DEF Phase
  <2>6. [i \in Jobs |-> Phase(i)]' = [[i \in Jobs |-> Phase(i)] EXCEPT ![j] = "installed"]
    BY <2>2, <2>4, <2>5, OnePhase
  <2>7. Promise!Install(j)
    BY <1>1, <2>1, <2>2, <2>3, <2>6 DEF Promise!Install
  <2> QED BY <2>2, <2>7
<1> QED BY <1>2, <1>3

LEMMA ReportEnds ==
  ASSUME JobInv, NEW w \in Workers, Report(w)
  PROVE  Promise!End \/ \E j \in Jobs : Promise!Succeed(j)
<1>0. PICK j \in Jobs : j = thread[w].job
  BY DEF Report, JobInv, OnePlace, Busy, At
<1>1. /\ thread[w].stage = "report" /\ Busy(w)
      /\ row' = [row EXCEPT ![j].status = IF thread[w].ok THEN "SUCCEEDED" ELSE "FAILED"]
      /\ UNCHANGED <<source, inventory, imported, since, lost>>
  BY <1>0 DEF Report, At, Busy, historyVars
<1>2. /\ j \in Jobs \ lost /\ row[j].status \notin Final /\ row[j].kind # None
      /\ thread[w].ok /\ row[j].kind = "sync" => j \in imported
  BY <1>0, <1>1 DEF JobInv, OnePlace, RowsTell, StagesTell, Final
<1>3. /\ \A i \in Jobs \ {j} : row'[i] = row[i]
      /\ row'[j].kind = row[j].kind
      /\ row'[j].status = IF thread[w].ok THEN "SUCCEEDED" ELSE "FAILED"
  BY <1>1, <1>2 DEF JobInv, TypeOK
<1>4. \A i \in Jobs \ {j} : Phase(i)' = Phase(i)
  BY <1>1, <1>3 DEF Phase
<1>5. /\ Phase(j) \in {"sync", "preview", "installed"}
      /\ thread[w].ok => Phase(j) \in {"preview", "installed"}
  BY <1>2, PhaseOf DEF JobInv
<1>6. CASE thread[w].ok
  <2>1. Phase(j)' = "done"
    BY <1>2, <1>3, <1>6 DEF Phase
  <2>2. [i \in Jobs |-> Phase(i)]' = [[i \in Jobs |-> Phase(i)] EXCEPT ![j] = "done"]
    BY <1>2, <1>4, <2>1, OnePhase
  <2> QED BY <1>1, <1>2, <1>5, <1>6, <2>2 DEF Promise!Succeed
<1>7. CASE ~thread[w].ok
  <2>1. Phase(j)' = "over"
    BY <1>2, <1>3, <1>7 DEF Phase
  <2>2. [i \in Jobs |-> Phase(i)]' =
           [i \in Jobs |-> IF i \in {j} THEN "over" ELSE [k \in Jobs |-> Phase(k)][i]]
    BY <1>4, <2>1
  <2>3. {j} \in SUBSET {i \in Jobs : [k \in Jobs |-> Phase(k)][i] \in {"sync", "preview", "installed"}}
    BY <1>2, <1>5
  <2> QED BY <1>1, <2>2, <2>3 DEF Promise!End
<1> QED BY <1>6, <1>7

LEMMA TakeStutters ==
  ASSUME JobInv, NEW w \in Workers, Take(w)
  PROVE  UNCHANGED Promise!vars
<1> DEFINE h == Head(pool)
<1>1. /\ pool # <<>> /\ pool' = Tail(pool)
      /\ row' = [row EXCEPT ![h].status = "RUNNING"]
      /\ UNCHANGED <<source, inventory, imported, since, lost>>
  BY DEF Take, historyVars
<1>2. h \in Jobs /\ row[h].status = "QUEUED"
  BY <1>1, Dequeue DEF JobInv, RowsTell
<1> HIDE DEF h
<1>3. /\ \A i \in Jobs \ {h} : row'[i] = row[i]
      /\ row'[h].kind = row[h].kind /\ row'[h].status = "RUNNING"
  BY <1>1, <1>2 DEF JobInv, TypeOK
<1>4. \A i \in Jobs : Phase(i)' = Phase(i)
  BY <1>1, <1>2, <1>3 DEF Phase
<1> QED BY <1>1, <1>4, SamePhases

LEMMA LossesEnd ==
  ASSUME JobInv,
         Restart \/ \E w \in Workers : TakeFails(w) \/ ReportFails(w)
  PROVE  Promise!End
<1>q. \A j \in inserted \cup Range(pool) :
         j \in Jobs \ lost /\ row[j].kind # None /\ row[j].status \notin Final
  BY PoolEntries DEF JobInv, TypeOK, OnePlace, RowsTell, Final
<1>b. \A w \in Workers : thread[w].job # None =>
         /\ thread[w].job \in Jobs \ lost
         /\ row[thread[w].job].kind # None /\ row[thread[w].job].status \notin Final
  BY DEF JobInv, OnePlace, RowsTell, Final
<1>1. CASE Restart
  <2> DEFINE L == inserted \cup Range(pool) \cup ({thread[w].job : w \in Workers} \ {None})
  <2>1. lost' = lost \cup L /\ UNCHANGED <<source, row, inventory, imported, since>>
    BY <1>1 DEF Restart, historyVars
  <2>2. L \in SUBSET (Jobs \ lost) /\ \A j \in L : row[j].kind # None /\ row[j].status \notin Final
    BY <1>q, <1>b
  <2> HIDE DEF L
  <2> QED BY <2>1, <2>2, LosingIsEnd
<1>2. ASSUME NEW w \in Workers, TakeFails(w) PROVE Promise!End
  <2> DEFINE L == {Head(pool)}
  <2>1. /\ lost' = lost \cup L /\ UNCHANGED <<source, row, inventory, imported, since>>
        /\ pool # <<>> /\ pool' = Tail(pool)
    BY <1>2 DEF TakeFails, historyVars
  <2>2. Head(pool) \in Range(pool)
    BY <2>1, Dequeue
  <2>3. L \in SUBSET (Jobs \ lost) /\ \A j \in L : row[j].kind # None /\ row[j].status \notin Final
    BY <1>q, <2>2
  <2> HIDE DEF L
  <2> QED BY <2>1, <2>3, LosingIsEnd
<1>3. ASSUME NEW w \in Workers, ReportFails(w) PROVE Promise!End
  <2> DEFINE L == {thread[w].job}
  <2>1. /\ lost' = lost \cup L /\ UNCHANGED <<source, row, inventory, imported, since>>
        /\ thread[w].stage = "report"
    BY <1>3 DEF ReportFails, At, historyVars
  <2>2. thread[w].job \in Jobs
    BY <2>1 DEF JobInv, OnePlace, Busy, At
  <2>3. L \in SUBSET (Jobs \ lost) /\ \A j \in L : row[j].kind # None /\ row[j].status \notin Final
    BY <1>b, <2>2, WebJobsAssumption DEF Jobs
  <2> HIDE DEF L
  <2> QED BY <2>1, <2>3, LosingIsEnd
<1> QED BY <1>1, <1>2, <1>3

(* The steps the promise does not see.                                     *)
LEMMA QuietSteps ==
  ASSUME NEW w \in Workers,
         Collect(w) \/ ReadArtifact(w) \/ Audit(w) \/ Unlink(w) \/ OperationFails(w)
  PROVE  UNCHANGED Promise!vars
<1>1. UNCHANGED <<source, row, inventory, imported, since, lost>>
  BY DEF Collect, ReadArtifact, Audit, Unlink, OperationFails, historyVars
<1>2. \A j \in Jobs : Phase(j)' = Phase(j)
  BY <1>1 DEF Phase
<1> QED BY <1>1, <1>2, SamePhases

LEMMA PromiseInit == Init => Promise!Init
BY DEF Init, Promise!Init, Phase

LEMMA PromiseStep == ASSUME JobInv, [Next]_vars PROVE [Promise!Next]_(Promise!vars)
<1>1. CASE UNCHANGED vars
  <2>1. \A j \in Jobs : Phase(j)' = Phase(j)
    BY <1>1 DEF vars, Phase
  <2> QED BY <1>1, <2>1, SamePhases DEF vars
<1>2. CASE SourceChanges
  <2>1. /\ source' = source + 1
        /\ UNCHANGED <<row, inventory, imported, since, lost>>
    BY <1>2 DEF SourceChanges, historyVars
  <2>2. [j \in Jobs |-> Phase(j)]' = [j \in Jobs |-> Phase(j)]
    BY <2>1 DEF Phase
  <2>3. Promise!SourceMoves
    BY <2>1, <2>2 DEF Promise!SourceMoves
  <2> QED BY <2>3 DEF Promise!Next
<1>3. CASE Restart
  BY <1>3, LossesEnd DEF Promise!Next
<1>4. ASSUME NEW j \in Jobs, Submit(j) PROVE UNCHANGED Promise!vars
  <2>1. UNCHANGED <<source, row, inventory, imported, since, lost>>
    BY <1>4 DEF Submit, historyVars
  <2>2. \A i \in Jobs : Phase(i)' = Phase(i)
    BY <2>1 DEF Phase
  <2> QED BY <2>1, <2>2, SamePhases
<1>5. ASSUME NEW j \in Jobs, NEW k \in {"sync", "preview"}, CreateJob(j, k) PROVE Promise!Next
  BY <1>5, CreateBegins DEF Promise!Next
<1>6. ASSUME NEW w \in Workers, Work(w) \/ OperationFails(w) PROVE [Promise!Next]_(Promise!vars)
  BY <1>6, QuietSteps, TakeStutters, StoreInstalls, ReportEnds DEF Work, Promise!Next
<1>7. ASSUME NEW w \in Workers, TakeFails(w) \/ ReportFails(w) PROVE Promise!Next
  BY <1>7, LossesEnd DEF Promise!Next
<1> QED BY <1>1, <1>2, <1>3, <1>4, <1>5, <1>6, <1>7 DEF Next

(* A sync installs, at most once and in one step, a state the source had   *)
(* while the sync was under way, and nothing is reported as done that was  *)
(* not installed: for every number of jobs, threads, changes and faults.   *)
THEOREM ImplementsSyncService == Spec => ImplementsPromise
<1>1. Init => Promise!Init
  BY PromiseInit
<1>2. JobInv /\ [Next]_vars => [Promise!Next]_(Promise!vars)
  BY PromiseStep
<1> QED BY <1>1, <1>2, JobsAreConsistent, PTL DEF Spec, ImplementsPromise, Promise!Spec
=============================================================================
