------------------------------ MODULE WebJobs ------------------------------
(***************************************************************************)
(* Background jobs of the web server: a row per job in the database, a     *)
(* queue and two worker threads in memory, and the two operations that     *)
(* run there, the synchronisation and the preview of a source.  Commits    *)
(* are separate steps, any of them may fail, and the process may be        *)
(* killed and started again.                                               *)
(*                                                                         *)
(* The source is a version that grows; an artifact and the inventory hold  *)
(* the version that was collected.  What is inside them is the business of *)
(* Collection, Importers and Inventory.                                    *)
(***************************************************************************)
EXTENDS Naturals, Sequences, Functions

CONSTANTS
    MaxJobs,        \* bound: jobs created
    Workers,
    MaxVersion,     \* bound: changes of the source
    MaxFaults,      \* bound: failed steps and restarts
    None

ASSUME WebJobsAssumption ==
    /\ MaxJobs \in Nat /\ MaxVersion \in Nat /\ MaxFaults \in Nat
    /\ None \notin Nat \cup {"sync", "preview"}

(* Jobs in the order of their creation.                                    *)
Jobs == 1 .. MaxJobs

VARIABLES
    source,     \* version of the source
    row,        \* job -> its row: [kind, status], kind None before it is created
    inserted,   \* jobs whose request has committed the row and not submitted it
    pool,       \* jobs submitted to the executor and not yet taken
    thread,     \* worker -> [job, stage, ok, read]
    artifact,   \* path -> version in the file, or None
    inventory,  \* version of the provider's current data
    imported,   \* history: jobs whose import is committed
    since,      \* history: job -> version when it was created
    lost,       \* history: jobs whose row can no longer be brought up to date
    faults      \* bound counter

vars == <<source, row, inserted, pool, thread, artifact, inventory, imported, since,
          lost, faults>>

historyVars == <<imported, since>>

Idle == [job |-> None, stage |-> "idle", ok |-> TRUE, read |-> None]
Final == {"SUCCEEDED", "FAILED"}

(* The artifact carries the id of the job.                                 *)
Artifact(j) == j

Init ==
    /\ source = 0
    /\ row = [j \in Jobs |-> [kind |-> None, status |-> None]]
    /\ inserted = {}
    /\ pool = <<>>
    /\ thread = [w \in Workers |-> Idle]
    /\ artifact = [j \in Jobs |-> None]
    /\ inventory = 0
    /\ imported = {}
    /\ since = [j \in Jobs |-> 0]
    /\ lost = {}
    /\ faults = 0

SourceChanges ==
    /\ source < MaxVersion
    /\ source' = source + 1
    /\ UNCHANGED <<row, inserted, pool, thread, artifact, inventory, historyVars, lost, faults>>

(* create_job: the row and its first event are committed.                  *)
CreateJob(j, kind) ==
    /\ row[j].kind = None
    /\ \A k \in 1 .. j - 1 : row[k].kind # None
    /\ row' = [row EXCEPT ![j] = [kind |-> kind, status |-> "QUEUED"]]
    /\ inserted' = inserted \cup {j}
    /\ since' = [since EXCEPT ![j] = source]
    /\ UNCHANGED <<source, pool, thread, artifact, inventory, imported, lost, faults>>

(* create_job: the operation goes to the executor.                         *)
Submit(j) ==
    /\ j \in inserted
    /\ inserted' = inserted \ {j}
    /\ pool' = Append(pool, j)
    /\ UNCHANGED <<source, row, thread, artifact, inventory, historyVars, lost, faults>>

-----------------------------------------------------------------------------

At(w, stage) == thread[w].stage = stage
Goto(w, stage) == thread' = [thread EXCEPT ![w].stage = stage]

(* A worker takes the next job and marks it as running.                    *)
Take(w) ==
    /\ At(w, "idle")
    /\ pool # <<>>
    /\ pool' = Tail(pool)
    /\ row' = [row EXCEPT ![Head(pool)].status = "RUNNING"]
    /\ thread' = [thread EXCEPT ![w] = [Idle EXCEPT !.job = Head(pool), !.stage = "collect"]]
    /\ UNCHANGED <<source, inserted, artifact, inventory, historyVars, lost, faults>>

(* The collector reads the source and writes the artifact.                 *)
Collect(w) ==
    /\ At(w, "collect")
    /\ artifact' = [artifact EXCEPT ![Artifact(thread[w].job)] = source]
    /\ Goto(w, "read")
    /\ UNCHANGED <<source, row, inserted, pool, inventory, imported, since, lost, faults>>

(* The importer reads the artifact.                                        *)
ReadArtifact(w) ==
    LET version == artifact[Artifact(thread[w].job)]
    IN /\ At(w, "read")
       /\ thread' = [thread EXCEPT ![w].stage = IF version = None THEN "unlink" ELSE "store",
                                   ![w].ok = version # None, ![w].read = version]
       /\ UNCHANGED <<source, row, inserted, pool, artifact, inventory, historyVars, lost, faults>>

(* A sync imports into the database, a preview into a copy of it that is   *)
(* thrown away.                                                            *)
Installs(j) == row[j].kind = "sync"

Store(w) ==
    LET j == thread[w].job
    IN /\ At(w, "store")
       /\ IF Installs(j)
          THEN inventory' = thread[w].read /\ imported' = imported \cup {j}
          ELSE UNCHANGED <<inventory, imported>>
       /\ thread' = [thread EXCEPT ![w].stage = "audit", ![w].read = None]
       /\ UNCHANGED <<source, row, inserted, pool, artifact, since, lost, faults>>

Audit(w) ==
    /\ At(w, "audit")
    /\ Goto(w, "unlink")
    /\ UNCHANGED <<source, row, inserted, pool, artifact, inventory, historyVars, lost, faults>>

(* Mutant: the artifact is removed after a success only.                   *)
KeepOnFailure(w) ==
    /\ At(w, "unlink")
    /\ artifact' = IF thread[w].ok THEN [artifact EXCEPT ![Artifact(thread[w].job)] = None] ELSE artifact
    /\ Goto(w, "report")
    /\ UNCHANGED <<source, row, inserted, pool, inventory, historyVars, lost, faults>>

(* finally: the artifact is removed, whatever happened.                    *)
Unlink(w) ==
    /\ At(w, "unlink")
    /\ artifact' = [artifact EXCEPT ![Artifact(thread[w].job)] = None]
    /\ Goto(w, "report")
    /\ UNCHANGED <<source, row, inserted, pool, inventory, historyVars, lost, faults>>

(* _run: the outcome is written to the row.                                *)
Report(w) ==
    /\ At(w, "report")
    /\ row' = [row EXCEPT ![thread[w].job].status = IF thread[w].ok THEN "SUCCEEDED" ELSE "FAILED"]
    /\ thread' = [thread EXCEPT ![w] = Idle]
    /\ UNCHANGED <<source, inserted, pool, artifact, inventory, historyVars, lost, faults>>

-----------------------------------------------------------------------------

Fault == faults < MaxFaults /\ faults' = faults + 1

(* Mutant: the exception of a failed operation ends the thread's job only  *)
(* when its file was there to remove.                                      *)
StuckOnFailure(w) ==
    /\ thread[w].stage \in {"collect", "read", "store", "audit"}
    /\ thread' = [thread EXCEPT ![w].stage = IF At(w, "collect") THEN "stuck" ELSE "unlink",
                                ![w].ok = FALSE]

(* Mutant: the failure of an import is logged and forgotten.               *)
SwallowFailure(w) ==
    /\ thread[w].stage \in {"collect", "read", "store", "audit"}
    /\ thread' = [thread EXCEPT ![w].stage = "unlink", ![w].read = None]

(* The operation raises: the connector cannot be loaded, the collector     *)
(* fails or runs into its timeout, the import or its audit record fails.   *)
Raise(w) ==
    /\ thread[w].stage \in {"collect", "read", "store", "audit"}
    /\ thread' = [thread EXCEPT ![w].stage = "unlink", ![w].ok = FALSE]

OperationFails(w) ==
    /\ Fault
    /\ Raise(w)
    /\ UNCHANGED <<source, row, inserted, pool, artifact, inventory, historyVars, lost>>

(* The row cannot be marked as running or as finished: the exception stays *)
(* in the future nobody looks at, and the thread goes on with the next job. *)
TakeFails(w) ==
    /\ Fault
    /\ At(w, "idle")
    /\ pool # <<>>
    /\ pool' = Tail(pool)
    /\ lost' = lost \cup {Head(pool)}
    /\ UNCHANGED <<source, row, inserted, thread, artifact, inventory, historyVars>>
ReportFails(w) ==
    /\ Fault
    /\ At(w, "report")
    /\ lost' = lost \cup {thread[w].job}
    /\ thread' = [thread EXCEPT ![w] = Idle]
    /\ UNCHANGED <<source, row, inserted, pool, artifact, inventory, historyVars>>

(* The process is killed and started again: the queue and the threads are  *)
(* gone, rows and files stay as they are.                                  *)
Restart ==
    /\ Fault
    /\ lost' = lost \cup inserted \cup Range(pool) \cup ({thread[w].job : w \in Workers} \ {None})
    /\ inserted' = {}
    /\ pool' = <<>>
    /\ thread' = [w \in Workers |-> Idle]
    /\ UNCHANGED <<source, row, artifact, inventory, historyVars>>

Work(w) ==
    Take(w) \/ Collect(w) \/ ReadArtifact(w) \/ Store(w) \/ Audit(w) \/ Unlink(w) \/ Report(w)

Next ==
    \/ SourceChanges
    \/ Restart
    \/ \E j \in Jobs : Submit(j) \/ \E k \in {"sync", "preview"} : CreateJob(j, k)
    \/ \E w \in Workers : Work(w) \/ OperationFails(w) \/ TakeFails(w) \/ ReportFails(w)

Spec == Init /\ [][Next]_vars
             /\ \A j \in Jobs : WF_vars(Submit(j))
             /\ \A w \in Workers : WF_vars(Work(w))

-----------------------------------------------------------------------------

ThreadType ==
    [job : Jobs \cup {None}, ok : BOOLEAN, read : Nat \cup {None},
     stage : {"idle", "collect", "read", "store", "audit", "unlink", "report"}]

TypeOK ==
    /\ {source, inventory, faults} \subseteq Nat
    /\ row \in [Jobs -> [kind : {None, "sync", "preview"},
                         status : {None, "QUEUED", "RUNNING"} \cup Final]]
    /\ {inserted, imported, lost} \subseteq SUBSET Jobs
    /\ pool \in Seq(Jobs)
    /\ thread \in [Workers -> ThreadType]
    /\ artifact \in [Jobs -> Nat \cup {None}]
    /\ since \in [Jobs -> Nat]

Busy(w) == ~At(w, "idle")

(* Created, queued or worked on: a job is in one place only, and in none   *)
(* once it is lost.                                                        *)
OnePlace ==
    /\ \A i, k \in 1 .. Len(pool) : pool[i] = pool[k] => i = k
    /\ inserted \cap Range(pool) = {}
    /\ lost \cap (inserted \cup Range(pool)) = {}
    /\ \A w \in Workers :
          IF Busy(w) THEN thread[w].job \in Jobs \ (lost \cup inserted \cup Range(pool))
          ELSE thread[w].job = None
    /\ \A v, w \in Workers : Busy(v) /\ thread[v].job = thread[w].job => v = w

(* What the row says of a job, by where the job is.                        *)
RowsTell ==
    /\ \A j \in inserted \cup Range(pool) :
          row[j].kind # None /\ row[j].status = "QUEUED" /\ j \notin imported
    /\ \A w \in Workers :
          Busy(w) => row[thread[w].job].kind # None /\ row[thread[w].job].status = "RUNNING"
    /\ \A j \in Jobs : row[j].kind = None => j \notin imported \cup lost
    /\ \A j \in imported : row[j].kind = "sync"

(* What a thread has done by the stage it is at.                           *)
StagesTell ==
    \A w \in Workers : LET t == thread[w] IN
        /\ t.stage \in {"collect", "read", "store"} => t.job \notin imported
        /\ t.stage = "store" => t.read \in since[t.job] .. source
        /\ /\ t.stage = "audit" \/ (t.stage \in {"unlink", "report"} /\ t.ok)
           /\ row[t.job].kind = "sync"
           => t.job \in imported

(* An artifact holds what the source was while its job was there.          *)
ArtifactsTell ==
    /\ \A j \in Jobs : since[j] <= source
    /\ \A j \in Jobs : artifact[j] # None =>
          /\ artifact[j] \in since[j] .. source
          /\ \/ j \in lost
             \/ \E w \in Workers : thread[w].job = j
                                  /\ thread[w].stage \in {"read", "store", "audit", "unlink"}

(* The inductive invariant behind ImplementsPromise.                       *)
JobInv == TypeOK /\ OnePlace /\ RowsTell /\ StagesTell /\ ArtifactsTell

Working == {thread[w].job : w \in Workers}

(* Every job ends, unless its row was lost to a restart or to a failed     *)
(* commit; a collector that fails or times out ends it too.                *)
JobsEnd == <>[](\A j \in Jobs : row[j].kind # None => row[j].status \in Final \/ j \in lost)

(* An artifact is there only while its job works on it; a restart alone    *)
(* leaves one behind.                                                      *)
ArtifactsOfWorkingJobs ==
    \A j \in Jobs : artifact[Artifact(j)] # None => j \in Working \cup lost

-----------------------------------------------------------------------------

(* The phase of a job as the promise sees it.                              *)
Phase(j) ==
    IF row[j].kind = None THEN "new"
    ELSE IF row[j].status = "SUCCEEDED" THEN "done"
    ELSE IF row[j].status = "FAILED" \/ j \in lost THEN "over"
    ELSE IF j \in imported THEN "installed"
    ELSE row[j].kind

Promise == INSTANCE SyncService WITH phase <- [j \in Jobs |-> Phase(j)]

(* Threads, queue, artifacts and failures together implement a service     *)
(* that installs, in one step and at most once per sync, a state that the  *)
(* source had during the sync, that installs nothing for a preview or for  *)
(* a job already reported, and reports success only of what it installed.  *)
ImplementsPromise == Promise!Spec
=============================================================================
