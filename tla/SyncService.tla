---------------------------- MODULE SyncService ----------------------------
(***************************************************************************)
(* What a synchronisation promises: a sync that is under way installs, at  *)
(* most once and in one step, a state of the source that the source had    *)
(* while the sync was under way.  A preview installs nothing, nothing is   *)
(* installed for a job that is over, and a sync that is reported as        *)
(* succeeded has installed.                                                *)
(***************************************************************************)
EXTENDS Naturals

CONSTANTS Jobs

VARIABLES
    source,     \* version of the source
    inventory,  \* version the inventory holds
    since,      \* job -> version of the source when the job began
    phase       \* job -> "new", "sync", "preview", "installed", "done" or "over"

vars == <<source, inventory, since, phase>>

Init ==
    /\ source = 0
    /\ inventory = 0
    /\ since = [j \in Jobs |-> 0]
    /\ phase = [j \in Jobs |-> "new"]

SourceMoves == source' = source + 1 /\ UNCHANGED <<inventory, since, phase>>

Begin(j) ==
    /\ phase[j] = "new"
    /\ \E k \in {"sync", "preview"} : phase' = [phase EXCEPT ![j] = k]
    /\ since' = [since EXCEPT ![j] = source]
    /\ UNCHANGED <<source, inventory>>

Install(j) ==
    /\ phase[j] = "sync"
    /\ inventory' \in since[j] .. source
    /\ phase' = [phase EXCEPT ![j] = "installed"]
    /\ UNCHANGED <<source, since>>

Succeed(j) ==
    /\ phase[j] \in {"preview", "installed"}
    /\ phase' = [phase EXCEPT ![j] = "done"]
    /\ UNCHANGED <<source, inventory, since>>

(* Any number of jobs are over at once, as failures, when the server stops. *)
End ==
    /\ \E S \in SUBSET {j \in Jobs : phase[j] \in {"sync", "preview", "installed"}} :
          phase' = [j \in Jobs |-> IF j \in S THEN "over" ELSE phase[j]]
    /\ UNCHANGED <<source, inventory, since>>

Next == SourceMoves \/ End \/ \E j \in Jobs : Begin(j) \/ Install(j) \/ Succeed(j)

Spec == Init /\ [][Next]_vars
=============================================================================
