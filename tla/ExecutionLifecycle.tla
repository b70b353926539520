------------------------- MODULE ExecutionLifecycle -------------------------
(***************************************************************************)
(* What the execution backend promises to the people who submit, watch and *)
(* cancel executions, with leases, timestamps, attempts tables and batches *)
(* left out: each execution is a job that waits, runs, is asked to stop    *)
(* and is done.  One transaction of the backend may advance several jobs.  *)
(***************************************************************************)
EXTENDS Naturals

CONSTANTS Jobs, Nothing

VARIABLE job   \* job[j]: [phase, runs, result]

Phases == {"unknown", "waiting", "active", "stopping",
           "succeeded", "failed", "cancelled", "expired"}
Done   == {"succeeded", "failed", "cancelled", "expired"}

LifecycleInit == job = [j \in Jobs |-> [phase |-> "unknown", runs |-> 0, result |-> Nothing]]

Submitted(a, b) == a.phase = "unknown" /\ b = [a EXCEPT !.phase = "waiting"]

Started(a, b) == a.phase = "waiting" /\ b = [a EXCEPT !.phase = "active", !.runs = @ + 1]

\* The holder is gone and somebody else starts over, in one transaction.
TakenOver(a, b) == a.phase = "active" /\ b = [a EXCEPT !.runs = @ + 1]

PutBack(a, b) ==
    a.phase = "active" /\ b.phase = "waiting" /\ b.runs = a.runs /\ b.result = Nothing

StopAsked(a, b) == a.phase = "active" /\ b = [a EXCEPT !.phase = "stopping"]

Dropped(a, b) ==
    a.phase = "waiting" /\ \E p \in {"cancelled", "expired"} : b = [a EXCEPT !.phase = p]

\* Only a success carries a result.
Finished(a, b) ==
    /\ a.phase = "active"
    /\ b.phase \in {"succeeded", "failed", "cancelled"}
    /\ b.runs = a.runs
    /\ b.phase # "succeeded" => b.result = Nothing

Stopped(a, b) ==
    a.phase = "stopping" /\ b = [phase |-> "cancelled", runs |-> a.runs, result |-> Nothing]

Moved(a, b) ==
    \/ Submitted(a, b) \/ Started(a, b)   \/ TakenOver(a, b) \/ PutBack(a, b)
    \/ StopAsked(a, b) \/ Dropped(a, b)   \/ Finished(a, b)  \/ Stopped(a, b)

LifecycleNext ==
    /\ job' = [j \in Jobs |-> job'[j]]
    /\ \A j \in Jobs : job'[j] = job[j] \/ Moved(job[j], job'[j])

LifecycleSpec == LifecycleInit /\ [][LifecycleNext]_job
=============================================================================
