------------------------- MODULE MCExecutionBackend -------------------------
(***************************************************************************)
(* Small instances of ExecutionBackend for TLC.  A behaviour follows one   *)
(* of two scenarios: two claimers and late calls around one execution with *)
(* a deadline, or one claimer and submissions that share a key.  A         *)
(* scenario leaves out steps of the specification and adds none.           *)
(***************************************************************************)
EXTENDS ExecutionBackend, TLC

CONSTANTS c1, c2, i1, i2, r1, r2, big, e1

VARIABLE scenario

AllTasks == [c \in Claimers |-> {"t"}]

Request(key, digest, delay, expires) ==
    [task |-> "t", key |-> key, digest |-> digest, delay |-> delay, expires |-> expires]

\* One submission with a deadline; two that share a key and differ, and one
\* without a key.
WithDeadline == Request(NULL, "d1", 0, 2)
Keyed == {Request("k", "d1", 0, NULL), Request("k", "d2", 1, 1), Request(NULL, "d3", 0, NULL)}
AllRequests == {WithDeadline} \cup Keyed

Completion(status, result, error, delay) ==
    [status |-> status, result |-> result, error |-> error, delay |-> delay]

AllCompletions ==
    {Completion("succeeded", r1, NULL, 0), Completion("succeeded", r2, NULL, 0),
     Completion("succeeded", big, NULL, 0),
     Completion("retrying", NULL, e1, 1), Completion("failed", NULL, e1, 0),
     Completion("cancelled", NULL, NULL, 0)}

TooLarge == {big}

Race ==
    /\ exec'[i2].status = "absent"
    /\ exec'[i1].req \in {NULL, WithDeadline}

Batch ==
    /\ ~claim'[c2].active
    /\ \A i \in Ids : exec'[i].req \in {NULL} \cup Keyed /\ exec'[i].attempts <= 2
    /\ \A a \in acked' : a.asked.result \in {NULL, r1} /\ a.got # "failed"
    /\ clock' <= 2

MCInit == Init /\ scenario \in {"race", "batch"}

MCNext ==
    /\ Next
    /\ scenario = "race" => Race
    /\ scenario = "batch" => Batch
    /\ UNCHANGED scenario

MCSpec == MCInit /\ [][MCNext]_<<vars, scenario>>
=============================================================================
