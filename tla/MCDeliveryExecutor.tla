------------------------- MODULE MCDeliveryExecutor -------------------------
(***************************************************************************)
(* Small instances of DeliveryExecutor for TLC: a task with two sinks, two *)
(* dead-letter sinks, three attempts for errors and one for timeouts, on   *)
(* three kinds of source.  queue is the kind a behaviour is about:         *)
(* "leased" is a queue with leases that counts attempts, where handlers    *)
(* are cancelled and settlements raise, "memory" one without any of it,    *)
(* and "broker" hands out the same envelope again.                         *)
(***************************************************************************)
EXTENDS DeliveryExecutor, TLC

CONSTANTS s1, s2, q1, q2

VARIABLE queue

MCLimit == [error |-> 3, timeout |-> 1]
MCKinds == {"error", "timeout"}

Memory == INSTANCE DeliveryExecutor WITH Leased <- FALSE, Cancels <- FALSE, SettleFails <- FALSE
Broker == INSTANCE DeliveryExecutor WITH Counts <- FALSE, Cancels <- FALSE, SettleFails <- FALSE

MCInit == Init /\ queue \in {"leased", "memory", "broker"}

MCNext ==
    /\ \/ queue = "leased" /\ Next
       \/ queue = "memory" /\ Memory!Next
       \/ queue = "broker" /\ Broker!Next
    /\ UNCHANGED queue

MCFairness ==
    /\ WF_vars(queue = "leased" /\ (Succeed \/ HandleFailure))
    /\ WF_vars(queue = "leased" /\ Redeliver)
    /\ WF_vars(queue = "memory" /\ (Memory!Succeed \/ Memory!HandleFailure))
    /\ WF_vars(queue = "memory" /\ Memory!Redeliver)

MCSpec == MCInit /\ [][MCNext]_<<vars, queue>> /\ MCFairness

\* Deliveries do not hang: a source with leases gets each one settled or back in
\* the queue, over cancellations at any await, crashes and calls that raise; on a
\* queue without leases no execution ends with the delivery still held; and there
\* a poison message finally leaves the queue, unless publishing to the dead-letter
\* sinks fails again and again.
Settles ==
    /\ (queue = "leased" /\ stage # "queued")
          ~> (queue = "leased" /\ (stage = "queued" \/ source \in {"acked", "failed"}))
    /\ [](queue = "memory" => EndsSettled)
    /\ <>[][queue = "memory" /\ ~Memory!DeadLetterFails]_vars => <>[](queue # "memory" \/ source \in {"acked", "failed"})
=============================================================================
