------------------------------- MODULE SqsQueue -------------------------------
(* An SQS queue read by onestep-sqs: visibility timeouts, heartbeats that     *)
(* extend them, deletes staged for a batch, and flushes that fail in part.    *)
EXTENDS Integers, Sequences, FiniteSets, Functions

CONSTANTS Msgs,
          BatchLimit,   \* delete_batch_size
          MaxPending,   \* bound on the staged deletes
          Fifo,         \* does a delete with an expired receipt fail?
          OnFail,       \* "leave", "release" or "delete"
          Heartbeat,    \* is heartbeat_interval_s set?
          MayExpire,    \* may a visibility timeout run out while nothing extends it?
          MaxFaults, MaxRetries, MaxCrashes   \* bounds

\* A delivery is a message and whether its receipt is still the current one.
Free == <<>>
Flusher == <<"flusher">>

VARIABLES state,     \* message -> "visible", "leased", "deleted"
          hand,      \* deliveries being handled
          dead,      \* those whose heartbeat task has failed
          pending,   \* _pending_delete
          lock,      \* who holds the delete lock and flushes: Free, Flusher or a delivery
          handled,   \* messages whose handler succeeded or failed for good
          faults, retries, crashes
bounds == <<faults, retries, crashes>>
vars == <<state, hand, dead, pending, lock, handled, bounds>>

Init ==
  /\ state = [m \in Msgs |-> "visible"] /\ hand = {} /\ dead = {} /\ pending = <<>>
  /\ lock = Free /\ handled = {} /\ faults = 0 /\ retries = 0 /\ crashes = 0

-----------------------------------------------------------------------------
(* Leases *)

\* fetch, and start_processing, which starts the heartbeat.
Receive(m) ==
  /\ state[m] = "visible" /\ state' = [state EXCEPT ![m] = "leased"]
  /\ hand' = hand \cup {<<m, TRUE>>}
  /\ UNCHANGED <<dead, pending, lock, handled, bounds>>

\* _heartbeat_loop: a task that has not failed keeps the message invisible.
Beating(m) == Heartbeat /\ <<m, TRUE>> \in hand \ dead
OldReceipts(S, m) == {IF d = <<m, TRUE>> THEN <<m, FALSE>> ELSE d : d \in S}
Expired(m) ==
  /\ hand' = OldReceipts(hand, m) /\ dead' = OldReceipts(dead, m)
  /\ pending' = [i \in DOMAIN pending |-> IF pending[i] = <<m, TRUE>> THEN <<m, FALSE>> ELSE pending[i]]
  /\ lock' = IF lock = <<m, TRUE>> THEN <<m, FALSE>> ELSE lock
\* The visibility timeout runs out: the message can be received again.
VisibilityTimeout(m) ==
  /\ MayExpire /\ state[m] = "leased" /\ ~Beating(m)
  /\ state' = [state EXCEPT ![m] = "visible"] /\ Expired(m)
  /\ UNCHANGED <<handled, bounds>>
\* One failed call ends the heartbeat task.
HeartbeatFails(d) ==
  /\ Heartbeat /\ d \in hand \ dead /\ faults < MaxFaults /\ faults' = faults + 1
  /\ dead' = dead \cup {d}
  /\ UNCHANGED <<state, hand, pending, lock, handled, retries, crashes>>

\* _change_visibility(0): a current receipt makes the message visible.
MadeVisible(d) == IF d[2] /\ state[d[1]] = "leased" THEN [state EXCEPT ![d[1]] = "visible"] ELSE state

-----------------------------------------------------------------------------
(* Settling a delivery *)

\* _stop_heartbeat re-raises the failure of the heartbeat task, so ack, retry
\* and fail all fail: the message waits for its visibility timeout.
SettleFails(d) ==
  /\ d \in dead /\ hand' = hand \ {d} /\ dead' = dead \ {d}
  /\ UNCHANGED <<state, pending, lock, handled, bounds>>

\* stage_delete: under the lock, with a flush when the batch is full.
StageDelete(d) ==
  /\ lock = Free /\ Len(pending) < MaxPending /\ pending' = Append(pending, d)
  /\ lock' = IF Len(pending) + 1 >= BatchLimit THEN d ELSE Free

Ack(d) ==
  /\ d \in hand \ dead /\ StageDelete(d)
  /\ hand' = hand \ {d} /\ handled' = handled \cup {d[1]}
  /\ UNCHANGED <<state, dead, bounds>>
\* fail, after which the message is left, released or deleted.
Fail(d) ==
  /\ d \in hand \ dead /\ hand' = hand \ {d} /\ retries < MaxRetries /\ retries' = retries + 1
  /\ IF OnFail = "delete" THEN StageDelete(d) /\ handled' = handled \cup {d[1]} /\ UNCHANGED state
     ELSE /\ state' = IF OnFail = "release" THEN MadeVisible(d) ELSE state
          /\ UNCHANGED <<pending, lock, handled>>
  /\ UNCHANGED <<dead, faults, crashes>>
\* retry, or release_unstarted after an intake stop.
Retry(d) ==
  /\ d \in hand \ dead /\ hand' = hand \ {d} /\ retries < MaxRetries /\ retries' = retries + 1
  /\ state' = MadeVisible(d)
  /\ UNCHANGED <<dead, pending, lock, handled, faults, crashes>>

-----------------------------------------------------------------------------
(* Flushing *)

\* _delete_flush_loop takes the lock.
FlushDeletes ==
  /\ lock = Free /\ pending # <<>> /\ lock' = Flusher
  /\ UNCHANGED <<state, hand, dead, pending, handled, bounds>>

Batch == SubSeq(pending, 1, IF Len(pending) < BatchLimit THEN Len(pending) ELSE BatchLimit)
Remainder == SubSeq(pending, Len(Batch) + 1, Len(pending))
\* Deleting with an old receipt fails on a FIFO queue and may do nothing on others.
Stale == {i \in DOMAIN Batch : ~Batch[i][2]}
MustFail == IF Fifo THEN Stale ELSE {}
\* Mutant: the whole batch is dropped after a partial failure.
KeptAll(failed) == Remainder
\* The k-th of the places S.
Nth(S, k) == CHOOSE i \in S : Cardinality({j \in S : j <= i}) = k
\* The entries that stay staged: those that failed, in order, before the remainder.
Kept(failed) == [k \in 1..Cardinality(failed) |-> Batch[Nth(failed, k)]] \o Remainder
\* _flush_locked, one delete_message_batch: entries may fail, old receipts on a
\* FIFO queue always do. The failure reaches the acknowledging delivery, and
\* the executor retries it.
FlushLocked(failed, noop) ==
  /\ lock # Free /\ pending # <<>> /\ failed \subseteq DOMAIN Batch /\ noop \subseteq Stale
  /\ MustFail \subseteq failed
  /\ IF noop = {} /\ failed = MustFail THEN UNCHANGED faults
     ELSE faults < MaxFaults /\ faults' = faults + 1
  /\ pending' = Kept(failed)
  /\ LET gone == {Batch[i][1] : i \in DOMAIN Batch \ (failed \cup noop)}
         left == [m \in Msgs |-> IF m \in gone THEN "deleted" ELSE state[m]]
         back == failed # {} /\ lock # Flusher
     IN state' = IF back /\ lock[2] /\ left[lock[1]] = "leased"
                 THEN [left EXCEPT ![lock[1]] = "visible"] ELSE left
  /\ lock' = IF failed # {} \/ Remainder = <<>> THEN Free ELSE lock
  /\ UNCHANGED <<hand, dead, handled, retries, crashes>>

\* The process ends; staged deletes are lost.
Crash ==
  /\ crashes < MaxCrashes /\ crashes' = crashes + 1
  /\ hand' = {} /\ dead' = {} /\ pending' = <<>> /\ lock' = Free
  /\ UNCHANGED <<state, handled, faults, retries>>

Next ==
  \/ \E m \in Msgs : Receive(m) \/ VisibilityTimeout(m)
  \/ \E d \in hand : HeartbeatFails(d) \/ SettleFails(d) \/ Ack(d) \/ Fail(d) \/ Retry(d)
  \/ \E failed, noop \in SUBSET (1..BatchLimit) : FlushLocked(failed, noop)
  \/ FlushDeletes \/ Crash
Spec == Init /\ [][Next]_vars
FairSpec == Spec
  /\ \A m \in Msgs : WF_vars(Receive(m)) /\ WF_vars(VisibilityTimeout(m))
  /\ \A d \in Msgs \X BOOLEAN : WF_vars(SettleFails(d)) /\ SF_vars(Ack(d))
  /\ WF_vars(FlushDeletes) /\ WF_vars(FlushLocked(MustFail, {}))

-----------------------------------------------------------------------------
(* Properties *)

\* The server's states, and a lock held only while something is staged.
TypeOK ==
  /\ state \in [Msgs -> {"visible", "leased", "deleted"}]
  /\ hand \subseteq Msgs \X BOOLEAN /\ dead \subseteq hand
  /\ Range(pending) \subseteq Msgs \X BOOLEAN
  /\ lock # Free => pending # <<>>

\* No message is deleted before its handler has succeeded or failed for good,
\* over old receipts, partial failures and crashes.
DeletedWhenHandled == \A m \in Msgs : state[m] = "deleted" => m \in handled

\* A handled message is deleted, staged for deletion, or can be received again:
\* a failed batch delete forgets nothing.
HandledNotForgotten == crashes = 0 /\ ~MayExpire =>
  \A m \in handled : state[m] # "leased" \/ (\E ok \in BOOLEAN : <<m, ok>> \in Range(pending) \cup hand)

\* Under a heartbeat a message has one handler at a time.
OneHandler == \A m \in Msgs : ~({<<m, TRUE>>, <<m, FALSE>>} \subseteq hand)

\* Every message is deleted in the end.
EveryMessageDeleted == \A m \in Msgs : <>(state[m] = "deleted")
==============================================================================
