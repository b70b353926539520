-------------------------- MODULE NotificationOutbox --------------------------
(***************************************************************************)
(* Webhook notifications of the control plane.  Ingestion commits a task   *)
(* event and then, in a second transaction, one delivery and one outbox row*)
(* per matching channel.  On every replica an outbox worker asks its lease *)
(* (a PostgreSQL session-level advisory lock) for leadership and, as the   *)
(* leader, drains a batch of due rows in a thread: a row is claimed in a   *)
(* transaction of its own, posted, and its outcome committed.  Replicas    *)
(* crash; the connection that holds the lock may break at any time.        *)
(*                                                                         *)
(* One channel.  The time of a retry is the flag `due`, which the clock    *)
(* sets; a claim takes any due row.                                        *)
(***************************************************************************)
EXTENDS Naturals, FiniteSets

CONSTANTS Events, Replicas,
          MaxAttempts,   \* notification_outbox_max_attempts
          BatchSize,     \* notification_outbox_batch_size
          MaxCrashes,    \* bound: crashes of replicas
          MaxBreaks,     \* bound: lost lease connections
          Edits          \* whether the channel is edited and deleted

None == "none"

VARIABLES
  event,    \* per event: new, stored by a replica, dispatched or lost
  row,      \* per event, its outbox row
  channel,  \* on, off or deleted
  lock,     \* who holds the advisory lock
  conn,     \* per replica, its lease connection: none, up or broken
  drain,    \* per replica, what its drain is doing
  posts,    \* per event, the requests the receiver accepted
  counts

vars == <<event, row, channel, lock, conn, drain, posts, counts>>

NoRow == [status |-> None, attempts |-> 0, due |-> FALSE]
Idle == [pc |-> "idle", event |-> None, attempts |-> 0, done |-> {}]

Init ==
  /\ event = [e \in Events |-> [at |-> "new", by |-> None]]
  /\ row = [e \in Events |-> NoRow]
  /\ channel = "on"
  /\ lock = None /\ conn = [r \in Replicas |-> None]
  /\ drain = [r \in Replicas |-> Idle]
  /\ posts = [e \in Events |-> 0]
  /\ counts = [crashes |-> 0, breaks |-> 0]

-----------------------------------------------------------------------------
\* ingest_events_request, up to its commit.
Store(e, r) ==
  /\ event[e].at = "new"
  /\ event' = [event EXCEPT ![e] = [at |-> "stored", by |-> r]]
  /\ UNCHANGED <<row, channel, lock, conn, drain, posts, counts>>

\* _matching_channels_for_service
Matches == channel = "on"

\* dispatch_runtime_task_event_notifications: the dedupe key makes the delivery
\* of an event and a channel unique.
Dispatch(e) ==
  /\ event[e].at = "stored"
  /\ event' = [event EXCEPT ![e] = [at |-> "dispatched", by |-> None]]
  /\ row' = IF Matches /\ row[e] = NoRow
            THEN [row EXCEPT ![e] = [status |-> "pending", attempts |-> 0, due |-> TRUE]]
            ELSE row
  /\ UNCHANGED <<channel, lock, conn, drain, posts, counts>>

-----------------------------------------------------------------------------

\* ensure_leader: a connection that still answers, or a free lock.
Leads(r) == IF conn[r] = "up" THEN TRUE ELSE conn[r] = None /\ lock = None

\* A tick of run_notification_outbox_worker that finds itself the leader.
StartDrain(r) ==
  /\ drain[r] = Idle /\ Leads(r)
  /\ conn' = [conn EXCEPT ![r] = "up"] /\ lock' = r
  /\ drain' = [drain EXCEPT ![r] = [Idle EXCEPT !.pc = "claim"]]
  /\ UNCHANGED <<event, row, channel, posts, counts>>

\* A tick whose lease connection fails: release() and a later new attempt.
LeaseLost(r) ==
  /\ drain[r] = Idle /\ conn[r] = "broken"
  /\ conn' = [conn EXCEPT ![r] = None]
  /\ UNCHANGED <<event, row, channel, lock, drain, posts, counts>>

Due(r) == {e \in Events : row[e].status = "pending" /\ row[e].due} \ drain[r].done

\* What claim_next_pending_outbox_row commits for the row it selects.
Claimed(e) ==
  IF row[e].attempts >= MaxAttempts
  THEN [row[e] EXCEPT !.status = "permanently_failed"]
  ELSE [row[e] EXCEPT !.attempts = @ + 1]

Claim(r, e) ==
  /\ drain[r].pc = "claim" /\ Cardinality(drain[r].done) < BatchSize /\ e \in Due(r)
  /\ row' = [row EXCEPT ![e] = Claimed(e)]
  /\ drain' = [drain EXCEPT ![r] =
       [pc |-> IF Claimed(e).status = "pending" THEN "post" ELSE "claim",
        event |-> e, attempts |-> Claimed(e).attempts, done |-> @.done \cup {e}]]
  /\ UNCHANGED <<event, channel, lock, conn, posts, counts>>

\* drain_notification_outbox: nothing due is left, or the batch is full.
EndDrain(r) ==
  /\ drain[r].pc = "claim"
  /\ Due(r) = {} \/ Cardinality(drain[r].done) = BatchSize
  /\ drain' = [drain EXCEPT ![r] = Idle]
  /\ UNCHANGED <<event, row, channel, lock, conn, posts, counts>>

\* _post_webhook: the receiver accepts the request, or it fails or times out.
Post(r, ok) ==
  /\ drain[r].pc = "post"
  /\ posts' = IF ok THEN [posts EXCEPT ![drain[r].event] = @ + 1] ELSE posts
  /\ drain' = [drain EXCEPT ![r].pc = IF ok THEN "sent" ELSE "failed"]
  /\ UNCHANGED <<event, row, channel, lock, conn, counts>>

\* Mutant: a failure gives up one attempt early.
OutcomeEarly(r) ==
  IF drain[r].pc = "sent" THEN [row[drain[r].event] EXCEPT !.status = "delivered"]
  ELSE IF drain[r].attempts + 1 >= MaxAttempts
  THEN [row[drain[r].event] EXCEPT !.status = "permanently_failed"]
  ELSE [row[drain[r].event] EXCEPT !.status = "pending", !.due = FALSE]

\* _apply_delivery_outcome, on the attempts the drain read when it claimed.
Outcome(r) ==
  IF drain[r].pc = "sent" THEN [row[drain[r].event] EXCEPT !.status = "delivered"]
  ELSE IF drain[r].attempts >= MaxAttempts
  THEN [row[drain[r].event] EXCEPT !.status = "permanently_failed"]
  ELSE [row[drain[r].event] EXCEPT !.status = "pending", !.due = FALSE]

\* The end of process_outbox_row.  A row that was deleted meanwhile is gone.
Apply(r) ==
  /\ drain[r].pc \in {"sent", "failed"}
  /\ row' = IF row[drain[r].event] = NoRow THEN row
            ELSE [row EXCEPT ![drain[r].event] = Outcome(r)]
  /\ drain' = [drain EXCEPT ![r].pc = "claim"]
  /\ UNCHANGED <<event, channel, lock, conn, posts, counts>>

\* The backoff of a row is over.
Elapse(e) ==
  /\ row[e].status = "pending" /\ ~row[e].due
  /\ row' = [row EXCEPT ![e].due = TRUE]
  /\ UNCHANGED <<event, channel, lock, conn, drain, posts, counts>>

-----------------------------------------------------------------------------
\* The lease connection breaks: the server frees the lock, the drain goes on.
Break(r) ==
  /\ conn[r] = "up" /\ counts.breaks < MaxBreaks
  /\ conn' = [conn EXCEPT ![r] = "broken"]
  /\ lock' = IF lock = r THEN None ELSE lock
  /\ counts' = [counts EXCEPT !.breaks = @ + 1]
  /\ UNCHANGED <<event, row, channel, drain, posts>>

\* A replica dies: its drain, its connection and what it has not dispatched.
Crash(r) ==
  /\ counts.crashes < MaxCrashes
  /\ drain' = [drain EXCEPT ![r] = Idle]
  /\ conn' = [conn EXCEPT ![r] = None]
  /\ lock' = IF lock = r THEN None ELSE lock
  /\ event' = [e \in Events |-> IF event[e] = [at |-> "stored", by |-> r]
                                THEN [at |-> "lost", by |-> None] ELSE event[e]]
  /\ counts' = [counts EXCEPT !.crashes = @ + 1]
  /\ UNCHANGED <<row, channel, posts>>

\* update_notification_channel_enabled
Toggle ==
  /\ Edits /\ channel # "deleted"
  /\ channel' = IF channel = "on" THEN "off" ELSE "on"
  /\ UNCHANGED <<event, row, lock, conn, drain, posts, counts>>

\* delete_notification_channel: finished rows go, pending rows stay.
Delete ==
  /\ Edits /\ channel # "deleted"
  /\ channel' = "deleted"
  /\ row' = [e \in Events |-> IF row[e].status = "pending" THEN row[e] ELSE NoRow]
  /\ UNCHANGED <<event, lock, conn, drain, posts, counts>>

Work(r) == \/ StartDrain(r) \/ LeaseLost(r) \/ EndDrain(r) \/ Apply(r)
           \/ (\E e \in Events : Claim(r, e)) \/ (\E ok \in BOOLEAN : Post(r, ok))

Next ==
  \/ \E e \in Events : (\E r \in Replicas : Store(e, r)) \/ Dispatch(e) \/ Elapse(e)
  \/ \E r \in Replicas : Work(r) \/ Break(r) \/ Crash(r)
  \/ Toggle \/ Delete

Spec == Init /\ [][Next]_vars
        /\ \A e \in Events : /\ WF_vars(Dispatch(e)) /\ WF_vars(Elapse(e))
                             /\ \A r \in Replicas : SF_vars(Claim(r, e))
        /\ \A r \in Replicas : WF_vars(Work(r))

-----------------------------------------------------------------------------
\* The type invariant.
TypeOK ==
  /\ \A e \in Events :
       /\ event[e].at \in {"new", "stored", "dispatched", "lost"}
       /\ row[e].status \in {None, "pending", "delivered", "permanently_failed"}
       /\ row[e].attempts \in 0..MaxAttempts
  /\ channel \in {"on", "off", "deleted"}
  /\ lock \in Replicas \cup {None}
  /\ \A r \in Replicas : /\ drain[r].pc \in {"idle", "claim", "post", "sent", "failed"}
                         /\ conn[r] \in {None, "up", "broken"}

\* A row is shown as delivered only when its receiver accepted a request, and
\* is given up only when all its attempts are used, whatever two drains that
\* overlap and crashes between a request and its outcome do to the row.
StatusIsTrue ==
  \A e \in Events :
    /\ row[e].status = "delivered" => posts[e] > 0
    /\ row[e].status = "permanently_failed" => row[e].attempts = MaxAttempts

\* README: deleting or editing a channel does not cancel what is in the outbox.
Accepted == \A e \in Events : row[e].status = "pending" => row'[e] # NoRow

\* Every request accepted into the outbox is delivered or given up: crashes,
\* lost leases and overlapping drains leave no row pending for ever.
Settled == \A e \in Events : (row[e].status = "pending") ~> (row[e].status # "pending")

\* Only the leader replica drains: no two drains overlap.
OneDrainer ==
  \A r, s \in Replicas : drain[r].pc # "idle" /\ drain[s].pc # "idle" => r = s

\* The docstring of the claim: replicas never claim the same row.
NeverClaimedTwice ==
  \A r, s \in Replicas :
    drain[r].pc = "post" /\ drain[s].pc = "post" /\ drain[r].event = drain[s].event => r = s

\* README: notifications are delivered at least once.  An event that was stored
\* while the channel was on gets its row.
AtLeastOnce == \A e \in Events : (event[e].at = "stored") ~> (row[e] # NoRow)

=============================================================================
