--------------------------- MODULE ManagedDelivery ---------------------------
(***************************************************************************)
(* One delivery of PostgresExecutionSource (postgres/execution_source.py)  *)
(* and the managed branch of DeliveryExecutor that completes it: the owner *)
(* task that runs execute(), the heartbeat task beside it, the row of the  *)
(* execution, and the two who cancel the owner: the heartbeat and the      *)
(* runner that shuts down.                                                 *)
(*                                                                         *)
(* pend is a cancellation that the owner's next step meets; a shielded     *)
(* call (_await_critical) goes on meanwhile.  lease and seen are the time  *)
(* left on the lease, in the row and according to the delivery's own       *)
(* lease_expires_at.  A call to the database that raises may have been     *)
(* committed.  What the row may do is ExecutionBackend's subject; here it  *)
(* is one lease of it.                                                     *)
(***************************************************************************)
EXTENDS Integers

CONSTANT LeaseTime   \* lease_duration_s in ticks

VARIABLES
    row,        \* status of the execution
    mine,       \* the row still carries this delivery's lease token
    lease, seen,
    stage,      \* where execute() is suspended
    want,       \* status of the completion being made
    inner,      \* the call behind the shield of _await_critical
    pend,       \* the owner has a cancellation to meet
    hbPending,  \* _heartbeat_cancel_pending
    cancelReq,  \* delivery.cancel_requested
    completed,  \* _completed
    hb,         \* the heartbeat task
    stop,       \* _heartbeat_stop
    runnerHit,  \* the runner has cancelled the owner
    cut         \* where a cancellation ended execute() for good, if it did

rowVars == <<row, mine, lease, seen>>
hbVars == <<hb, stop>>
vars == <<rowVars, stage, want, inner, pend, hbPending, cancelReq, completed, hbVars,
          runnerHit, cut>>

Statuses == {"running", "cancel_requested", "queued", "retrying", "succeeded",
             "failed", "cancelled"}
Completions == {"succeeded", "retrying", "failed", "cancelled"}
Stages == {"claimed", "body", "stopHb", "complete", "failing", "cancelEvent",
           "closing", "done"}
HbAlive == {"sleep", "beat", "backoff", "dying", "dyingInBackoff"}

Init ==
    /\ row = "running" /\ mine = TRUE /\ lease = LeaseTime /\ seen = LeaseTime
    /\ stage = "claimed" /\ want = "succeeded" /\ inner = "todo"
    /\ pend = FALSE /\ hbPending = FALSE /\ cancelReq = FALSE /\ completed = FALSE
    /\ hb = "off" /\ stop = FALSE /\ runnerHit = FALSE /\ cut = "no"

LeaseHolds == mine /\ lease > 0 /\ row \in {"running", "cancel_requested"}
-----------------------------------------------------------------------------
(* The row and its other users *)

Tick ==
    /\ mine /\ lease > 0
    /\ lease' = lease - 1
    /\ seen' = IF seen > 0 THEN seen - 1 ELSE 0
    /\ UNCHANGED <<row, mine, stage, want, inner, pend, hbPending, cancelReq, completed,
                   hbVars, runnerHit, cut>>

RequestCancel ==
    /\ row = "running"
    /\ row' = "cancel_requested"
    /\ UNCHANGED <<mine, lease, seen, stage, want, inner, pend, hbPending, cancelReq,
                   completed, hbVars, runnerHit, cut>>

\* claim() of another worker meets the lapsed lease.
Reclaim ==
    /\ mine /\ lease = 0
    /\ mine' = FALSE
    /\ row' = IF row = "cancel_requested" THEN "cancelled" ELSE "retrying"
    /\ UNCHANGED <<lease, seen, stage, want, inner, pend, hbPending, cancelReq,
                   completed, hbVars, runnerHit, cut>>

\* The runner cancels a handler that outlives the shutdown timeout, once.
RunnerCancel ==
    /\ stage \notin {"claimed", "done"} /\ ~runnerHit
    /\ pend' = TRUE /\ runnerHit' = TRUE
    /\ UNCHANGED <<rowVars, stage, want, inner, hbPending, cancelReq, completed, hbVars,
                   cut>>
-----------------------------------------------------------------------------
(* The heartbeat task *)

CancelOwner ==
    IF stage = "done" THEN UNCHANGED <<pend, hbPending>>
    ELSE pend' = TRUE /\ hbPending' = TRUE

\* wait_for timed out: the stop event was not set.
HbWake ==
    /\ hb \in {"sleep", "backoff"} /\ ~stop
    /\ hb' = "beat"
    /\ UNCHANGED <<rowVars, stage, want, inner, pend, hbPending, cancelReq, completed,
                   stop, runnerHit, cut>>

\* Mutant: a requested cancellation does not end the loop.
DeafHbResult ==
    /\ hb = "beat" /\ LeaseHolds
    /\ lease' = LeaseTime /\ seen' = LeaseTime
    /\ cancelReq' = (row = "cancel_requested")
    /\ hb' = "sleep"
    /\ UNCHANGED <<row, mine, stage, want, inner, pend, hbPending, completed, stop,
                   runnerHit, cut>>

\* heartbeat() renewed the lease.
HbResult ==
    /\ hb = "beat" /\ LeaseHolds
    /\ lease' = LeaseTime /\ seen' = LeaseTime
    /\ cancelReq' = (row = "cancel_requested")
    /\ IF cancelReq' THEN hb' = "done" /\ stop' = TRUE /\ CancelOwner
                     ELSE hb' = "sleep" /\ UNCHANGED <<stop, pend, hbPending>>
    /\ UNCHANGED <<row, mine, stage, want, inner, completed, runnerHit, cut>>

\* _heartbeat_with_retry gave up: the loop cancels the owner and ends.
HbGivesUp ==
    /\ hb' = "done" /\ stop' = TRUE
    /\ CancelOwner

\* The lease is lost (StaleExecutionLease), or an error cannot be retried.
HbStale ==
    /\ hb = "beat"
    /\ ~LeaseHolds
    /\ HbGivesUp
    /\ UNCHANGED <<rowVars, stage, want, inner, cancelReq, completed, runnerHit, cut>>

\* A connector error; lease_remaining() decides whether to try again.
HbError ==
    /\ hb = "beat"
    /\ lease' \in (IF LeaseHolds THEN {lease, LeaseTime} ELSE {lease})
    /\ \/ /\ seen > 0
          /\ hb' = "backoff"
          /\ UNCHANGED <<stop, pend, hbPending>>
       \/ HbGivesUp
    /\ UNCHANGED <<row, mine, seen, stage, want, inner, cancelReq, completed, runnerHit,
                   cut>>

\* The task cancelled by _stop_heartbeat ends; a wait_for that had already seen the
\* stop event may return instead, and the loop then cancels the owner.
HbDies ==
    /\ hb \in {"dying", "dyingInBackoff"}
    /\ hb' = "done"
    /\ \/ UNCHANGED <<pend, hbPending>>
       \/ hb = "dyingInBackoff" /\ CancelOwner
    /\ UNCHANGED <<rowVars, stage, want, inner, cancelReq, completed, stop, runnerHit,
                   cut>>
-----------------------------------------------------------------------------
(* The owner task: execute() *)

ReleaseUnstarted ==
    /\ stage = "claimed"
    /\ stage' = "done"
    /\ IF mine /\ lease > 0 /\ row = "running"
         THEN row' = "queued" /\ mine' = FALSE
         ELSE UNCHANGED <<row, mine>>
    /\ UNCHANGED <<lease, seen, want, inner, pend, hbPending, cancelReq, completed,
                   hbVars, runnerHit, cut>>

StartProcessing ==
    /\ stage = "claimed"
    /\ stage' = "body" /\ hb' = "sleep" /\ stop' = FALSE
    /\ UNCHANGED <<rowVars, want, inner, pend, hbPending, cancelReq, completed,
                   runnerHit, cut>>

\* Mutant: the completion is sent without stopping the heartbeat.
CompletingUnstopped(w) ==
    /\ want' = w /\ inner' = "todo"
    /\ stage' = IF completed THEN "closing" ELSE "complete"

\* complete_execution(w) from here; a delivery already completed returns at once.
Completing(w) ==
    /\ want' = w /\ inner' = "todo"
    /\ stage' = IF completed THEN "closing" ELSE "stopHb"

\* Everything up to the acknowledgement went well.
BodySucceeds ==
    /\ stage = "body" /\ ~pend
    /\ Completing("succeeded")
    /\ UNCHANGED <<rowVars, pend, hbPending, cancelReq, completed, hbVars, runnerHit,
                   cut>>

BodyFails ==
    /\ stage = "body" /\ ~pend
    /\ stage' = "failing"
    /\ UNCHANGED <<rowVars, want, inner, pend, hbPending, cancelReq, completed, hbVars,
                   runnerHit, cut>>

\* Failure hooks, retry policy and dead letter come before the completion.
FailureHandled ==
    /\ stage = "failing" /\ ~pend
    /\ \E w \in {"retrying", "failed"} : Completing(w)
    /\ UNCHANGED <<rowVars, pend, hbPending, cancelReq, completed, hbVars, runnerHit,
                   cut>>

\* _handle_cancelled, after the CANCELLED event.
CancelHandled ==
    /\ stage = "cancelEvent" /\ ~pend
    /\ Completing(IF cancelReq THEN "cancelled" ELSE "retrying")
    /\ UNCHANGED <<rowVars, pend, hbPending, cancelReq, completed, hbVars, runnerHit,
                   cut>>

\* A CancelledError raised while the completion is that of the body goes to
\* _handle_cancelled; raised anywhere else it ends execute().
Raised(where) ==
    IF want = "succeeded" /\ stage \in {"body", "stopHb", "complete", "closing"}
      THEN stage' = "cancelEvent" /\ UNCHANGED cut
      ELSE stage' = "done" /\ cut' = where

Cancelled ==
    /\ pend /\ stage \in {"body", "failing", "cancelEvent", "closing"}
    /\ pend' = FALSE
    /\ Raised("event")
    /\ UNCHANGED <<rowVars, want, inner, hbPending, cancelReq, completed, hbVars,
                   runnerHit>>

\* The last event (SUCCEEDED, RETRIED, FAILED) was emitted.
Closed ==
    /\ stage = "closing" /\ ~pend
    /\ stage' = "done"
    /\ UNCHANGED <<rowVars, want, inner, pend, hbPending, cancelReq, completed, hbVars,
                   runnerHit, cut>>
-----------------------------------------------------------------------------
(* complete_execution: _stop_heartbeat and backend.complete behind a shield *)

StopHeartbeat ==
    /\ stage = "stopHb" /\ inner = "todo"
    /\ inner' = "wait" /\ stop' = TRUE
    /\ hb' = CASE hb \in {"sleep", "beat"} -> "dying"
               [] hb = "backoff" -> "dyingInBackoff"
               [] OTHER -> hb
    /\ UNCHANGED <<rowVars, stage, want, pend, hbPending, cancelReq, completed,
                   runnerHit, cut>>

\* What the transaction of complete() leaves in the row.
Stored == IF want = "succeeded" /\ row = "cancel_requested" THEN "cancelled" ELSE want

MayStore ==
    /\ LeaseHolds
    /\ want \in {"retrying", "failed"} => row = "running"

\* Mutant: a failed compare-and-set is taken for a completion.
BackendCompleteBlind ==
    /\ stage = "complete" /\ inner = "todo"
    /\ IF MayStore THEN row' = Stored /\ mine' = FALSE ELSE UNCHANGED <<row, mine>>
    /\ inner' = "ok"
    /\ UNCHANGED <<lease, seen, stage, want, pend, hbPending, cancelReq, completed,
                   hbVars, runnerHit, cut>>

BackendComplete ==
    /\ stage = "complete" /\ inner = "todo"
    /\ IF MayStore
         THEN /\ row' = Stored /\ mine' = FALSE
              /\ inner' = IF want = "succeeded" /\ Stored = "cancelled"
                            THEN "cancelWon" ELSE "ok"
         ELSE inner' = "stale" /\ UNCHANGED <<row, mine>>
    /\ UNCHANGED <<lease, seen, stage, want, pend, hbPending, cancelReq, completed,
                   hbVars, runnerHit, cut>>

\* complete() raised: a connection that broke before or after the commit, or a result
\* that cannot be stored.
BackendCompleteFails ==
    /\ stage = "complete" /\ inner = "todo"
    /\ inner' = "error"
    /\ \/ UNCHANGED <<row, mine>>
       \/ MayStore /\ row' = Stored /\ mine' = FALSE
    /\ UNCHANGED <<lease, seen, stage, want, pend, hbPending, cancelReq, completed,
                   hbVars, runnerHit, cut>>

InnerDone ==
    \/ stage = "stopHb" /\ inner = "wait" /\ hb \notin HbAlive
    \/ stage = "complete" /\ inner # "todo"

\* _await_critical gives its call up only for a cancellation that is not the heartbeat's.
MayAbort == pend /\ stage \in {"stopHb", "complete"} /\ ~InnerDone /\ ~hbPending

Abort ==
    /\ MayAbort
    /\ pend' = FALSE
    /\ Raised("critical")
    /\ \/ UNCHANGED <<row, mine>>
       \/ stage = "complete" /\ MayStore /\ row' = Stored /\ mine' = FALSE
    /\ UNCHANGED <<lease, seen, want, inner, hbPending, cancelReq, completed, hbVars,
                   runnerHit>>

\* A cancellation of the heartbeat is swallowed while the call is on its way.
Swallow ==
    /\ pend /\ stage \in {"stopHb", "complete"} /\ ~InnerDone /\ hbPending
    /\ pend' = FALSE
    /\ UNCHANGED <<rowVars, stage, want, inner, hbPending, cancelReq, completed, hbVars,
                   runnerHit, cut>>

HeartbeatStopped ==
    /\ stage = "stopHb" /\ InnerDone
    /\ stage' = "complete" /\ inner' = "todo" /\ pend' = FALSE
    /\ UNCHANGED <<rowVars, want, hbPending, cancelReq, completed, hbVars, runnerHit,
                   cut>>

\* The call behind the shield is over; a cancellation met now is dropped.
CompleteReturns ==
    /\ stage = "complete" /\ InnerDone
    /\ hbPending' = FALSE /\ pend' = FALSE
    /\ completed' = (inner \in {"ok", "cancelWon"})
    /\ cancelReq' = (cancelReq \/ inner = "cancelWon")
    /\ CASE inner = "cancelWon" -> stage' = "cancelEvent" /\ UNCHANGED <<want, inner, cut>>
         [] inner \in {"ok", "stale"} -> stage' = "closing" /\ UNCHANGED <<want, inner, cut>>
         [] inner = "error" /\ want = "succeeded" ->
              stage' = "failing" /\ want' = "retrying" /\ UNCHANGED <<inner, cut>>
         [] inner = "error" /\ want = "failed" ->
              stage' = "stopHb" /\ want' = "retrying" /\ inner' = "todo" /\ UNCHANGED cut
         [] OTHER -> stage' = "done" /\ cut' = "error" /\ UNCHANGED <<want, inner>>
    /\ UNCHANGED <<rowVars, hbVars, runnerHit>>
-----------------------------------------------------------------------------
OwnerStep ==
    \/ FailureHandled \/ CancelHandled \/ Cancelled \/ Closed
    \/ StopHeartbeat \/ BackendComplete \/ BackendCompleteFails
    \/ Abort \/ Swallow \/ HeartbeatStopped \/ CompleteReturns

HeartbeatStep ==
    HbWake \/ HbResult \/ HbStale \/ HbError \/ HbDies

\* Over: nothing is left to do for the delivery.
Ended == stage = "done" /\ hb \notin HbAlive /\ UNCHANGED vars

Next ==
    \/ Tick \/ RequestCancel \/ Reclaim \/ RunnerCancel
    \/ ReleaseUnstarted \/ StartProcessing \/ BodySucceeds \/ BodyFails
    \/ OwnerStep \/ HeartbeatStep \/ Ended

\* The event loop runs every ready task, time passes and other workers poll.  Nothing
\* makes a handler return, and a claimed delivery is started or released.
Spec ==
    /\ Init /\ [][Next]_vars
    /\ WF_vars(OwnerStep) /\ WF_vars(HeartbeatStep)
    /\ WF_vars(Tick) /\ WF_vars(Reclaim)
    /\ WF_vars(ReleaseUnstarted \/ StartProcessing)
-----------------------------------------------------------------------------
\* The type invariant.
TypeOK ==
    /\ row \in Statuses /\ stage \in Stages /\ want \in Completions
    /\ lease \in 0..LeaseTime /\ seen \in 0..LeaseTime
    /\ inner \in {"todo", "wait", "ok", "cancelWon", "stale", "error"}
    /\ hb \in HbAlive \cup {"off", "done"}
    /\ cut \in {"no", "event", "critical", "error"}
    /\ {mine, pend, hbPending, cancelReq, completed, stop, runnerHit} \subseteq BOOLEAN

\* A heartbeat task outlives its owner only when a cancellation ended execute() outside
\* its own handling of cancellations (a second one in _handle_cancelled, or one while
\* _handle_failure runs): no other path leaves the lease renewed for nobody.
NoZombieHeartbeat == stage = "done" /\ hb \in HbAlive => cut \in {"event", "critical"}

\* Once the heartbeat has seen the requested cancellation, the CANCELLED completion that
\* answers it is not given up for the runner's shutdown (_heartbeat_cancel_pending).
CancellationIsShielded ==
    cut' = "critical" /\ cut # "critical" => want # "cancelled"

\* A delivery that reports a completion has recorded it: what the row says is what the
\* executor asked for, or the cancellation that won over a success.
CompletedIsStored ==
    ~completed /\ completed' => ~mine /\ row \in {want, "cancelled"}

=============================================================================
