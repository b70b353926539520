------------------------------ MODULE Reporter ------------------------------
(***************************************************************************)
(* ControlPlaneReporter: task events become buffered event records and     *)
(* per-window counters; three loops hand them to the sender, and commands  *)
(* from the control plane (flush_events, flush_metrics, the heartbeat after*)
(* a pause or a resume) do the same but wait for the delivery.  All run on *)
(* one event loop.  Handing a payload to the sender does not suspend, so a *)
(* loop's flush is one step; a command suspends until its payload is       *)
(* delivered and finds the buffers changed when it resumes.                *)
(*                                                                         *)
(* One task; an event record is its number; of the counters of a window    *)
(* the model keeps `started`, and the gauge `inflight`.  A sender that     *)
(* raises ends a flush after some payloads.                                *)
(***************************************************************************)
EXTENDS Integers, Sequences, SequencesExt, FiniteSets, FiniteSetsExt

CONSTANTS Execs,       \* executions of the task
          BatchSize,   \* event_batch_size
          MaxEvents,   \* max_pending_events
          MaxBatches,  \* max_pending_metric_batches
          Commands,    \* commands the control plane sends
          MaxWindows,  \* bound: windows rotated
          MaxFails     \* bound: sends that raise

VARIABLES phase,    \* per execution, the last event the runtime emitted, and how many
                    \* events it emitted that the gauge adds (starts) and subtracts (ends)
          ev,       \* pending event records, handed over, dropped
          bucket,   \* counters of the open window
          mt,       \* pending windows, handed over, dropped
          cmd,      \* per command, the batch it waits for, or idle
          health,   \* the degraded flag; unreported: failures no heartbeat told
          synced,   \* whether the current topology was handed over
          down,     \* shutdown has run
          counts

vars == <<phase, ev, bucket, mt, cmd, health, synced, down, counts>>

Idle == << >>
Zero == [started |-> 0, inflight |-> 0]

Init ==
  /\ phase = [e \in Execs |-> [last |-> "new", starts |-> 0, ends |-> 0]]
  /\ ev = [next |-> 1, pending |-> << >>, handed |-> {}, dropped |-> {}]
  /\ bucket = Zero
  /\ mt = [pending |-> << >>, handed |-> {}, dropped |-> {}]
  /\ cmd = [c \in Commands |-> Idle]
  /\ health = [degraded |-> FALSE, unreported |-> FALSE]
  /\ synced = FALSE /\ down = FALSE
  /\ counts = [windows |-> 0, fails |-> 0]

-----------------------------------------------------------------------------
\* The events one execution emits after another, by the delivery executor.  The
\* delivery's start_processing may raise, so that an execution fails that never
\* started; the dead letter is published before the delivery fails; and a
\* cancellation may arrive while the success is told to another listener.
Unsuccessful == {"RETRIED", "DEAD_LETTERED", "FAILED", "CANCELLED"}
Follows ==
  [new |-> {"STARTED"} \cup Unsuccessful, STARTED |-> {"SUCCEEDED"} \cup Unsuccessful,
   DEAD_LETTERED |-> {"FAILED"}, SUCCEEDED |-> {"CANCELLED"}, CANCELLED |-> {"RETRIED"},
   RETRIED |-> {}, FAILED |-> {}, over |-> {}]
Ends == {"SUCCEEDED", "RETRIED", "FAILED"}

\* The counters of handle_event.  A cancellation counts, and leaves the gauge
\* to the retry that follows it.
Count(kind) ==
  [started |-> bucket.started + IF kind = "STARTED" THEN 1 ELSE 0,
   inflight |-> IF kind = "STARTED" THEN bucket.inflight + 1
                ELSE IF kind \in Ends /\ bucket.inflight > 0
                THEN bucket.inflight - 1 ELSE bucket.inflight]

Degrading == Unsuccessful

Overflow(q, limit) == IF Len(q) > limit THEN Len(q) - limit ELSE 0

\* _apply_event_backpressure, _apply_metric_backpressure
Shed(buf, limit) ==
  LET n == Overflow(buf.pending, limit)
  IN [buf EXCEPT !.pending = SubSeq(@, n + 1, Len(@)),
                 !.dropped = @ \cup ToSet(SubSeq(buf.pending, 1, n))]

\* handle_event
Emit(e, kind) ==
  /\ kind \in Follows[phase[e].last] /\ (phase[e].last = "new" => ~down)
  /\ phase' = [phase EXCEPT ![e] = [last |-> kind,
                 starts |-> @.starts + (IF kind = "STARTED" THEN 1 ELSE 0),
                 ends |-> @.ends + (IF kind \in Ends THEN 1 ELSE 0)]]
  /\ bucket' = Count(kind)
  /\ ev' = Shed([ev EXCEPT !.next = @ + 1, !.pending = Append(@, ev.next)], MaxEvents)
  /\ health' = [degraded |-> health.degraded \/ kind \in Degrading
                              \/ Len(ev.pending) = MaxEvents,
                unreported |-> health.unreported \/ kind \in Degrading]
  /\ UNCHANGED <<mt, cmd, synced, down, counts>>

\* An execution ends without a further event: its retry or fail raises, is cancelled,
\* or completes a managed execution as cancelled.
EndsSilently(e) ==
  /\ phase[e].last \in {"new", "STARTED", "DEAD_LETTERED", "CANCELLED"} /\ ~down
  /\ phase' = [phase EXCEPT ![e].last = "over"]
  /\ UNCHANGED <<ev, bucket, mt, cmd, health, synced, down, counts>>

-----------------------------------------------------------------------------
\* Mutant: a flush deletes one item more than it handed over.
HandedOff(buf, k, n) ==
  LET upTo == IF k * n > Len(buf.pending) THEN Len(buf.pending) ELSE k * n
  IN [buf EXCEPT !.pending = SubSeq(@, upTo + 2, Len(@)),
                 !.handed = @ \cup ToSet(SubSeq(buf.pending, 1, upTo))]

\* k payloads of n items each are handed over, then the sender raised (fails)
\* or nothing was left.
Handed(buf, k, n) ==
  LET upTo == IF k * n > Len(buf.pending) THEN Len(buf.pending) ELSE k * n
  IN [buf EXCEPT !.pending = SubSeq(@, upTo + 1, Len(@)),
                 !.handed = @ \cup ToSet(SubSeq(buf.pending, 1, upTo))]

Payloads(buf, n) == (Len(buf.pending) + n - 1) \div n

SendRaises == /\ counts.fails < MaxFails
              /\ counts' = [counts EXCEPT !.fails = @ + 1]

\* _events_loop: on the signal of a full batch, or at the interval.
FlushEvents ==
  /\ ~down
  /\ \/ ev' = Handed(ev, Payloads(ev, BatchSize), BatchSize) /\ UNCHANGED counts
     \/ \E k \in 0..(Payloads(ev, BatchSize) - 1) : ev' = Handed(ev, k, BatchSize) /\ SendRaises
  /\ UNCHANGED <<phase, bucket, mt, cmd, health, synced, down>>

HasActivity == bucket # Zero

\* _TaskMetricsState.rotate: counters restart, the gauge stays.
Rotated == [Zero EXCEPT !.inflight = bucket.inflight]

\* _rotate_metrics_window: what is pending once the open window is closed.
Pending ==
  IF HasActivity
  THEN Shed([mt EXCEPT !.pending =
         Append(@, [window |-> counts.windows + 1, started |-> bucket.started])], MaxBatches)
  ELSE mt

Rotate ==
  /\ bucket' = IF HasActivity THEN Rotated ELSE bucket
  /\ health' = [health EXCEPT !.degraded =
                  @ \/ (HasActivity /\ Len(mt.pending) = MaxBatches)]

\* _metrics_loop: the window is rotated and what is pending handed over.
MetricsLoop ==
  /\ ~down /\ counts.windows < MaxWindows
  /\ Rotate
  /\ \/ /\ mt' = Handed(Pending, Len(Pending.pending), 1)
        /\ counts' = [counts EXCEPT !.windows = @ + 1]
     \/ /\ counts.fails < MaxFails
        /\ \E k \in 0..(Len(Pending.pending) - 1) : mt' = Handed(Pending, k, 1)
        /\ counts' = [windows |-> counts.windows + 1, fails |-> counts.fails + 1]
  /\ UNCHANGED <<phase, ev, cmd, synced, down>>

\* _send_sync: skipped when this topology was handed over already.
Sync ==
  \/ synced' = TRUE /\ UNCHANGED counts
  \/ UNCHANGED synced /\ SendRaises

\* _send_heartbeat without waiting: health is read, sent and reset at once.
Heartbeat == [degraded |-> FALSE, unreported |-> FALSE]

\* _heartbeat_loop: a sync when one is due, then the heartbeat.
HeartbeatLoop ==
  /\ ~down
  /\ IF synced THEN UNCHANGED <<synced, counts>> ELSE Sync
  /\ health' = Heartbeat
  /\ UNCHANGED <<phase, ev, bucket, mt, cmd, down>>

-----------------------------------------------------------------------------
FirstBatch(q) == SubSeq(q, 1, IF Len(q) < BatchSize THEN Len(q) ELSE BatchSize)

\* flush_events_now hands a batch over and waits for its delivery.
FlushEventsNow ==
  /\ "flush_events" \in Commands /\ cmd["flush_events"] = Idle /\ ~down /\ ev.pending # << >>
  /\ cmd' = [cmd EXCEPT !["flush_events"] = FirstBatch(ev.pending)]
  /\ ev' = [ev EXCEPT !.handed = @ \cup ToSet(FirstBatch(ev.pending))]
  /\ UNCHANGED <<phase, bucket, mt, health, synced, down, counts>>

\* It deletes as many records as it handed over, and goes on with the rest.
EventsDelivered ==
  /\ "flush_events" \in Commands /\ cmd["flush_events"] # Idle
  /\ LET n == Len(cmd["flush_events"])
         rest == SubSeq(ev.pending, n + 1, Len(ev.pending))
     IN /\ ev' = [ev EXCEPT !.pending = rest, !.handed = @ \cup ToSet(FirstBatch(rest))]
        /\ cmd' = [cmd EXCEPT !["flush_events"] = FirstBatch(rest)]
  /\ UNCHANGED <<phase, bucket, mt, health, synced, down, counts>>

FirstWindow(q) == IF q = << >> THEN Idle ELSE <<Head(q)>>

\* flush_metrics_now rotates, hands a window over and waits.
FlushMetricsNow ==
  /\ "flush_metrics" \in Commands /\ cmd["flush_metrics"] = Idle /\ ~down
  /\ counts.windows < MaxWindows
  /\ Rotate
  /\ mt' = [Pending EXCEPT !.handed = @ \cup ToSet(FirstWindow(Pending.pending))]
  /\ cmd' = [cmd EXCEPT !["flush_metrics"] = FirstWindow(Pending.pending)]
  /\ counts' = [counts EXCEPT !.windows = @ + 1]
  /\ UNCHANGED <<phase, ev, synced, down>>

\* pop(0), which raises IndexError when the loop emptied the buffer meanwhile.
MetricsDelivered ==
  /\ "flush_metrics" \in Commands /\ cmd["flush_metrics"] # Idle
  /\ LET rest == IF mt.pending = << >> THEN << >> ELSE Tail(mt.pending)
     IN /\ mt' = [mt EXCEPT !.pending = rest, !.handed = @ \cup ToSet(FirstWindow(rest))]
        /\ cmd' = [cmd EXCEPT !["flush_metrics"] = FirstWindow(rest)]
  /\ UNCHANGED <<phase, ev, bucket, health, synced, down, counts>>

HeartbeatNow ==
  /\ "heartbeat" \in Commands /\ cmd["heartbeat"] = Idle /\ ~down
  /\ cmd' = [cmd EXCEPT !["heartbeat"] = <<health.degraded>>]
  /\ health' = [health EXCEPT !.unreported = FALSE]
  /\ UNCHANGED <<phase, ev, bucket, mt, synced, down, counts>>

HeartbeatDelivered ==
  /\ "heartbeat" \in Commands /\ cmd["heartbeat"] # Idle
  /\ health' = [health EXCEPT !.degraded = FALSE]
  /\ cmd' = [cmd EXCEPT !["heartbeat"] = Idle]
  /\ UNCHANGED <<phase, ev, bucket, mt, synced, down, counts>>

\* The waiter of a command fails: backpressure in the sender, or its close.
CommandFails(c) ==
  /\ cmd[c] # Idle
  /\ cmd' = [cmd EXCEPT ![c] = Idle]
  /\ UNCHANGED <<phase, ev, bucket, mt, health, synced, down, counts>>

-----------------------------------------------------------------------------
\* shutdown: the loops have ended; a last rotation and two last flushes.
Shutdown ==
  /\ ~down
  /\ down' = TRUE
  /\ Rotate
  /\ mt' = Handed(Pending, Len(Pending.pending), 1)
  /\ ev' = Handed(ev, Payloads(ev, BatchSize), BatchSize)
  /\ UNCHANGED <<phase, cmd, synced, counts>>

Next ==
  \/ \E e \in Execs, k \in Degrading \cup {"STARTED", "SUCCEEDED"} : Emit(e, k)
  \/ \E e \in Execs : EndsSilently(e)
  \/ FlushEvents \/ MetricsLoop \/ HeartbeatLoop
  \/ FlushEventsNow \/ EventsDelivered \/ FlushMetricsNow \/ MetricsDelivered
  \/ HeartbeatNow \/ HeartbeatDelivered \/ (\E c \in Commands : CommandFails(c))
  \/ Shutdown

Spec == Init /\ [][Next]_vars
        /\ WF_vars(FlushEvents) /\ WF_vars(HeartbeatLoop)

-----------------------------------------------------------------------------
\* The type invariant.
TypeOK ==
  /\ Len(ev.pending) <= MaxEvents /\ Len(mt.pending) <= MaxBatches
  /\ ev.handed \cup ev.dropped \cup ToSet(ev.pending) \subseteq 1..(ev.next - 1)
  /\ bucket.inflight \in 0..Cardinality(Execs)
  /\ health \in [degraded : BOOLEAN, unreported : BOOLEAN]

\* An event record is pending, was handed to the sender, or was dropped by
\* backpressure: no flush deletes one it did not hand over.
EventsKept == 1..(ev.next - 1) = ToSet(ev.pending) \cup ev.handed \cup ev.dropped

\* Every start is counted in exactly one window, whether the window is open,
\* pending, handed over or dropped.
MetricsKept ==
  LET Starts(w) == w.started IN
  bucket.started + MapThenSumSet(Starts, ToSet(mt.pending) \cup mt.handed \cup mt.dropped)
    = Cardinality({e \in Execs : phase[e].starts > 0})

\* The gauge survives the rotation of the windows: as long as every execution that
\* told its end had told its start, and told its end once, it is the number of
\* executions that have started and told no end, those that ended silently among
\* them; and it is never below the starts less the ends, whatever happens.
GaugeExact ==
  LET Open(e) == phase[e].starts - phase[e].ends
      open == MapThenSumSet(Open, Execs)
  IN IF \A e \in Execs : Open(e) >= 0 THEN bucket.inflight = open ELSE bucket.inflight >= open

\* A failure that no heartbeat reported yet keeps the reporter degraded.
FailureKept == health.unreported => health.degraded

=============================================================================
