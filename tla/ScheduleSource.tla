--------------------------- MODULE ScheduleSource ---------------------------
(* The in-process schedule sources (connectors/schedule.py): IntervalSource  *)
(* and CronSource over BaseScheduleSource.  Time is a count of ticks; a run  *)
(* is named by the tick it was scheduled at.  The runner is external: it     *)
(* fetches with the room its concurrency leaves, and settles what it got.    *)
EXTENDS Integers, FiniteSets, Sequences

CONSTANTS Kind,          \* "interval" or "cron"
          Interval,      \* ticks between the runs of an interval source
          CronSlots,     \* ticks that the cron expression matches
          Immediate,     \* the immediate option
          Overlap,       \* "allow", "skip" or "queue"
          MaxQueued,     \* max_queued_runs
          Concurrency,   \* of the task that uses the source
          MaxNow,        \* bound on time
          MaxDue,        \* max_due: runs collected by one fetch, at most
          MaxAttempts,   \* bound on retries of one run
          MaxLeaks,      \* bound on deliveries dropped by stops and pauses
          MaxPauses      \* bound on resumes and restarts

VARIABLES now,       \* the clock
          nextFire,  \* _next_fire_at, 0 when there is none (not initialised)
          immediate, \* _pending_immediate
          inflight,  \* _inflight
          queued,    \* _queued_runs
          retries,   \* _retry_heap: runs with the tick they are ready at
          out,       \* deliveries in the hands of the runner
          leaked,    \* deliveries the runner dropped, still in _inflight
          started,   \* runs handed to the runner since the last (re)start
          dropped,   \* runs the source collected and gave up
          lastSlot,  \* the last slot collected since the last (re)start
          pauses     \* resumes and restarts so far
vars == <<now, nextFire, immediate, inflight, queued, retries, out, leaked, started, dropped, lastSlot, pauses>>

Never == MaxNow + 100

-----------------------------------------------------------------------------
Least(S) == CHOOSE x \in S : \A y \in S : x <= y
Greatest(S) == CHOOSE x \in S : \A y \in S : x >= y
Runs(q) == {q[i] : i \in DOMAIN q}

\* The next tick the cron expression matches.
CronNext(t) == LET S == {s \in CronSlots : s > t} IN IF S = {} THEN Never ELSE Least(S)

NextFireAfter(t) == IF Kind = "interval" THEN t + Interval ELSE CronNext(t)

\* first_fire_at: a cron source may fire at once.
InitialFireAt(t) == IF Kind = "cron" /\ t \in CronSlots THEN t ELSE NextFireAfter(t)

\* A new run; its number (the sequence of the envelope) tells it from others.
Fresh(t) == [slot |-> t, attempts |-> 0,
             id |-> Least((1 .. Cardinality(out \cup retries) + 1) \ {x.id : x \in out \cup retries})]

Init ==
  /\ now = 1 /\ nextFire = InitialFireAt(1) /\ immediate = Immediate
  /\ inflight = 0 /\ queued = <<>> /\ retries = {} /\ out = {} /\ leaked = 0
  /\ started = {} /\ dropped = {} /\ lastSlot = 0 /\ pauses = 0

\* The slots _collect_due_runs_locked returns, oldest first, MaxDue at most.
Due == {s \in nextFire .. now :
          IF Kind = "cron" THEN s \in CronSlots ELSE (s - nextFire) % Interval = 0}
DueRuns == [k \in 1 .. Least({Cardinality(Due), MaxDue}) |->
              CHOOSE s \in Due : Cardinality({u \in Due : u < s}) = k - 1]

\* _queue_runs_locked: the oldest waiting runs give way.
Enqueue(runs) == LET q == queued \o runs
                 IN SubSeq(q, Len(q) - Least({Len(q), MaxQueued}) + 1, Len(q))

\* What fetch returns is counted.  The runner starts it, or drops it because the
\* task was stopped, drained or paused meanwhile: then nobody takes it off the count.
Deliver(ds) == /\ inflight' = inflight + Cardinality(ds)
               /\ started' = started \cup {d.slot : d \in {e \in ds : e.attempts = 0}}
               /\ \/ out' = out \cup ds /\ leaked' = leaked
                  \/ out' = out /\ leaked < MaxLeaks /\ leaked' = leaked + Cardinality(ds)

\* _handle_due_runs_locked under the three overlap policies.
HandleDueRuns(runs, limit) ==
  \/ /\ Overlap = "allow"
     /\ Deliver({Fresh(runs[i]) : i \in 1 .. Least({Len(runs), limit})})
     /\ dropped' = dropped \cup {runs[i] : i \in limit + 1 .. Len(runs)}
     /\ UNCHANGED queued
  \/ /\ Overlap = "skip" /\ inflight = 0
     /\ Deliver({Fresh(runs[Len(runs)])})
     /\ dropped' = dropped \cup {runs[i] : i \in 1 .. Len(runs) - 1}
     /\ UNCHANGED queued
  \/ /\ Overlap = "skip" /\ inflight > 0
     /\ dropped' = dropped \cup Runs(runs)
     /\ UNCHANGED <<queued, out, inflight, leaked, started>>
  \/ /\ Overlap = "queue"
     /\ LET rest == IF inflight > 0 THEN runs ELSE Tail(runs)
        IN /\ queued' = Enqueue(rest)
           /\ dropped' = dropped \cup (Runs(queued \o rest) \ Runs(Enqueue(rest)))
     /\ IF inflight > 0 THEN UNCHANGED <<out, inflight, leaked, started>>
                        ELSE Deliver({Fresh(Head(runs))})

ReadyRetries == {r \in retries : r.at <= now}

\* The order of _retry_heap.
Before(s, r) == s.at < r.at \/ (s.at = r.at /\ s.seq < r.seq)

\* Mutant: runs in flight do not hold back the queue.
QueueBlind == Overlap = "queue" /\ queued # <<>>

QueueReady == Overlap = "queue" /\ inflight = 0 /\ queued # <<>>

\* fetch(limit): retries first, then the immediate run, the queue, due runs.
Fetch ==
  LET limit == Concurrency - Cardinality(out)
  IN /\ limit > 0
     /\ \/ /\ ReadyRetries # {}
           /\ LET first == {r \in ReadyRetries :
                             Cardinality({s \in ReadyRetries : Before(s, r)}) < limit}
              IN /\ retries' = retries \ first
                 /\ Deliver({[slot |-> r.slot, attempts |-> r.attempts, id |-> r.id] : r \in first})
           /\ UNCHANGED <<nextFire, immediate, queued, dropped, lastSlot>>
        \/ /\ ReadyRetries = {} /\ immediate /\ immediate' = FALSE
           /\ HandleDueRuns(<<now>>, limit)
           /\ UNCHANGED <<nextFire, retries, lastSlot>>
        \/ /\ ReadyRetries = {} /\ ~immediate /\ QueueReady
           /\ queued' = Tail(queued)
           /\ Deliver({Fresh(Head(queued))})
           /\ UNCHANGED <<nextFire, immediate, retries, dropped, lastSlot>>
        \/ /\ ReadyRetries = {} /\ ~immediate /\ ~QueueReady
           /\ nextFire <= now
           /\ HandleDueRuns(DueRuns, limit)
           /\ nextFire' = NextFireAfter(DueRuns[Len(DueRuns)])
           /\ lastSlot' = DueRuns[Len(DueRuns)]
           /\ UNCHANGED <<immediate, retries>>
     /\ UNCHANGED <<now, pauses>>

\* finish_success and finish_failure.
Finish(d) ==
  /\ d \in out /\ out' = out \ {d}
  /\ inflight' = Greatest({0, inflight - 1})
  /\ UNCHANGED <<now, nextFire, immediate, queued, retries, leaked, started, dropped, lastSlot, pauses>>

\* finish_retry: the run waits outside the in-flight count.
Retry(d, delay) ==
  /\ d \in out /\ d.attempts < MaxAttempts /\ now + delay <= MaxNow
  /\ out' = out \ {d}
  /\ inflight' = Greatest({0, inflight - 1})
  /\ retries' = retries \cup {[slot |-> d.slot, attempts |-> d.attempts + 1, id |-> d.id,
                               at |-> now + delay, seq |-> 1 + Greatest({0} \cup {r.seq : r \in retries})]}
  /\ UNCHANGED <<now, nextFire, immediate, queued, leaked, started, dropped, lastSlot, pauses>>

\* resume_after_pause: what came due during the pause is not made up for; what the
\* pause dropped stays in _inflight.
Resume ==
  /\ pauses < MaxPauses /\ pauses' = pauses + 1
  /\ immediate' = FALSE /\ queued' = <<>> /\ nextFire' = InitialFireAt(now)
  /\ dropped' = dropped \cup Runs(queued) /\ lastSlot' = 0
  /\ UNCHANGED <<now, inflight, retries, out, leaked, started>>

\* _runtime_lock in a new event loop: the source starts over.
NewLoop ==
  /\ pauses < MaxPauses /\ pauses' = pauses + 1 /\ out = {}
  /\ immediate' = Immediate /\ nextFire' = InitialFireAt(now)
  /\ inflight' = 0 /\ leaked' = 0 /\ queued' = <<>> /\ retries' = {}
  /\ started' = {} /\ dropped' = {} /\ lastSlot' = 0
  /\ UNCHANGED <<now, out>>

Tick == now < MaxNow /\ now' = now + 1
        /\ UNCHANGED <<nextFire, immediate, inflight, queued, retries, out, leaked, started, dropped, lastSlot, pauses>>

\* ack, fail and retry of a ScheduleDelivery.
Settle(d) == Finish(d) \/ \E delay \in 0..1 : Retry(d, delay)

Next == Fetch \/ Tick \/ Resume \/ NewLoop \/ \E d \in out : Settle(d)

Spec == Init /\ [][Next]_vars /\ WF_vars(Fetch) /\ WF_vars(Tick)
        /\ WF_vars(\E d \in out : Finish(d))

-----------------------------------------------------------------------------
\* The type invariant.
TypeOK ==
  /\ now \in 1..MaxNow /\ nextFire \in Nat /\ immediate \in BOOLEAN /\ inflight \in Nat
  /\ leaked \in Nat /\ Cardinality(out) <= Concurrency
  /\ Len(queued) <= MaxQueued
  /\ \A d \in out : d.attempts \in 0..MaxAttempts

\* The counter that decides whether runs may overlap equals the deliveries that
\* really are in the runner's hands and the ones it dropped as its task stopped or
\* was paused, although it is decremented with max(0, ..) and retries move in and
\* out of it: no other delivery is forgotten, and no end of a delivery makes up
\* for one that was dropped.
Counted == inflight = Cardinality(out) + leaked

\* Under skip and queue a scheduled run never starts beside another delivery.
StartsAlone ==
  Overlap # "allow" => \A d \in out' \ out : d.attempts = 0 => out = {} /\ out' = {d}

\* docs: skip is for jobs that should not run concurrently.
NeverTwo == Overlap # "allow" => Cardinality(out) <= 1

\* Under queue, every slot up to the last collected one was handed to the runner or
\* waits its turn, in order, unless the backlog overflowed or a pause discarded it.
QueueKeeps ==
  Overlap = "queue" =>
    /\ lastSlot > 0 => \A s \in 1..lastSlot :
         (Kind = "cron" /\ s \in CronSlots) => s \in started \cup Runs(queued) \cup dropped
    /\ \A i, j \in 1..Len(queued) : i < j => queued[i] < queued[j]

\* The backlog keeps the newest runs: what was dropped is older than what waits, in
\* a schedule no stop or pause has taken a delivery from.
DropsOldest == Overlap = "queue" /\ leaked = 0 =>
  \A s \in dropped, i \in 1..Len(queued) : s < queued[i]

\* docs: under allow every slot starts a run.
AllowStartsEach == Overlap = "allow" => dropped = {}

\* A run waiting in the queue or for its retry is started in the end; the queue of a
\* schedule that a stop or a pause took a delivery from is held up for good.
Waiting(s) == (leaked = 0 /\ \E i \in 1..Len(queued) : queued[i] = s) \/ (\E r \in retries : r.slot = s)
NobodyWaits == \A s \in 1..MaxNow : Waiting(s) ~> ~Waiting(s)
=============================================================================
