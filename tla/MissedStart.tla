----------------------------- MODULE MissedStart -----------------------------
(* The missed-start scan of the control plane                                *)
(* (scan_and_dispatch_missed_start_notifications) against an interval task   *)
(* that reports to it: one task, one instance, one channel.  The scan sees   *)
(* the task only through what was reported: the time of the last sync, the   *)
(* start time and the last heartbeat of the instance, and started events     *)
(* with their scheduled_at.  The worker process is external.                 *)
EXTENDS Integers, FiniteSets, FiniteSetsExt

CONSTANTS Interval,      \* seconds between runs
          Grace,         \* missed_start_grace_seconds of the channel
          SyncDelay,     \* from the start of the process to its first sync
          Lag,           \* longest time from the slot to the started event
          ToleranceCap,  \* 60 in the code
          Lookback,      \* DEFAULT_MISSED_START_SCAN_LOOKBACK_LIMIT
          Window,        \* MISSED_START_SCAN_MAX_WINDOW
          OfflineAfter,  \* instance_offline_after_s
          MaxNow, MaxSyncs, MaxRestarts   \* bounds

VARIABLES now,
          running,   \* the worker process is up
          startedAt, \* when it started: reported as started_at
          synced,    \* service.latest_sync_at
          seen,      \* instance.last_seen_at
          planeAt,   \* start of the control plane's scanner: min_last_seen_at
          pending,   \* slots that came due and were not started yet
          fired,     \* slots with a started event
          missed,    \* slots that were never started
          alerts,    \* dedupe keys (slots) of the alerts queued
          syncs, restarts
vars == <<now, running, startedAt, synced, seen, planeAt, pending, fired, missed, alerts, syncs, restarts>>

-----------------------------------------------------------------------------
Init ==
  /\ now = 0 /\ running = TRUE /\ startedAt = 0 /\ synced = SyncDelay /\ seen = 0
  /\ planeAt = 0 /\ pending = {} /\ fired = {} /\ missed = {} /\ alerts = {}
  /\ syncs = 0 /\ restarts = 0

\* _online_service_started_at_by_id: heard from lately, and by this scanner.
Online == seen >= now - OfflineAfter /\ seen >= planeAt

\* _derive_interval_anchor of a task that is not immediate.
Anchor == Max({t \in {synced, startedAt, 0} : t <= now}) + Interval

\* _iter_expected_interval_slots_for_task: newest first, not past the lookback.
ExpectedSlots ==
  LET elapsed == now - Grace - Anchor
      last == elapsed \div Interval
  IN IF elapsed < 0 THEN {}
     ELSE {s \in {Anchor + k * Interval : k \in Max({0, last - Lookback + 1}) .. last} :
             now - s <= Window}

\* Mutant: only the exact slot counts.
ToleranceNone == 0

\* _scheduled_slot_match_tolerance.
Tolerance == Max({1, Min({ToleranceCap, (Interval - 1) \div 2})})

\* _task_started_for_scheduled_slot.
StartedFor(s) == \E e \in fired : e - s <= Tolerance /\ s - e <= Tolerance

\* The slots the scan finds without a start since the instance came up.
Candidates == {s \in ExpectedSlots : s >= startedAt /\ ~StartedFor(s)}

\* The scan: the newest slot without a start is the one reported; if it was
\* reported before, the dedupe key swallows it and the scan stops all the same.
Scan ==
  /\ Online /\ Candidates # {}
  /\ alerts' = alerts \cup {Max(Candidates)}
  /\ UNCHANGED <<now, running, startedAt, synced, seen, planeAt, pending, fired, missed, syncs, restarts>>

\* Time passes; a running process reports a heartbeat and its slots come due.
Tick ==
  /\ now < MaxNow /\ \A s \in pending : now < s + Lag
  /\ now' = now + 1
  /\ seen' = IF running THEN now + 1 ELSE seen
  /\ pending' = IF running /\ (now + 1 - startedAt) % Interval = 0 THEN pending \cup {now + 1} ELSE pending
  /\ UNCHANGED <<running, startedAt, synced, planeAt, fired, missed, alerts, syncs, restarts>>

Start(s) ==
  /\ s \in pending /\ running
  /\ pending' = pending \ {s} /\ fired' = fired \cup {s}
  /\ UNCHANGED <<now, running, startedAt, synced, seen, planeAt, missed, alerts, syncs, restarts>>

Miss(s) ==
  /\ s \in pending
  /\ pending' = pending \ {s} /\ missed' = missed \cup {s}
  /\ UNCHANGED <<now, running, startedAt, synced, seen, planeAt, fired, alerts, syncs, restarts>>

\* ingest_sync_request: a reporter that reconnects sends its snapshot again.
Sync ==
  /\ running /\ syncs < MaxSyncs /\ now > synced
  /\ synced' = now /\ syncs' = syncs + 1
  /\ UNCHANGED <<now, running, startedAt, seen, planeAt, pending, fired, missed, alerts, restarts>>

Stop ==
  /\ running /\ restarts < MaxRestarts
  /\ running' = FALSE /\ restarts' = restarts + 1
  /\ UNCHANGED <<now, startedAt, synced, seen, planeAt, pending, fired, missed, alerts, syncs>>

Restart ==
  /\ ~running /\ running' = TRUE
  /\ startedAt' = now /\ synced' = now + SyncDelay /\ seen' = now
  /\ pending' = {} /\ missed' = missed \cup pending
  /\ UNCHANGED <<now, planeAt, fired, alerts, syncs, restarts>>

PlaneRestart ==
  /\ restarts < MaxRestarts /\ planeAt' = now /\ restarts' = restarts + 1
  /\ UNCHANGED <<now, running, startedAt, synced, seen, pending, fired, missed, alerts, syncs>>

Next == \/ Scan \/ Tick \/ Sync \/ Stop \/ Restart \/ PlaneRestart
        \/ \E s \in pending : Start(s) \/ Miss(s)
Spec == Init /\ [][Next]_vars /\ WF_vars(Scan) /\ WF_vars(Tick)

-----------------------------------------------------------------------------
\* The type invariant.
TypeOK == /\ now \in 0..MaxNow /\ seen \in 0..MaxNow /\ fired \subseteq 0..MaxNow
          /\ missed \subseteq 0..MaxNow /\ alerts \subseteq 0..(MaxNow + SyncDelay)
          /\ fired \cap missed = {} /\ pending \cap fired = {}

\* Two times that belong to the same run of the task.
Near(a, b) == 2 * (a - b) < Interval /\ 2 * (b - a) < Interval

\* design: a missed start means that the execution did not start on time.  No
\* alert is for a slot the task started in, although the scan works out slots
\* from the time of the sync and the task from the time its source opened.
NoFalseAlarm == \A a \in alerts, e \in fired : ~Near(a, e)

\* design: one scheduled run produces at most one alert.
OneAlertPerRun == \A a, b \in alerts : a # b => ~Near(a, b)

\* No alert is queued for an instance that is down and known to be down.
QuietWhenOffline ==
  alerts' # alerts => \/ running \/ now - seen <= OfflineAfter

\* design: every expected slot without a start is reported while the instance is
\* online.
EveryMissReported ==
  \A s \in 1..MaxNow - Grace : (s \in missed /\ running /\ restarts = MaxRestarts)
                                  ~> (\E a \in alerts : Near(a, s))
=============================================================================
