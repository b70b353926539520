------------------------------ MODULE MCControlPlane ------------------------------
(*****************************************************************************)
(* The control plane and the agents that report to it, one part at a time:   *)
(* commands, the sender and the reporter of an agent, its identity, the      *)
(* notification outbox, the scans for lost instances and missed runs, and    *)
(* the cron expressions both sides evaluate.                                 *)
(*****************************************************************************)
EXTENDS Integers, Sequences, FiniteSets, FiniteSetsExt, SequencesExt, TLC

VARIABLES part,  \* the component a behaviour is about; it never changes
          cmd, sess, capable, live, handler, pending, sendq, down, up, broken,
          expiring, conn, linked, receipts, running, runs, restarts, chan, queue,
          waiters, outcome, worker, cur, wake, stop, attempts, connected, sent,
          gone, counts, phase, ev, bucket, mt, health, synced, proc, lock, file,
          got, inst, event, row, channel, drain, posts, now, startedAt, seen,
          planeAt, fired, missed, alerts, syncs, alive, beats, told, scan, notes,
          edits, expr, start, t, pc

vars == <<part, cmd, sess, capable, live, handler, pending, sendq, down, up, broken,
          expiring, conn, linked, receipts, running, runs, restarts, chan, queue,
          waiters, outcome, worker, cur, wake, stop, attempts, connected, sent,
          gone, counts, phase, ev, bucket, mt, health, synced, proc, lock, file,
          got, inst, event, row, channel, drain, posts, now, startedAt, seen,
          planeAt, fired, missed, alerts, syncs, alive, beats, told, scan, notes,
          edits, expr, start, t, pc>>

Channel == INSTANCE AgentCommands WITH
  Commands <- {"c1"}, MaxConnections <- 2, MaxRestarts <- 1, Deadlines <- TRUE
Telemetry == INSTANCE WsSender WITH
  Channels <- {"sync", "metrics"}, Limit <- 1, MaxPayloads <- 3, MaxFaults <- 1,
  MaxCloses <- 1
Loops == INSTANCE Reporter WITH
  Execs <- {"e1", "e2"}, BatchSize <- 2, MaxEvents <- 2, MaxBatches <- 1,
  Commands <- {}, MaxWindows <- 1, MaxFails <- 1
Flushes == INSTANCE Reporter WITH
  Execs <- {"e1"}, BatchSize <- 2, MaxEvents <- 2, MaxBatches <- 1,
  Commands <- {"flush_events", "flush_metrics", "heartbeat"}, MaxWindows <- 1,
  MaxFails <- 0
Restarts == INSTANCE AgentIdentity WITH
  Procs <- {"p1"}, Pids <- {1, 2}, Tasks <- {"t1"}, StateDir <- TRUE,
  MaxStarts <- 2, MaxCrashes <- 1, MaxSent <- 3
Sharing == INSTANCE AgentIdentity WITH
  Procs <- {"p1", "p2"}, Pids <- {1, 2}, Tasks <- {"t1"}, StateDir <- TRUE,
  MaxStarts <- 3, MaxCrashes <- 0, MaxSent <- 2
Racing == INSTANCE AgentIdentity WITH
  Procs <- {"p1", "p2"}, Pids <- {1, 2, 3}, Tasks <- {"t1"}, StateDir <- TRUE,
  MaxStarts <- 3, MaxCrashes <- 2, MaxSent <- 0
Outbox == INSTANCE NotificationOutbox WITH
  Events <- {"e1"}, Replicas <- {"r1", "r2"}, MaxAttempts <- 2, BatchSize <- 1,
  MaxCrashes <- 1, MaxBreaks <- 1, Edits <- TRUE
Elected == INSTANCE NotificationOutbox WITH
  Events <- {"e1", "e2"}, Replicas <- {"r1", "r2"}, MaxAttempts <- 1,
  BatchSize <- 1, MaxCrashes <- 1, MaxBreaks <- 0, Edits <- FALSE
Missed == INSTANCE MissedStart WITH
  Interval <- 4, Grace <- 2, SyncDelay <- 1, Lag <- 1, ToleranceCap <- 1,
  Lookback <- 2, Window <- 9, OfflineAfter <- 2, MaxNow <- 12, MaxSyncs <- 0,
  MaxRestarts <- 2
Resynced == INSTANCE MissedStart WITH
  Interval <- 4, Grace <- 2, SyncDelay <- 1, Lag <- 1, ToleranceCap <- 1,
  Lookback <- 2, Window <- 9, OfflineAfter <- 2, MaxNow <- 12, MaxSyncs <- 1,
  MaxRestarts <- 0
Seen == INSTANCE ConnectivityScan WITH OfflineAfter <- 2, MaxNow <- 6, MaxEdits <- 0
Edited == INSTANCE ConnectivityScan WITH OfflineAfter <- 2, MaxNow <- 4, MaxEdits <- 1
Calendar == INSTANCE CronMatch WITH
  Size <- <<3, 1, 2, 1, 3>>, MaxChunks <- 1, Starts <- {4}
Lists == INSTANCE CronMatch WITH
  Size <- <<4, 1, 1, 1, 1>>, MaxChunks <- 2, Starts <- {0}

(* What a component does not have is switched off. *)
Off == "off"
NotAgentCommands == <<part, chan, queue, waiters, outcome, worker, cur, wake, stop,
  attempts, connected, sent, gone, counts, phase, ev, bucket, mt, health, synced,
  proc, lock, file, got, inst, event, row, channel, drain, posts, now, startedAt,
  seen, planeAt, fired, missed, alerts, syncs, alive, beats, told, scan, notes,
  edits, expr, start, t, pc>>
NotWsSender == <<part, cmd, sess, capable, live, handler, pending, sendq, down, up,
  broken, expiring, conn, linked, receipts, running, runs, restarts, phase, ev,
  bucket, mt, health, synced, proc, lock, file, got, inst, event, row, channel,
  drain, posts, now, startedAt, seen, planeAt, fired, missed, alerts, syncs, alive,
  beats, told, scan, notes, edits, expr, start, t, pc>>
NotReporter == <<part, sess, capable, live, handler, pending, sendq, up, broken,
  expiring, conn, linked, receipts, running, runs, restarts, chan, queue, waiters,
  outcome, worker, cur, wake, stop, attempts, connected, sent, gone, proc, lock,
  file, got, inst, event, row, channel, drain, posts, now, startedAt, seen, planeAt,
  fired, missed, alerts, syncs, alive, beats, told, scan, notes, edits, expr, start,
  t, pc>>
NotAgentIdentity == <<part, cmd, sess, capable, live, handler, pending, sendq, down,
  up, broken, expiring, conn, linked, receipts, running, runs, restarts, chan,
  queue, waiters, outcome, worker, cur, wake, stop, attempts, connected, gone,
  phase, ev, bucket, mt, health, synced, event, row, channel, drain, posts, now,
  startedAt, seen, planeAt, fired, missed, alerts, syncs, alive, beats, told, scan,
  notes, edits, expr, start, t, pc>>
NotNotificationOutbox == <<part, cmd, sess, capable, live, handler, pending, sendq,
  down, up, broken, expiring, linked, receipts, running, runs, restarts, chan,
  queue, waiters, outcome, worker, cur, wake, stop, attempts, connected, sent, gone,
  phase, ev, bucket, mt, health, synced, proc, file, got, inst, now, startedAt,
  seen, planeAt, fired, missed, alerts, syncs, alive, beats, told, scan, notes,
  edits, expr, start, t, pc>>
NotMissedStart == <<part, cmd, sess, capable, live, handler, sendq, down, up,
  broken, expiring, conn, linked, receipts, runs, chan, queue, waiters, outcome,
  worker, cur, wake, stop, attempts, connected, sent, gone, counts, phase, ev,
  bucket, mt, health, proc, lock, file, got, inst, event, row, channel, drain,
  posts, alive, beats, told, scan, notes, edits, expr, start, t, pc>>
NotConnectivityScan == <<part, cmd, sess, capable, live, handler, pending, sendq,
  down, up, broken, expiring, conn, linked, receipts, running, runs, restarts, chan,
  queue, waiters, outcome, worker, cur, wake, stop, attempts, connected, sent, gone,
  counts, phase, ev, bucket, mt, health, synced, proc, lock, file, got, inst, event,
  row, drain, posts, startedAt, planeAt, fired, missed, alerts, syncs, expr, start,
  t, pc>>
NotCronMatch == <<part, cmd, sess, capable, live, handler, pending, sendq, down, up,
  broken, expiring, conn, linked, receipts, running, runs, restarts, chan, queue,
  waiters, outcome, worker, cur, wake, stop, attempts, connected, sent, gone,
  counts, phase, ev, bucket, mt, health, synced, proc, lock, file, got, inst, event,
  row, channel, drain, posts, now, startedAt, seen, planeAt, fired, missed, alerts,
  syncs, alive, beats, told, scan, notes, edits>>

Init ==
  \/ /\ part = "commands" /\ Channel!Init
     /\ chan = Off /\ queue = Off /\ waiters = Off /\ outcome = Off
     /\ worker = Off /\ cur = Off /\ wake = Off /\ stop = Off /\ attempts = Off
     /\ connected = Off /\ sent = Off /\ gone = Off /\ counts = Off
     /\ phase = Off /\ ev = Off /\ bucket = Off /\ mt = Off /\ health = Off
     /\ synced = Off /\ proc = Off /\ lock = Off /\ file = Off /\ got = Off
     /\ inst = Off /\ event = Off /\ row = Off /\ channel = Off /\ drain = Off
     /\ posts = Off /\ now = Off /\ startedAt = Off /\ seen = Off
     /\ planeAt = Off /\ fired = Off /\ missed = Off /\ alerts = Off
     /\ syncs = Off /\ alive = Off /\ beats = Off /\ told = Off /\ scan = Off
     /\ notes = Off /\ edits = Off /\ expr = Off /\ start = Off /\ t = Off
     /\ pc = Off
  \/ /\ part = "sender" /\ Telemetry!Init
     /\ cmd = Off /\ sess = Off /\ capable = Off /\ live = Off /\ handler = Off
     /\ pending = Off /\ sendq = Off /\ down = Off /\ up = Off /\ broken = Off
     /\ expiring = Off /\ conn = Off /\ linked = Off /\ receipts = Off
     /\ running = Off /\ runs = Off /\ restarts = Off /\ phase = Off /\ ev = Off
     /\ bucket = Off /\ mt = Off /\ health = Off /\ synced = Off /\ proc = Off
     /\ lock = Off /\ file = Off /\ got = Off /\ inst = Off /\ event = Off
     /\ row = Off /\ channel = Off /\ drain = Off /\ posts = Off /\ now = Off
     /\ startedAt = Off /\ seen = Off /\ planeAt = Off /\ fired = Off
     /\ missed = Off /\ alerts = Off /\ syncs = Off /\ alive = Off /\ beats = Off
     /\ told = Off /\ scan = Off /\ notes = Off /\ edits = Off /\ expr = Off
     /\ start = Off /\ t = Off /\ pc = Off
  \/ /\ \/ part = "loops" /\ Loops!Init
        \/ part = "flushes" /\ Flushes!Init
     /\ sess = Off /\ capable = Off /\ live = Off /\ handler = Off
     /\ pending = Off /\ sendq = Off /\ up = Off /\ broken = Off
     /\ expiring = Off /\ conn = Off /\ linked = Off /\ receipts = Off
     /\ running = Off /\ runs = Off /\ restarts = Off /\ chan = Off
     /\ queue = Off /\ waiters = Off /\ outcome = Off /\ worker = Off
     /\ cur = Off /\ wake = Off /\ stop = Off /\ attempts = Off
     /\ connected = Off /\ sent = Off /\ gone = Off /\ proc = Off /\ lock = Off
     /\ file = Off /\ got = Off /\ inst = Off /\ event = Off /\ row = Off
     /\ channel = Off /\ drain = Off /\ posts = Off /\ now = Off
     /\ startedAt = Off /\ seen = Off /\ planeAt = Off /\ fired = Off
     /\ missed = Off /\ alerts = Off /\ syncs = Off /\ alive = Off /\ beats = Off
     /\ told = Off /\ scan = Off /\ notes = Off /\ edits = Off /\ expr = Off
     /\ start = Off /\ t = Off /\ pc = Off
  \/ /\ \/ part = "restarts" /\ Restarts!Init
        \/ part = "sharing" /\ Sharing!Init
        \/ part = "race" /\ Racing!Init
     /\ cmd = Off /\ sess = Off /\ capable = Off /\ live = Off /\ handler = Off
     /\ pending = Off /\ sendq = Off /\ down = Off /\ up = Off /\ broken = Off
     /\ expiring = Off /\ conn = Off /\ linked = Off /\ receipts = Off
     /\ running = Off /\ runs = Off /\ restarts = Off /\ chan = Off
     /\ queue = Off /\ waiters = Off /\ outcome = Off /\ worker = Off
     /\ cur = Off /\ wake = Off /\ stop = Off /\ attempts = Off
     /\ connected = Off /\ gone = Off /\ phase = Off /\ ev = Off /\ bucket = Off
     /\ mt = Off /\ health = Off /\ synced = Off /\ event = Off /\ row = Off
     /\ channel = Off /\ drain = Off /\ posts = Off /\ now = Off
     /\ startedAt = Off /\ seen = Off /\ planeAt = Off /\ fired = Off
     /\ missed = Off /\ alerts = Off /\ syncs = Off /\ alive = Off /\ beats = Off
     /\ told = Off /\ scan = Off /\ notes = Off /\ edits = Off /\ expr = Off
     /\ start = Off /\ t = Off /\ pc = Off
  \/ /\ \/ part = "outbox" /\ Outbox!Init
        \/ part = "leader" /\ Elected!Init
     /\ cmd = Off /\ sess = Off /\ capable = Off /\ live = Off /\ handler = Off
     /\ pending = Off /\ sendq = Off /\ down = Off /\ up = Off /\ broken = Off
     /\ expiring = Off /\ linked = Off /\ receipts = Off /\ running = Off
     /\ runs = Off /\ restarts = Off /\ chan = Off /\ queue = Off
     /\ waiters = Off /\ outcome = Off /\ worker = Off /\ cur = Off /\ wake = Off
     /\ stop = Off /\ attempts = Off /\ connected = Off /\ sent = Off
     /\ gone = Off /\ phase = Off /\ ev = Off /\ bucket = Off /\ mt = Off
     /\ health = Off /\ synced = Off /\ proc = Off /\ file = Off /\ got = Off
     /\ inst = Off /\ now = Off /\ startedAt = Off /\ seen = Off /\ planeAt = Off
     /\ fired = Off /\ missed = Off /\ alerts = Off /\ syncs = Off /\ alive = Off
     /\ beats = Off /\ told = Off /\ scan = Off /\ notes = Off /\ edits = Off
     /\ expr = Off /\ start = Off /\ t = Off /\ pc = Off
  \/ /\ \/ part = "missed" /\ Missed!Init
        \/ part = "resynced" /\ Resynced!Init
     /\ cmd = Off /\ sess = Off /\ capable = Off /\ live = Off /\ handler = Off
     /\ sendq = Off /\ down = Off /\ up = Off /\ broken = Off /\ expiring = Off
     /\ conn = Off /\ linked = Off /\ receipts = Off /\ runs = Off /\ chan = Off
     /\ queue = Off /\ waiters = Off /\ outcome = Off /\ worker = Off
     /\ cur = Off /\ wake = Off /\ stop = Off /\ attempts = Off
     /\ connected = Off /\ sent = Off /\ gone = Off /\ counts = Off
     /\ phase = Off /\ ev = Off /\ bucket = Off /\ mt = Off /\ health = Off
     /\ proc = Off /\ lock = Off /\ file = Off /\ got = Off /\ inst = Off
     /\ event = Off /\ row = Off /\ channel = Off /\ drain = Off /\ posts = Off
     /\ alive = Off /\ beats = Off /\ told = Off /\ scan = Off /\ notes = Off
     /\ edits = Off /\ expr = Off /\ start = Off /\ t = Off /\ pc = Off
  \/ /\ \/ part = "seen" /\ Seen!Init
        \/ part = "edited" /\ Edited!Init
     /\ cmd = Off /\ sess = Off /\ capable = Off /\ live = Off /\ handler = Off
     /\ pending = Off /\ sendq = Off /\ down = Off /\ up = Off /\ broken = Off
     /\ expiring = Off /\ conn = Off /\ linked = Off /\ receipts = Off
     /\ running = Off /\ runs = Off /\ restarts = Off /\ chan = Off
     /\ queue = Off /\ waiters = Off /\ outcome = Off /\ worker = Off
     /\ cur = Off /\ wake = Off /\ stop = Off /\ attempts = Off
     /\ connected = Off /\ sent = Off /\ gone = Off /\ counts = Off
     /\ phase = Off /\ ev = Off /\ bucket = Off /\ mt = Off /\ health = Off
     /\ synced = Off /\ proc = Off /\ lock = Off /\ file = Off /\ got = Off
     /\ inst = Off /\ event = Off /\ row = Off /\ drain = Off /\ posts = Off
     /\ startedAt = Off /\ planeAt = Off /\ fired = Off /\ missed = Off
     /\ alerts = Off /\ syncs = Off /\ expr = Off /\ start = Off /\ t = Off
     /\ pc = Off
  \/ /\ \/ part = "calendar" /\ Calendar!Init
        \/ part = "lists" /\ Lists!Init
     /\ cmd = Off /\ sess = Off /\ capable = Off /\ live = Off /\ handler = Off
     /\ pending = Off /\ sendq = Off /\ down = Off /\ up = Off /\ broken = Off
     /\ expiring = Off /\ conn = Off /\ linked = Off /\ receipts = Off
     /\ running = Off /\ runs = Off /\ restarts = Off /\ chan = Off
     /\ queue = Off /\ waiters = Off /\ outcome = Off /\ worker = Off
     /\ cur = Off /\ wake = Off /\ stop = Off /\ attempts = Off
     /\ connected = Off /\ sent = Off /\ gone = Off /\ counts = Off
     /\ phase = Off /\ ev = Off /\ bucket = Off /\ mt = Off /\ health = Off
     /\ synced = Off /\ proc = Off /\ lock = Off /\ file = Off /\ got = Off
     /\ inst = Off /\ event = Off /\ row = Off /\ channel = Off /\ drain = Off
     /\ posts = Off /\ now = Off /\ startedAt = Off /\ seen = Off
     /\ planeAt = Off /\ fired = Off /\ missed = Off /\ alerts = Off
     /\ syncs = Off /\ alive = Off /\ beats = Off /\ told = Off /\ scan = Off
     /\ notes = Off /\ edits = Off

Next ==
  \/ part = "commands" /\ Channel!Next /\ UNCHANGED NotAgentCommands
  \/ part = "sender" /\ Telemetry!Next /\ UNCHANGED NotWsSender
  \/ /\ \/ part = "loops" /\ Loops!Next
        \/ part = "flushes" /\ Flushes!Next
     /\ UNCHANGED NotReporter
  \/ /\ \/ part = "restarts" /\ Restarts!Next
        \/ part = "sharing" /\ Sharing!Next
        \/ part = "race" /\ Racing!Next
     /\ UNCHANGED NotAgentIdentity
  \/ /\ \/ part = "outbox" /\ Outbox!Next
        \/ part = "leader" /\ Elected!Next
     /\ UNCHANGED NotNotificationOutbox
  \/ /\ \/ part = "missed" /\ Missed!Next
        \/ part = "resynced" /\ Resynced!Next
     /\ UNCHANGED NotMissedStart
  \/ /\ \/ part = "seen" /\ Seen!Next
        \/ part = "edited" /\ Edited!Next
     /\ UNCHANGED NotConnectivityScan
  \/ /\ \/ part = "calendar" /\ Calendar!Next
        \/ part = "lists" /\ Lists!Next
     /\ UNCHANGED NotCronMatch

channels == Channel!vars
telemetry == Telemetry!vars
reports == Loops!vars
deliveries == Outbox!vars
sights == Seen!vars
search == Calendar!vars

(* The event loops of both sides run, the agent reconnects and commands end; a due *)
(* delivery is claimed by one replica or the other, although each may lose its turn *)
(* again and again (SF); time passes and the scans are made.  An instance that *)
(* stops, a reader who lists commands and an operator's edit are nobody's duty. *)
Fairness ==
  /\ \A s \in Channel!Sessions : WF_channels(part = "commands" /\ Channel!Loop(s))
  /\ WF_channels(part = "commands" /\ Channel!AgentStep)
  /\ WF_channels(part = "commands" /\ Channel!Finish("c1"))
  /\ WF_telemetry(/\ part = "sender"
                  /\ \/ Telemetry!Pick \/ Telemetry!Sleep \/ Telemetry!Wake \/ Telemetry!Connect
                     \/ Telemetry!SendOk \/ Telemetry!SendFails \/ Telemetry!WorkerStops)
  /\ WF_reports(part = "loops" /\ Loops!FlushEvents)
  /\ WF_reports(part = "loops" /\ Loops!HeartbeatLoop)
  /\ WF_deliveries(part = "outbox" /\ Outbox!Dispatch("e1"))
  /\ WF_deliveries(part = "outbox" /\ Outbox!Elapse("e1"))
  /\ SF_deliveries(part = "outbox" /\ \E r \in {"r1", "r2"} : Outbox!Claim(r, "e1"))
  /\ \A r \in {"r1", "r2"} : WF_deliveries(part = "outbox" /\ Outbox!Work(r))
  /\ WF_sights(part = "seen" /\ Seen!Read)
  /\ WF_sights(part = "seen" /\ Seen!Commit)
  /\ WF_sights(part = "seen" /\ Seen!Tick)
  /\ WF_search(part = "calendar" /\ Calendar!Next)

Spec == Init /\ [][Next]_vars /\ Fairness
--------------------------------------------------------------------------------
(* The agent and the channel to it tell the truth: a process runs a command once and *)
(* the outcome shown is one an execution reported, on one active session, and a row *)
(* that was opened again is past its deadline; telemetry *)
(* said to be sent was sent, in order; events, starts and failures are all reported; *)
(* sequences grow across restarts, the newest report is shown and one process owns *)
(* the state directory. *)
ReportsAreTrue ==
  /\ part = "commands" => /\ Channel!TypeOK /\ Channel!RunOncePerProcess
                          /\ Channel!OutcomesAreReal /\ Channel!OneActiveSession
                          /\ Channel!ReopenedIsLate
  /\ part = "sender" => /\ Telemetry!TypeOK /\ Telemetry!Honest /\ Telemetry!NothingSkipped
                        /\ Telemetry!InOrder /\ Telemetry!WaitersAttached
  /\ part = "loops" => /\ Loops!TypeOK /\ Loops!EventsKept /\ Loops!MetricsKept
                       /\ Loops!GaugeExact /\ Loops!FailureKept
  /\ part = "flushes" => Flushes!TypeOK /\ Flushes!GaugeExact
  /\ part = "restarts" => /\ Restarts!TypeOK /\ Restarts!SequencesIncrease
                          /\ Restarts!ShownIsNewest /\ Restarts!ControlsAreCurrent
  /\ part = "sharing" => Sharing!OneOwner
  /\ part = "race" => Racing!TypeOK

(* What the control plane tells its users is true: a delivery shown as made was made *)
(* and one replica drains; a missed start is one, told once; an instance reported *)
(* offline was silent, and the events come in turn and in order; the next run of a *)
(* schedule is the first one, and no run is expected that the source does not fire. *)
NoticesAreTrue ==
  /\ part = "outbox" => Outbox!TypeOK /\ Outbox!StatusIsTrue
  /\ part = "leader" => Elected!OneDrainer
  /\ part = "missed" => Missed!TypeOK /\ Missed!NoFalseAlarm /\ Missed!OneAlertPerRun
  /\ part = "seen" => /\ Seen!TypeOK /\ Seen!Alternate
                      /\ Seen!OfflineIsTrue /\ Seen!TimesInOrder
  /\ part = "edited" => /\ Edited!OfflineIsTrue /\ Edited!TimesInOrder /\ Edited!GraceKept
  /\ part = "calendar" => Calendar!TypeOK /\ Calendar!FirstLater /\ Calendar!NoFalseSlot
  /\ part = "lists" => Lists!ListsAdd /\ Lists!NoFalseSlot

(* The outcome of a command is written over only by a commit that had selected the *)
(* row before it had one; a row of the outbox outlives its channel; no alert is *)
(* queued for an instance known to be down. *)
NothingTakenBack ==
  [][/\ part = "commands" => Channel!OutcomeStays
     /\ part = "outbox" => Outbox!Accepted
     /\ part = "missed" => Missed!QuietWhenOffline
     /\ part = "resynced" => Resynced!QuietWhenOffline]_vars

(* Nobody is kept waiting: commands are acknowledged or over, telemetry is answered *)
(* for, the buffers are empty and the topology is known, no delivery is pending, an *)
(* instance long gone is not shown online, and a search has found its minute. *)
NobodyWaits ==
  /\ part = "commands" => \/ cmd["c1"].status \notin Channel!Redispatchable
                          \/ cmd["c1"].late
  /\ part = "sender" => \A w \in Telemetry!Payloads : outcome[w] # "waiting"
  /\ part = "loops" => (ev.pending = <<>> /\ synced) \/ down
  /\ part = "outbox" => row["e1"].status # "pending"
  /\ part = "seen" => ~(told.last = "online" /\ ~alive /\ now > seen + 2)
  /\ part = "calendar" =>
       ((\E m \in start + 1 .. start + 36 : Calendar!Matches(expr, m)) => pc = "found")

(* What is asked for is answered in the end, across broken connections, crashes, *)
(* lost leases and restarts. *)
EverythingAnswered == []<>NobodyWaits
==============================================================================
