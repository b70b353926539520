------------------------------ MODULE MCConnectors ------------------------------
(*****************************************************************************)
(* The other connectors, one at a time: the bulk sinks, the MongoDB sources, *)
(* the indexed Feishu sink, the webhook source, the schedules, and the       *)
(* retries of every connector around one failing call.                       *)
(*****************************************************************************)
EXTENDS Integers, Sequences, FiniteSets, FiniteSetTheorems, SequenceTheorems,
        WellFoundedInduction, TLAPS

VARIABLES part,  \* the component a behaviour is about; it never changes
          backend, op, phase, failures, applied, last, error, delay, writes, kind,
          attempt, first, pending, tries, partial, committed, head, store, scan,
          stream, log, popped, generation, invalidated, fetching, asked, alive, settled,
          origin, raced, faults, table, loaded, keys, uncertain, pend, order, pc, fut,
          read, lane, late, retries, cancels, crashes, life, server, lock, routes,
          req, status, queue, hand, putting, done, now, nextFire, immediate,
          inflight, queued, out, leaked, started, dropped, lastSlot, pauses

vars == <<part, backend, op, phase, failures, applied, last, error, delay, writes,
          kind, attempt, first, pending, tries, partial, committed, head, store,
          scan, stream, log, popped, generation, invalidated, fetching, asked, alive,
          settled, origin, raced, faults, table, loaded, keys, uncertain, pend, order, pc,
          fut, read, lane, late, retries, cancels, crashes, life, server, lock,
          routes, req, status, queue, hand, putting, done, now, nextFire, immediate,
          inflight, queued, out, leaked, started, dropped, lastSlot, pauses>>

Outage == INSTANCE Resilience WITH
  Backends <- {"kafka", "rabbitmq", "redis", "sqs", "cf_queues", "clickhouse", "elasticsearch", "mongodb", "mysql", "postgres", "sqlite"},
  MaxOutage <- 3, SendAttempts <- 2, MaxMessage <- 4, ExplicitDelay <- {}

(* The classification of errors, which the bulk sinks share with the other connectors. *)
Kinds == Outage!Kinds
Retryable(k) == Outage!Retryable(k)
classify_elasticsearch_status(code) == Outage!classify_elasticsearch_status(code)
classify_elasticsearch_exception(e) == Outage!classify_elasticsearch_exception(e)
classify_clickhouse_error(e) == Outage!classify_clickhouse_error(e)
classify_mongodb_error(e, operation) == Outage!classify_mongodb_error(e, operation)

Elastic == INSTANCE BulkSink WITH
  Backend <- "elasticsearch", Operation <- "index", HasIds <- FALSE,
  Ordered <- FALSE, Sizes <- <<1, 1, 1>>, ChunkSize <- 2, MaxBytes <- 9,
  MaxRetries <- 2, SendAttempts <- 2,
  Faults <- {"items", "status", "malformed", "late", "lost", "payload"}
ElasticIds == INSTANCE BulkSink WITH
  Backend <- "elasticsearch", Operation <- "index", HasIds <- TRUE,
  Ordered <- FALSE, Sizes <- <<1, 2, 1>>, ChunkSize <- 3, MaxBytes <- 3,
  MaxRetries <- 1, SendAttempts <- 2,
  Faults <- {"items", "status", "malformed", "connect", "late", "lost"}
ClickHouse == INSTANCE BulkSink WITH
  Backend <- "clickhouse", Operation <- "insert", HasIds <- FALSE, Ordered <- FALSE,
  Sizes <- <<1, 1, 1, 1, 1, 1, 1>>, ChunkSize <- 6, MaxBytes <- 9, MaxRetries <- 0,
  SendAttempts <- 2, Faults <- {"items", "late", "payload"}
MongoSink == INSTANCE BulkSink WITH
  Backend <- "mongodb", Operation <- "insert", HasIds <- FALSE, Ordered <- TRUE,
  Sizes <- <<1, 1, 1, 1, 1, 1, 1>>, ChunkSize <- 6, MaxBytes <- 9, MaxRetries <- 0,
  SendAttempts <- 2, Faults <- {"items", "connect", "late", "lost"}
Oversize == INSTANCE BulkSink WITH
  Backend <- "elasticsearch", Operation <- "index", HasIds <- TRUE,
  Ordered <- FALSE, Sizes <- <<1, 1, 9>>, ChunkSize <- 1, MaxBytes <- 5,
  MaxRetries <- 1, SendAttempts <- 2, Faults <- {"items", "status"}
Index == INSTANCE FeishuIndexedSink WITH
  Keys <- {"k1", "k2", "k3"}, Copies <- 1, BatchSize <- 2, MaxRounds <- 1,
  Capacity <- 2, Responses <- {"rejected", "lost"}, EarlyClose <- FALSE,
  MaxFaults <- 2, MaxRetries <- 1, MaxCancels <- 0, MaxCrashes <- 1
Shared == INSTANCE FeishuIndexedSink WITH
  Keys <- {"k1", "k2"}, Copies <- 2, BatchSize <- 2, MaxRounds <- 1, Capacity <- 1,
  Responses <- {"rejected", "lost"}, EarlyClose <- FALSE, MaxFaults <- 1,
  MaxRetries <- 1, MaxCancels <- 0, MaxCrashes <- 0
Late == INSTANCE FeishuIndexedSink WITH
  Keys <- {"k1"}, Copies <- 2, BatchSize <- 2, MaxRounds <- 1, Capacity <- 2,
  Responses <- {"rejected", "lost"}, EarlyClose <- TRUE, MaxFaults <- 1,
  MaxRetries <- 1, MaxCancels <- 1, MaxCrashes <- 0
Drain == INSTANCE FeishuIndexedSink WITH
  Keys <- {"k1", "k2", "k3"}, Copies <- 1, BatchSize <- 1, MaxRounds <- 1,
  Capacity <- 3, Responses <- {"rejected", "lost"}, EarlyClose <- TRUE,
  MaxFaults <- 2, MaxRetries <- 0, MaxCancels <- 0, MaxCrashes <- 0
Searching == INSTANCE FeishuIndexedSink WITH
  Keys <- {"k1", "k2"}, Copies <- 1, BatchSize <- 1, MaxRounds <- 1, Capacity <- 2,
  Responses <- {"rejected", "lost"}, EarlyClose <- FALSE, MaxFaults <- 3,
  MaxRetries <- 2, MaxCancels <- 0, MaxCrashes <- 0
Sends == INSTANCE FeishuIndexedSink WITH
  Keys <- {"k1", "k2"}, Copies <- 2, BatchSize <- 1, MaxRounds <- 1, Capacity <- 2,
  Responses <- {"rejected", "lost"}, EarlyClose <- FALSE, MaxFaults <- 1,
  MaxRetries <- 1, MaxCancels <- 0, MaxCrashes <- 0

(* The sources, each for any configuration c that gives its constants. *)
Mongo(c) == INSTANCE MongoSource WITH
  Stream <- c.Stream, N <- c.N, Saved <- c.Saved, BatchSize <- c.BatchSize,
  Concurrency <- c.Concurrency, MaxRetries <- c.MaxRetries, MaxSaveFaults <- c.MaxSaveFaults,
  MaxFetchFaults <- c.MaxFetchFaults, MaxCrashes <- c.MaxCrashes
Hooks(c) == INSTANCE WebhookSource WITH
  Sources <- c.Sources, Twins <- c.Twins, Requests <- c.Requests,
  QueueMax <- c.QueueMax, Concurrency <- c.Concurrency, BatchSize <- c.BatchSize,
  MayClose <- c.MayClose, MaxRetries <- c.MaxRetries, MaxFaults <- c.MaxFaults,
  MaxPauses <- c.MaxPauses
Schedule(c) == INSTANCE ScheduleSource WITH
  Kind <- c.Kind, Interval <- c.Interval, CronSlots <- c.CronSlots,
  Immediate <- c.Immediate, Overlap <- c.Overlap, MaxQueued <- c.MaxQueued,
  Concurrency <- c.Concurrency, MaxNow <- c.MaxNow, MaxAttempts <- c.MaxAttempts,
  MaxPauses <- c.MaxPauses, MaxDue <- c.MaxDue, MaxLeaks <- c.MaxLeaks

(* The configurations of the sources that are checked. *)
Poll ==
  [Stream |-> FALSE, N |-> 4, Saved |-> 0, BatchSize |-> 2, Concurrency |-> 3,
   MaxRetries |-> 1, MaxSaveFaults |-> 1, MaxFetchFaults |-> 1, MaxCrashes |-> 1]
Changes ==
  [Stream |-> TRUE, N |-> 4, Saved |-> 1, BatchSize |-> 2, Concurrency |-> 3,
   MaxRetries |-> 1, MaxSaveFaults |-> 1, MaxFetchFaults |-> 1, MaxCrashes |-> 1]
Polled ==
  [Stream |-> FALSE, N |-> 3, Saved |-> 0, BatchSize |-> 2, Concurrency |-> 2,
   MaxRetries |-> 1, MaxSaveFaults |-> 1, MaxFetchFaults |-> 1, MaxCrashes |-> 1]
Webhook ==
  [Sources |-> {"a", "b", "c"}, Twins |-> {"b", "c"}, Requests |-> {"r1", "r2"},
   QueueMax |-> 1, Concurrency |-> 1, BatchSize |-> 1, MayClose |-> TRUE,
   MaxRetries |-> 1, MaxFaults |-> 1, MaxPauses |-> 1]
Events ==
  [Sources |-> {"a"}, Twins |-> {}, Requests |-> {"r1", "r2", "r3"},
   QueueMax |-> 2, Concurrency |-> 2, BatchSize |-> 2, MayClose |-> FALSE,
   MaxRetries |-> 1, MaxFaults |-> 1, MaxPauses |-> 1]
Cron ==
  [Kind |-> "cron", Interval |-> 1, CronSlots |-> {1, 2, 4, 5},
   Immediate |-> FALSE, Overlap |-> "queue", MaxQueued |-> 2, Concurrency |-> 2,
   MaxNow |-> 6, MaxAttempts |-> 1, MaxPauses |-> 0, MaxDue |-> 3, MaxLeaks |-> 1]
Every ==
  [Kind |-> "interval", Interval |-> 2, CronSlots |-> {1, 2, 4, 5},
   Immediate |-> TRUE, Overlap |-> "skip", MaxQueued |-> 1, Concurrency |-> 2,
   MaxNow |-> 5, MaxAttempts |-> 1, MaxPauses |-> 2, MaxDue |-> 2, MaxLeaks |-> 1]
Paused ==
  [Kind |-> "cron", Interval |-> 1, CronSlots |-> {1, 2, 4, 5}, Immediate |-> TRUE,
   Overlap |-> "queue", MaxQueued |-> 2, Concurrency |-> 1, MaxNow |-> 5,
   MaxAttempts |-> 1, MaxPauses |-> 2, MaxDue |-> 2, MaxLeaks |-> 1]
Beside ==
  [Kind |-> "interval", Interval |-> 1, CronSlots |-> {1, 2, 4, 5},
   Immediate |-> FALSE, Overlap |-> "allow", MaxQueued |-> 1, Concurrency |-> 2,
   MaxNow |-> 4, MaxAttempts |-> 1, MaxPauses |-> 0, MaxDue |-> 2, MaxLeaks |-> 1]

(* What a component does not have is switched off. *)
Off == "off"
NotResilience == <<part, writes, kind, attempt, first, pending, tries, partial,
  committed, head, store, scan, stream, log, popped, generation, invalidated,
  fetching, asked, alive, settled, origin, raced, faults, table, loaded, keys, uncertain, pend,
  order, pc, fut, read, lane, late, retries, cancels, crashes, life, server, lock,
  routes, req, status, queue, hand, putting, done, now, nextFire, immediate,
  inflight, queued, out, leaked, started, dropped, lastSlot, pauses>>
NotBulkSink == <<part, backend, op, failures, applied, last, error, delay, head,
  store, scan, stream, log, popped, generation, invalidated, fetching, asked, alive,
  settled, origin, raced, faults, table, loaded, keys, uncertain, pend, order, pc, fut,
  read, lane, late, retries, cancels, crashes, life, server, lock, routes, req,
  status, queue, hand, putting, done, now, nextFire, immediate, inflight, queued,
  out, leaked, started, dropped, lastSlot, pauses>>
NotMongoSource == <<part, backend, op, phase, failures, applied, last, error, delay,
  writes, kind, attempt, first, pending, tries, partial, table, loaded, keys,
  uncertain, pend, order, pc, fut, read, lane, late, retries, cancels, crashes,
  life, server, lock, routes, req, status, queue, hand, putting, done, now,
  nextFire, immediate, inflight, queued, out, leaked, started, dropped, lastSlot, pauses>>
NotFeishuIndexedSink == <<part, backend, op, phase, failures, applied, last, error,
  delay, writes, kind, attempt, first, pending, tries, partial, committed, head,
  store, scan, stream, log, popped, generation, invalidated, fetching, asked, alive,
  settled, origin, raced, life, server, lock, routes, req, status, queue, hand, putting,
  done, now, nextFire, immediate, inflight, queued, out, leaked, started, dropped, lastSlot,
  pauses>>
NotWebhookSource == <<part, backend, op, phase, failures, applied, last, error,
  delay, writes, kind, attempt, first, pending, tries, partial, committed, head,
  store, scan, stream, log, popped, generation, invalidated, fetching, asked, alive,
  settled, origin, raced, table, loaded, keys, uncertain, pend, order, pc, fut, read, lane,
  late, cancels, crashes, now, nextFire, immediate, inflight, queued, out, leaked, started,
  lastSlot>>
NotScheduleSource == <<part, backend, op, phase, failures, applied, last, error,
  delay, writes, kind, attempt, first, pending, tries, partial, committed, head,
  store, scan, stream, log, popped, generation, invalidated, fetching, asked, alive,
  settled, origin, raced, faults, table, loaded, keys, uncertain, pend, order, pc, fut,
  read, lane, late, cancels, crashes, life, server, lock, routes, req, status,
  queue, hand, putting, done>>

Init ==
  \/ /\ part = "outage" /\ Outage!Init
     /\ writes = Off /\ kind = Off /\ attempt = Off /\ first = Off
     /\ pending = Off /\ tries = Off /\ partial = Off /\ committed = Off
     /\ head = Off /\ store = Off /\ scan = Off /\ stream = Off /\ log = Off
     /\ popped = Off /\ generation = Off /\ invalidated = Off /\ fetching = Off
     /\ asked = Off /\ raced = Off /\ alive = Off /\ settled = Off /\ origin = Off /\ faults = Off
     /\ table = Off /\ loaded = Off /\ keys = Off /\ uncertain = Off
     /\ pend = Off /\ order = Off /\ pc = Off /\ fut = Off /\ read = Off
     /\ lane = Off /\ late = Off /\ retries = Off /\ cancels = Off
     /\ crashes = Off /\ life = Off /\ server = Off /\ lock = Off /\ routes = Off
     /\ req = Off /\ status = Off /\ queue = Off /\ hand = Off /\ putting = Off
     /\ done = Off /\ now = Off /\ nextFire = Off /\ immediate = Off
     /\ inflight = Off /\ queued = Off /\ out = Off /\ leaked = Off /\ started = Off
     /\ dropped = Off /\ lastSlot = Off /\ pauses = Off
  \/ /\ \/ part = "elastic" /\ Elastic!Init
        \/ part = "elasticids" /\ ElasticIds!Init
        \/ part = "clickhouse" /\ ClickHouse!Init
        \/ part = "mongosink" /\ MongoSink!Init
        \/ part = "oversize" /\ Oversize!Init
     /\ backend = Off /\ op = Off /\ failures = Off /\ applied = Off
     /\ last = Off /\ error = Off /\ delay = Off /\ head = Off /\ store = Off
     /\ scan = Off /\ stream = Off /\ log = Off /\ popped = Off
     /\ generation = Off /\ invalidated = Off /\ fetching = Off /\ asked = Off /\ raced = Off /\ alive = Off
     /\ settled = Off /\ origin = Off /\ faults = Off /\ table = Off
     /\ loaded = Off /\ keys = Off /\ uncertain = Off /\ pend = Off
     /\ order = Off /\ pc = Off /\ fut = Off /\ read = Off /\ lane = Off
     /\ late = Off /\ retries = Off /\ cancels = Off /\ crashes = Off
     /\ life = Off /\ server = Off /\ lock = Off /\ routes = Off /\ req = Off
     /\ status = Off /\ queue = Off /\ hand = Off /\ putting = Off /\ done = Off
     /\ now = Off /\ nextFire = Off /\ immediate = Off /\ inflight = Off
     /\ queued = Off /\ out = Off /\ leaked = Off /\ started = Off /\ dropped = Off
     /\ lastSlot = Off /\ pauses = Off
  \/ /\ \/ part = "poll" /\ Mongo(Poll)!Init
        \/ part = "stream" /\ Mongo(Changes)!Init
        \/ part = "polled" /\ Mongo(Polled)!Init
     /\ backend = Off /\ op = Off /\ phase = Off /\ failures = Off
     /\ applied = Off /\ last = Off /\ error = Off /\ delay = Off /\ writes = Off
     /\ kind = Off /\ attempt = Off /\ first = Off /\ pending = Off
     /\ tries = Off /\ partial = Off /\ table = Off /\ loaded = Off /\ keys = Off
     /\ uncertain = Off /\ pend = Off /\ order = Off /\ pc = Off /\ fut = Off
     /\ read = Off /\ lane = Off /\ late = Off /\ retries = Off /\ cancels = Off
     /\ crashes = Off /\ life = Off /\ server = Off /\ lock = Off /\ routes = Off
     /\ req = Off /\ status = Off /\ queue = Off /\ hand = Off /\ putting = Off
     /\ done = Off /\ now = Off /\ nextFire = Off /\ immediate = Off
     /\ inflight = Off /\ queued = Off /\ out = Off /\ leaked = Off /\ started = Off
     /\ dropped = Off /\ lastSlot = Off /\ pauses = Off
  \/ /\ \/ part = "index" /\ Index!Init
        \/ part = "shared" /\ Shared!Init
        \/ part = "late" /\ Late!Init
        \/ part = "drain" /\ Drain!Init
        \/ part = "search" /\ Searching!Init
        \/ part = "sends" /\ Sends!Init
     /\ backend = Off /\ op = Off /\ phase = Off /\ failures = Off
     /\ applied = Off /\ last = Off /\ error = Off /\ delay = Off /\ writes = Off
     /\ kind = Off /\ attempt = Off /\ first = Off /\ pending = Off
     /\ tries = Off /\ partial = Off /\ committed = Off /\ head = Off
     /\ store = Off /\ scan = Off /\ stream = Off /\ log = Off /\ popped = Off
     /\ generation = Off /\ invalidated = Off /\ fetching = Off /\ asked = Off /\ raced = Off /\ alive = Off
     /\ settled = Off /\ origin = Off /\ life = Off /\ server = Off /\ lock = Off
     /\ routes = Off /\ req = Off /\ status = Off /\ queue = Off /\ hand = Off
     /\ putting = Off /\ done = Off /\ now = Off /\ nextFire = Off
     /\ immediate = Off /\ inflight = Off /\ queued = Off /\ out = Off
     /\ leaked = Off /\ started = Off /\ dropped = Off /\ lastSlot = Off /\ pauses = Off
  \/ /\ \/ part = "webhook" /\ Hooks(Webhook)!Init
        \/ part = "events" /\ Hooks(Events)!Init
     /\ backend = Off /\ op = Off /\ phase = Off /\ failures = Off
     /\ applied = Off /\ last = Off /\ error = Off /\ delay = Off /\ writes = Off
     /\ kind = Off /\ attempt = Off /\ first = Off /\ pending = Off
     /\ tries = Off /\ partial = Off /\ committed = Off /\ head = Off
     /\ store = Off /\ scan = Off /\ stream = Off /\ log = Off /\ popped = Off
     /\ generation = Off /\ invalidated = Off /\ fetching = Off /\ asked = Off /\ raced = Off /\ alive = Off
     /\ settled = Off /\ origin = Off /\ table = Off /\ loaded = Off
     /\ keys = Off /\ uncertain = Off /\ pend = Off /\ order = Off /\ pc = Off
     /\ fut = Off /\ read = Off /\ lane = Off /\ late = Off /\ cancels = Off
     /\ crashes = Off /\ now = Off /\ nextFire = Off /\ immediate = Off
     /\ inflight = Off /\ queued = Off /\ out = Off /\ leaked = Off /\ started = Off
     /\ lastSlot = Off
  \/ /\ \/ part = "cron" /\ Schedule(Cron)!Init
        \/ part = "every" /\ Schedule(Every)!Init
        \/ part = "paused" /\ Schedule(Paused)!Init
        \/ part = "beside" /\ Schedule(Beside)!Init
     /\ backend = Off /\ op = Off /\ phase = Off /\ failures = Off
     /\ applied = Off /\ last = Off /\ error = Off /\ delay = Off /\ writes = Off
     /\ kind = Off /\ attempt = Off /\ first = Off /\ pending = Off
     /\ tries = Off /\ partial = Off /\ committed = Off /\ head = Off
     /\ store = Off /\ scan = Off /\ stream = Off /\ log = Off /\ popped = Off
     /\ generation = Off /\ invalidated = Off /\ fetching = Off /\ asked = Off /\ raced = Off /\ alive = Off
     /\ settled = Off /\ origin = Off /\ faults = Off /\ table = Off
     /\ loaded = Off /\ keys = Off /\ uncertain = Off /\ pend = Off
     /\ order = Off /\ pc = Off /\ fut = Off /\ read = Off /\ lane = Off
     /\ late = Off /\ cancels = Off /\ crashes = Off /\ life = Off
     /\ server = Off /\ lock = Off /\ routes = Off /\ req = Off /\ status = Off
     /\ queue = Off /\ hand = Off /\ putting = Off /\ done = Off

Next ==
  \/ part = "outage" /\ Outage!Next /\ UNCHANGED NotResilience
  \/ /\ \/ part = "elastic" /\ Elastic!Next
        \/ part = "elasticids" /\ ElasticIds!Next
        \/ part = "clickhouse" /\ ClickHouse!Next
        \/ part = "mongosink" /\ MongoSink!Next
        \/ part = "oversize" /\ Oversize!Next
     /\ UNCHANGED NotBulkSink
  \/ /\ \/ part = "poll" /\ Mongo(Poll)!Next
        \/ part = "stream" /\ Mongo(Changes)!Next
        \/ part = "polled" /\ Mongo(Polled)!Next
     /\ UNCHANGED NotMongoSource
  \/ /\ \/ part = "index" /\ Index!Next
        \/ part = "shared" /\ Shared!Next
        \/ part = "late" /\ Late!Next
        \/ part = "drain" /\ Drain!Next
        \/ part = "search" /\ Searching!Next
        \/ part = "sends" /\ Sends!Next
     /\ UNCHANGED NotFeishuIndexedSink
  \/ /\ \/ part = "webhook" /\ Hooks(Webhook)!Next
        \/ part = "events" /\ Hooks(Events)!Next
     /\ UNCHANGED NotWebhookSource
  \/ /\ \/ part = "cron" /\ Schedule(Cron)!Next
        \/ part = "every" /\ Schedule(Every)!Next
        \/ part = "paused" /\ Schedule(Paused)!Next
        \/ part = "beside" /\ Schedule(Beside)!Next
     /\ UNCHANGED NotScheduleSource

mongo == Mongo(Polled)!vars
feishu == Sends!vars
web == Hooks(Events)!vars
schedules == Schedule(Cron)!vars

(* Sources fetch, requests are answered, timers fire and handlers end. *)
Fairness ==
  /\ WF_mongo(part = "polled" /\ Mongo(Polled)!Publish)
  /\ WF_mongo(part = "polled" /\ Mongo(Polled)!FetchStart)
  /\ WF_mongo(part = "polled" /\ Mongo(Polled)!Fetch)
  /\ WF_mongo(part = "polled" /\ \E i \in DOMAIN log : Mongo(Polled)!Ends(i))
  /\ WF_feishu(part = "sends" /\ Sends!Open)
  /\ WF_feishu(part = "sends" /\ Sends!TimerFires)
  /\ WF_feishu(part = "sends" /\ Sends!Close)
  /\ WF_feishu(part = "sends" /\ (Sends!Created \/ Sends!CreateFails))
  /\ WF_feishu(part = "sends" /\ Sends!Lookup)
  /\ \A a \in Sends!Actors : WF_feishu(part = "sends" /\ Sends!Flush(a))
  /\ \A s \in Sends!Senders : /\ WF_feishu(part = "sends" /\ Sends!Send(s))
                              /\ WF_feishu(part = "sends" /\ (Sends!SearchReads(s) \/ Sends!SearchFails(s)))
                              /\ WF_feishu(part = "sends" /\ Sends!SearchAnswers(s))
                              /\ WF_feishu(part = "sends" /\ Sends!Wakes(s))
  /\ WF_web(part = "events" /\ Hooks(Events)!Fetch("a"))
  /\ \A r \in {"r1", "r2", "r3"} :
       /\ WF_web(part = "events" /\ (Hooks(Events)!Finish("a", r) \/ Hooks(Events)!Retry("a", r)))
       /\ WF_web(part = "events" /\ Hooks(Events)!PutWakes("a", r))
  /\ WF_schedules(part = "cron" /\ Schedule(Cron)!Fetch)
  /\ WF_schedules(part = "cron" /\ Schedule(Cron)!Tick)
  /\ WF_schedules(part = "cron" /\ \E d \in out : Schedule(Cron)!Finish(d))
  /\ WF_schedules(part = "paused" /\ Schedule(Paused)!Fetch)
  /\ WF_schedules(part = "paused" /\ Schedule(Paused)!Tick)
  /\ WF_schedules(part = "paused" /\ \E d \in out : Schedule(Paused)!Finish(d))

Spec == Init /\ [][Next]_vars /\ Fairness
--------------------------------------------------------------------------------
(* A sink tells the truth: a send that returns has written every document, one that *)
(* cannot be repeated without harm is written once and is UNCERTAIN when it failed *)
(* after a part was written; the indexed sink writes one record per key and forgets *)
(* none; a late write is not repeated, an outage is survived, a throttled call waits *)
(* and no error carries a secret. *)
SinksTellTheTruth ==
  /\ part = "elastic" => /\ Elastic!TypeOK /\ Elastic!SentMeansWritten
                         /\ Elastic!WrittenOnce /\ Elastic!PartialIsUncertain
  /\ part = "elasticids" => ElasticIds!SentMeansWritten
  /\ part = "oversize" => Oversize!SentMeansWritten
  /\ part = "clickhouse" => /\ ClickHouse!SentMeansWritten /\ ClickHouse!WrittenOnce
                            /\ ClickHouse!PartialIsUncertain
  /\ part = "mongosink" => /\ MongoSink!SentMeansWritten /\ MongoSink!WrittenOnce
                           /\ MongoSink!PartialIsUncertain
  /\ part = "index" => /\ Index!TypeOK /\ Index!ConfirmedWritten
                       /\ Index!OneRecord /\ Index!KnownOrDoubted
  /\ part = "shared" => Shared!OneRecord /\ Shared!ConfirmedWritten
  /\ part = "search" => Searching!OneRecord /\ Searching!KnownOrDoubted
  /\ part = "late" => Late!TypeOK /\ Late!ConfirmedWritten
  /\ part = "drain" => Drain!CloseClean
  /\ part = "outage" => /\ Outage!TypeOK /\ Outage!LateWriteNotRepeated /\ Outage!OutageSurvived
                        /\ Outage!NoCredentialsInCause /\ Outage!ThrottledWaits

(* A source loses and doubles nothing but what a stop, a pause or a retry takes from *)
(* an awaited fetch: the saved cursor of MongoDB passes no document in work and moves *)
(* for no acknowledgement of a generation that was given up; an accepted webhook *)
(* request is in one place, if only among the dropped, and an open source is served; *)
(* a schedule counts the runs in hand and those dropped, keeps its slots in order and *)
(* drops the oldest first. *)
SourcesLoseNothing ==
  /\ part = "poll" => /\ Mongo(Poll)!TypeOK /\ Mongo(Poll)!NothingSkipped /\ Mongo(Poll)!OneHandler
                      /\ Mongo(Poll)!StaleNeverAdvances
  /\ part = "stream" => /\ Mongo(Changes)!NothingSkipped /\ Mongo(Changes)!OneHandler
                        /\ Mongo(Changes)!StaleNeverAdvances
  /\ part = "webhook" => Hooks(Webhook)!TypeOK /\ Hooks(Webhook)!OnePlace /\ Hooks(Webhook)!OpenIsServed
  /\ part = "events" => Hooks(Events)!OnePlace
  /\ part = "cron" => Schedule(Cron)!TypeOK /\ Schedule(Cron)!Counted /\ Schedule(Cron)!QueueKeeps /\ Schedule(Cron)!DropsOldest
  /\ part = "every" => Schedule(Every)!Counted
  /\ part = "beside" => Schedule(Beside)!Counted
  /\ part = "paused" => Schedule(Paused)!DropsOldest

(* The saved cursor never moves back, until a retry gives up the generation of an *)
(* awaited fetch, and a scheduled run that may not overlap never starts beside *)
(* another delivery. *)
OrderedSteps ==
  [][/\ part = "poll" => Mongo(Poll)!CursorMonotone
     /\ part = "cron" => Schedule(Cron)!StartsAlone
     /\ part = "every" => Schedule(Every)!StartsAlone]_vars

(* What was begun has ended: documents are handled and the cursor is at the last, no *)
(* send waits, accepted requests are handled and no scheduled run waits its turn; *)
(* what a stop, a pause or a retry took from an awaited fetch is not promised. *)
NothingWaits ==
  /\ part = "polled" => raced \/ ((origin + 1)..3 \subseteq settled /\ store = 3)
  /\ part = "sends" => \A s \in Sends!Senders : pc[s] # "wait"
  /\ part = "events" => \A r \in {"r1", "r2", "r3"} : Hooks(Events)!Accepted(r) => r \in done \cup dropped
  /\ part = "cron" => \A s \in 1..6 : ~Schedule(Cron)!Waiting(s)
  /\ part = "paused" => \A s \in 1..5 : ~Schedule(Paused)!Waiting(s)

(* Nothing waits for ever: handlers, sends, requests and scheduled runs come to *)
(* their end, whatever fails and is retried. *)
EverythingEnds == []<>NothingWaits
--------------------------------------------------------------------------------
(* What every source needs: numbers. *)
MongoConfig(c) ==
  /\ c.N \in Nat /\ c.Saved \in 0..c.N /\ c.BatchSize \in Nat /\ c.Concurrency \in Nat
  /\ c.Stream \in BOOLEAN

(* A change stream resumes after a token. *)
OrderedConfig(c) == MongoConfig(c) /\ (c.Stream => c.Saved > 0)

(* The generations of the deliveries l, when g is the current one and those in iv were *)
(* given up: only the current one advances the cursor, and an earlier one with a       *)
(* delivery that is not done was given up.                                             *)
Generations(l, g, iv) == \A i \in DOMAIN l :
  /\ l[i].gen <= g
  /\ l[i].adv => l[i].gen = g
  /\ l[i].gen < g /\ l[i].st # "done" => l[i].gen \in iv

(* A delivery is retried when its generation has been given up. *)
Retrying(l, g) == \A i \in DOMAIN l : l[i].st = "retrying" => l[i].gen < g

(* The deliveries of the process: no token is beyond what the server holds. *)
LogFits(c, l, p, g, iv, h) ==
  /\ l \in Seq(Mongo(c)!Entry) /\ p \in 0..Len(l) /\ g \in Nat /\ iv \subseteq 0..(g - 1)
  /\ \A i \in DOMAIN l : l[i].tok <= h
  /\ Generations(l, g, iv) /\ Retrying(l, g)

(* The positions: none is beyond what the server holds. *)
Cursors(c) ==
  /\ head \in 0..c.N /\ store \in 0..head /\ committed \in 0..head /\ scan \in 0..head
  /\ stream \in {-1} \cup 0..head /\ fetching \in {-1} \cup 0..head
  /\ alive \in BOOLEAN /\ settled \subseteq 1..head /\ origin \in 0..c.N
  /\ asked \in Int /\ raced \in BOOLEAN

MongoInv(c) == Cursors(c) /\ LogFits(c, log, popped, generation, invalidated, head)

(* A later generation begins when the earlier ones are done, and the documents of one  *)
(* are consecutive.                                                                    *)
InOrder(l) == \A i, j \in DOMAIN l : i < j =>
  /\ l[i].gen <= l[j].gen
  /\ l[i].gen < l[j].gen => l[i].st = "done"
  /\ l[i].gen = l[j].gen => l[j].tok = l[i].tok + (j - i)

(* What left _pending is done, and of the current generation what is left follows the  *)
(* saved cursor cm; what is done of it advances and is settled.                        *)
Follows(l, p, g, cm) ==
  /\ \A i \in 1..p : l[i].st = "done"
  /\ p > 0 /\ l[p].gen = g => cm = l[p].tok
  /\ \A i \in DOMAIN l : i > p /\ l[i].gen = g /\ (i = 1 \/ l[i - 1].gen # g) => l[i].tok = cm + 1
DoneIs(l, g, sd) ==
  \A i \in DOMAIN l : l[i].gen = g /\ l[i].st = "done" => l[i].adv /\ l[i].tok \in sd

(* Where the next fetch has to begin, when len deliveries were made. *)
Position(l, len, g, cm) == IF len > 0 /\ l[len].gen = g THEN l[len].tok ELSE cm

(* The current generation has no delivery yet. *)
NoneYet(l, len, g) == len = 0 \/ l[len].gen # g

(* While a fetch is awaited, what is not done is of the current generation. *)
Current(l, g) == \A i \in DOMAIN l : l[i].st # "done" => l[i].gen = g

(* Up to a cursor all documents are settled. *)
Covered(o, cm, sd) == \A d \in (o + 1)..cm : d \in sd

OrderHeld(c) ==
  /\ committed = store /\ origin = c.Saved /\ origin <= store /\ (c.Stream => store > 0)
  /\ InOrder(log) /\ Follows(log, popped, generation, committed) /\ DoneIs(log, generation, settled)
  /\ Covered(origin, store, settled)
  /\ IF c.Stream /\ stream = -1 THEN NoneYet(log, Len(log), generation)
     ELSE Position(log, Len(log), generation, committed) = (IF c.Stream THEN stream ELSE scan)
  /\ fetching # -1 => /\ fetching = Position(log, Len(log), generation, committed)
                      /\ Current(log, generation) /\ (c.Stream => stream # -1)

(* That order holds until the current generation is given up under an awaited fetch. *)
OrderInv(c) == raced \/ OrderHeld(c)
--------------------------------------------------------------------------------
(* A set of natural numbers has a smallest element, and a largest one if it has a bound. *)
LEMMA SmallestNumber ==
  ASSUME NEW S \in SUBSET Nat, S # {}
  PROVE  \E x \in S : \A y \in S : x <= y
  <1>1. PICK x \in S : \A y \in S : ~(<<y, x>> \in OpToRel(<, Nat))
    BY WFMin, NatLessThanWellFounded, Zenon
  <1>2. \A y \in S : ~(y < x)
    BY <1>1 DEF OpToRel
  <1> QED BY <1>2

(* The cardinality of a finite set is a number. *)
LEMMA MongoCardinality ==
  ASSUME NEW c, NEW S, IsFiniteSet(S)
  PROVE  Mongo(c)!Cardinality(S) \in Nat
  <1>1. Mongo(c)!Cardinality(S) = Cardinality(S)
    BY DEF Mongo!Cardinality, Cardinality
  <1> QED BY <1>1, FS_CardinalityType

(* The deliveries of the documents that follow a position. *)
NewOnes(g, from, n) == [k \in 1..n |-> [gen |-> g, tok |-> from + k, st |-> "handling", adv |-> FALSE]]

(* What a fetch brings: the documents after its position, in the current generation. *)
LEMMA FetchedIs ==
  ASSUME NEW c, MongoConfig(c), MongoInv(c), fetching # -1
  PROVE  \E n \in Nat : fetching + n <= head /\ Mongo(c)!Fetched = NewOnes(generation, fetching, n)
  <1> DEFINE m == Mongo(c)!Smallest(asked, head - fetching)
             n == IF m > 0 THEN m ELSE 0
  <1>1. head \in Nat /\ fetching \in Nat /\ fetching <= head /\ asked \in Int
    BY DEF MongoInv, Cursors, MongoConfig
  <1>2. m \in Int /\ m <= head - fetching
    BY <1>1 DEF Mongo!Smallest
  <1>3. Mongo(c)!Fetched = NewOnes(generation, fetching, m)
    BY DEF Mongo!Fetched, NewOnes
  <1> HIDE DEF m
  <1>4. n \in Nat /\ fetching + n <= head /\ 1..m = 1..n
    BY <1>1, <1>2
  <1> HIDE DEF n
  <1>5. NewOnes(generation, fetching, m) = NewOnes(generation, fetching, n)
    BY <1>4 DEF NewOnes
  <1> QED BY <1>3, <1>4, <1>5

(* What a fetch asks for is a number. *)
LEMMA AskedIs ==
  ASSUME NEW c, MongoConfig(c), MongoInv(c)
  PROVE  Mongo(c)!Smallest(c.BatchSize, c.Concurrency - Mongo(c)!Cardinality(Mongo(c)!InHand)) \in Int
  <1>1. Len(log) \in Nat /\ DOMAIN log = 1..Len(log)
    BY DEF MongoInv, LogFits
  <1>2. Mongo(c)!InHand \in SUBSET (1..Len(log))
    BY <1>1 DEF Mongo!InHand
  <1>3. IsFiniteSet(1..Len(log))
    BY <1>1, FS_Interval
  <1>4. IsFiniteSet(Mongo(c)!InHand)
    BY <1>2, <1>3, FS_Subset
  <1>5. Mongo(c)!Cardinality(Mongo(c)!InHand) \in Nat
    BY <1>4, MongoCardinality
  <1> QED BY <1>5 DEF Mongo!Smallest, MongoConfig

(* A sequence, element by element. *)
LEMMA ListOf ==
  ASSUME NEW S, NEW n \in Nat, NEW f, f = [k \in 1..n |-> f[k]], \A k \in 1..n : f[k] \in S
  PROVE  f \in Seq(S) /\ Len(f) = n
  OBVIOUS

(* A sequence of n new deliveries, of generation g, from a position on. *)
Batch(F, g, from, n) == \A k \in 1..n :
  F[k].gen = g /\ F[k].tok = from + k /\ F[k].st = "handling" /\ ~F[k].adv
LEMMA BatchOf ==
  ASSUME NEW c, NEW g \in Nat, NEW from \in Nat, NEW n \in Nat, from + n <= c.N, c.N \in Nat
  PROVE  LET F == NewOnes(g, from, n)
         IN  F \in Seq(Mongo(c)!Entry) /\ Len(F) = n /\ Batch(F, g, from, n) /\ (F = <<>> <=> n = 0)
  <1> DEFINE E == Mongo(c)!Entry
             F == NewOnes(g, from, n)
  <1>1. \A k \in 1..n : from + k \in 1..c.N
    OBVIOUS
  <1>2. \A k \in 1..n : F[k] \in E
    BY <1>1 DEF Mongo!Entry, Mongo!States, NewOnes
  <1>3. F = [k \in 1..n |-> F[k]]
    BY DEF NewOnes
  <1>4. Batch(F, g, from, n)
    BY DEF Batch, NewOnes
  <1> HIDE DEF E, F
  <1>5. F \in Seq(E) /\ Len(F) = n
    BY <1>2, <1>3, ListOf
  <1>6. F = <<>> <=> n = 0
    BY <1>5
  <1> QED BY <1>4, <1>5, <1>6 DEF E, F

(* Deliveries are added behind the others. *)
IsAdded(new, l, len, g, from, n) ==
  /\ DOMAIN l = 1..len /\ DOMAIN new = 1..(len + n)
  /\ \A i \in 1..len : new[i] = l[i]
  /\ \A i \in 1..(len + n) : i > len =>
       /\ new[i].gen = g /\ new[i].tok = from + (i - len)
       /\ new[i].st = "handling" /\ ~new[i].adv
LEMMA Added ==
  ASSUME NEW E, NEW l \in Seq(E), NEW F \in Seq(E), NEW g, NEW from \in Nat, NEW n, Len(F) = n, Batch(F, g, from, n)
  PROVE  l \o F \in Seq(E) /\ Len(l \o F) = Len(l) + n /\ IsAdded(l \o F, l, Len(l), g, from, n)
  <1>1. l \o F \in Seq(E) /\ Len(l \o F) = Len(l) + n /\ Len(l) \in Nat /\ n \in Nat
    OBVIOUS
  <1>2. DOMAIN l = 1..Len(l) /\ DOMAIN (l \o F) = 1..(Len(l) + n)
    BY <1>1
  <1>3. \A i \in DOMAIN l : (l \o F)[i] = l[i]
    OBVIOUS
  <1>4. \A i \in 1..(Len(l) + n) : i > Len(l) => i - Len(l) \in 1..n /\ (l \o F)[i] = F[i - Len(l)]
    BY <1>1
  <1>5. \A i \in 1..(Len(l) + n) : i > Len(l) =>
          /\ (l \o F)[i].gen = g /\ (l \o F)[i].tok = from + (i - Len(l))
          /\ (l \o F)[i].st = "handling" /\ ~(l \o F)[i].adv
    BY <1>4 DEF Batch
  <1> QED BY <1>1, <1>2, <1>3, <1>5 DEF IsAdded

(* A generation is given up: its deliveries do not advance, and nothing else changes. *)
IsGivenUp(new, l, gen, g, iv, ng, niv) ==
  /\ DOMAIN new = DOMAIN l
  /\ \A i \in DOMAIN l : /\ new[i].gen = l[i].gen /\ new[i].tok = l[i].tok /\ new[i].st = l[i].st
                         /\ new[i].adv => l[i].adv
  /\ \/ gen # g /\ new = l /\ ng = g /\ niv = iv
     \/ /\ gen = g /\ ng = g + 1 /\ niv = iv \cup {g}
        /\ \A i \in DOMAIN l : new[i].adv => l[i].gen # g
LEMMA GivenUp ==
  ASSUME NEW c, NEW gen, NEW l \in Seq(Mongo(c)!Entry), Mongo(c)!Invalidated(gen, l)
  PROVE  /\ log' \in Seq(Mongo(c)!Entry) /\ Len(log') = Len(l)
         /\ IsGivenUp(log', l, gen, generation, invalidated, generation', invalidated')
  <1>1. CASE gen # generation
    BY <1>1 DEF Mongo!Invalidated, IsGivenUp
  <1>2. CASE gen = generation
    <2> DEFINE E == Mongo(c)!Entry
               v(i) == IF l[i].gen = gen THEN [l[i] EXCEPT !.adv = FALSE] ELSE l[i]
    <2>1. log' = [i \in DOMAIN l |-> v(i)] /\ generation' = generation + 1 /\ invalidated' = invalidated \cup {generation}
      BY <1>2 DEF Mongo!Invalidated
    <2>2. \A i \in DOMAIN l : l[i] \in E
      OBVIOUS
    <2>3. \A e \in E : /\ [e EXCEPT !.adv = FALSE] \in E /\ ~[e EXCEPT !.adv = FALSE].adv
                       /\ [e EXCEPT !.adv = FALSE].gen = e.gen /\ [e EXCEPT !.adv = FALSE].tok = e.tok
                       /\ [e EXCEPT !.adv = FALSE].st = e.st
      BY DEF Mongo!Entry, Mongo!States
    <2> HIDE DEF E
    <2>4. \A i \in DOMAIN l : /\ v(i) \in E /\ v(i).gen = l[i].gen /\ v(i).tok = l[i].tok /\ v(i).st = l[i].st
                              /\ v(i).adv => l[i].adv /\ l[i].gen # gen
      BY <2>2, <2>3
    <2> HIDE DEF v
    <2>5. DOMAIN l = 1..Len(l) /\ Len(l) \in Nat
      BY <2>2
    <2>6. log' \in Seq(E) /\ Len(log') = Len(l) /\ DOMAIN log' = DOMAIN l
      BY <2>1, <2>4, <2>5
    <2>7. \A i \in DOMAIN l : log'[i] = v(i)
      BY <2>1
    <2> QED BY <1>2, <2>1, <2>4, <2>6, <2>7 DEF E, IsGivenUp
  <1> QED BY <1>1, <1>2

(* A bounded set of natural numbers has a largest element. *)
LEMMA LargestNumber ==
  ASSUME NEW n \in Nat, NEW S \in SUBSET (0..n), S # {}
  PROVE  \E x \in S : \A y \in S : y <= x
  <1> DEFINE D == {d \in 0..n : n - d \in S}
  <1>1. D \in SUBSET Nat /\ D # {}
    <2>1. PICK t \in S : TRUE
      OBVIOUS
    <2>2. n - t \in 0..n /\ n - (n - t) = t
      OBVIOUS
    <2> QED BY <2>2
  <1>2. PICK d \in D : \A e \in D : d <= e
    BY <1>1, SmallestNumber
  <1>3. \A y \in S : n - y \in D
    OBVIOUS
  <1> QED BY <1>2, <1>3

(* What leaves _pending are the deliveries at its front that are done. *)
LEMMA FrontIs ==
  ASSUME NEW c, NEW l \in Seq(Mongo(c)!Entry), popped \in 0..Len(l)
  PROVE  LET k == Mongo(c)!Front(l)
         IN  /\ k \in popped..Len(l) /\ \A j \in (popped + 1)..k : l[j].st = "done"
             /\ k = Len(l) \/ l[k + 1].st # "done"
  <1> DEFINE S == {j \in (popped + 1)..Len(l) : l[j].st # "done"}
             Is(k) == /\ \A j \in (popped + 1)..k : l[j].st = "done"
                      /\ k = Len(l) \/ l[k + 1].st # "done"
  <1>1. Len(l) \in Nat
    OBVIOUS
  <1>2. \E k \in popped..Len(l) : Is(k)
    <2>1. CASE S = {}
      BY <1>1, <2>1
    <2>2. CASE S # {}
      <3>1. S \in SUBSET Nat
        BY <1>1
      <3>2. PICK x \in S : \A y \in S : x <= y
        BY <2>2, <3>1, SmallestNumber
      <3>3. x - 1 \in popped..Len(l) /\ (x - 1) + 1 = x
        BY <1>1
      <3>4. Is(x - 1)
        BY <1>1, <3>2, <3>3
      <3> QED BY <3>3, <3>4
    <2> QED BY <2>1, <2>2
  <1>3. Mongo(c)!Front(l) = CHOOSE k \in popped..Len(l) : Is(k)
    BY DEF Mongo!Front
  <1> HIDE DEF Is
  <1>4. Mongo(c)!Front(l) \in popped..Len(l) /\ Is(Mongo(c)!Front(l))
    BY <1>2, <1>3
  <1> QED BY <1>4 DEF Is

(* What is saved is the token of the last of them that advances. *)
LEMMA ToSaveIs ==
  ASSUME NEW c, c.N \in Nat, NEW l \in Seq(Mongo(c)!Entry), popped \in 0..Len(l)
  PROVE  LET k == Mongo(c)!Front(l)
         IN  \/ Mongo(c)!ToSave(l) = 0 /\ \A j \in (popped + 1)..k : ~l[j].adv
             \/ \E j \in (popped + 1)..k :
                  /\ l[j].adv /\ \A x \in (j + 1)..k : ~l[x].adv
                  /\ Mongo(c)!ToSave(l) = l[j].tok /\ l[j].tok > 0
  <1> DEFINE k == Mongo(c)!Front(l)
             S == {j \in (popped + 1)..k : l[j].adv}
             m == CHOOSE j \in S : \A x \in S : x <= j
  <1>1. k \in popped..Len(l) /\ Len(l) \in Nat /\ popped \in Nat
    BY FrontIs
  <1>2. Mongo(c)!ToSave(l) = IF S = {} THEN 0 ELSE l[m].tok
    BY DEF Mongo!ToSave
  <1> HIDE DEF k
  <1>3. CASE S = {}
    BY <1>2, <1>3 DEF k
  <1>4. CASE S # {}
    <2>1. k \in Nat /\ S \in SUBSET (0..k)
      BY <1>1
    <2>2. \E j \in S : \A x \in S : x <= j
      BY <1>4, <2>1, LargestNumber
    <2>3. m \in S /\ \A x \in S : x <= m
      BY <2>2
    <2> HIDE DEF m
    <2>4. m \in (popped + 1)..k /\ l[m].adv /\ \A x \in (m + 1)..k : ~l[x].adv
      BY <1>1, <2>3
    <2>5. l[m] \in Mongo(c)!Entry
      BY <1>1, <2>4
    <2>6. l[m].tok > 0
      BY <2>5 DEF Mongo!Entry, Mongo!States
    <2> QED BY <1>2, <1>4, <2>4, <2>6 DEF k
  <1> QED BY <1>3, <1>4

(* An element of a sequence is replaced. *)
LEMMA Replaced ==
  ASSUME NEW E, NEW l \in Seq(E), NEW i \in DOMAIN l, NEW e \in E
  PROVE  /\ [l EXCEPT ![i] = e] \in Seq(E) /\ Len([l EXCEPT ![i] = e]) = Len(l)
         /\ DOMAIN [l EXCEPT ![i] = e] = DOMAIN l /\ [l EXCEPT ![i] = e][i] = e
         /\ \A j \in DOMAIN l : j # i => [l EXCEPT ![i] = e][j] = l[j]
  OBVIOUS

(* A delivery is marked. *)
Mark(l, i, st, adv) == [l EXCEPT ![i].st = st, ![i].adv = adv]
IsMarked(new, E, l, i, st, adv) ==
  /\ new \in Seq(E) /\ Len(new) = Len(l) /\ DOMAIN new = DOMAIN l
  /\ \A j \in DOMAIN l : j # i => new[j] = l[j]
  /\ new[i].gen = l[i].gen /\ new[i].tok = l[i].tok /\ new[i].st = st /\ new[i].adv = adv
LEMMA Marked ==
  ASSUME NEW c, NEW l \in Seq(Mongo(c)!Entry), NEW i \in DOMAIN l,
         NEW st \in {"handling", "unsaved", "refused", "retrying", "lost", "done"}, NEW adv \in BOOLEAN
  PROVE  IsMarked(Mark(l, i, st, adv), Mongo(c)!Entry, l, i, st, adv)
  <1> DEFINE E == Mongo(c)!Entry
             e == [l[i] EXCEPT !.st = st, !.adv = adv]
             new == Mark(l, i, st, adv)
  <1>1. l[i] \in E
    OBVIOUS
  <1>2. e \in E /\ e.gen = l[i].gen /\ e.tok = l[i].tok /\ e.st = st /\ e.adv = adv
    BY <1>1 DEF Mongo!Entry, Mongo!States
  <1>3. new = [l EXCEPT ![i] = e]
    BY <1>1 DEF Mongo!Entry, Mongo!States, Mark
  <1>4. l \in Seq(E)
    BY DEF E
  <1> HIDE DEF E, e, new
  <1>5. new \in Seq(E) /\ Len(new) = Len(l) /\ DOMAIN new = DOMAIN l /\ new[i] = e
        /\ \A j \in DOMAIN l : j # i => new[j] = l[j]
    BY <1>2, <1>3, <1>4, Replaced
  <1> QED BY <1>2, <1>5 DEF E, new, IsMarked

(* A delivery is completed: it is done, and advances the cursor when it may. *)
IsCompleted(new, l, i, a, iv, niv) ==
  /\ DOMAIN new = DOMAIN l /\ \A j \in DOMAIN l : j # i => new[j] = l[j]
  /\ new[i].gen = l[i].gen /\ new[i].tok = l[i].tok /\ new[i].st = "done"
  /\ new[i].adv <=> a /\ l[i].gen \notin iv
  /\ niv = {x \in iv : \E j \in DOMAIN new : new[j].gen = x /\ new[j].st # "done"}

(* What is done at the front of _pending leaves it, and its last cursor is saved. *)
IsSaved(new, len, p, np, st, cm, nst, ncm) ==
  /\ np \in p..len /\ \A j \in (p + 1)..np : new[j].st = "done"
  /\ np = len \/ new[np + 1].st # "done"
  /\ \/ nst = st /\ ncm = cm /\ \A j \in (p + 1)..np : ~new[j].adv
     \/ \E j \in (p + 1)..np :
          /\ new[j].adv /\ \A x \in (j + 1)..np : ~new[x].adv
          /\ nst = new[j].tok /\ ncm = new[j].tok
LEMMA CompletedIs ==
  ASSUME NEW c, c.N \in Nat, log \in Seq(Mongo(c)!Entry), popped \in 0..Len(log), NEW i \in DOMAIN log,
         NEW advance \in BOOLEAN, Mongo(c)!Complete(i, advance)
  PROVE  /\ log' \in Seq(Mongo(c)!Entry) /\ Len(log') = Len(log) /\ generation' = generation
         /\ IsCompleted(log', log, i, advance, invalidated, invalidated')
         /\ IsSaved(log', Len(log), popped, popped', store, committed, store', committed')
  <1> DEFINE adv == advance /\ log[i].gen \notin invalidated
             new == Mongo(c)!Done(i, advance)
  <1>1. /\ log' = new /\ popped' = Mongo(c)!Front(new) /\ generation' = generation
        /\ IF Mongo(c)!ToSave(new) # 0 THEN store' = Mongo(c)!ToSave(new) /\ committed' = Mongo(c)!ToSave(new)
                                      ELSE UNCHANGED <<store, committed>>
    BY DEF Mongo!Complete
  <1>2. invalidated' = {g \in invalidated : \E j \in DOMAIN log' : log'[j].gen = g /\ log'[j].st # "done"}
    BY DEF Mongo!Complete, Mongo!StillInvalidated
  <1>3. new = Mark(log, i, "done", adv) /\ adv \in BOOLEAN
    BY DEF Mongo!Done, Mark
  <1> HIDE DEF new, adv
  <1>4. /\ new \in Seq(Mongo(c)!Entry) /\ Len(new) = Len(log) /\ DOMAIN new = DOMAIN log
        /\ \A j \in DOMAIN log : j # i => new[j] = log[j]
        /\ new[i].gen = log[i].gen /\ new[i].tok = log[i].tok /\ new[i].st = "done" /\ new[i].adv = adv
    <2>1. "done" \in {"handling", "unsaved", "refused", "retrying", "lost", "done"}
      OBVIOUS
    <2>2. IsMarked(new, Mongo(c)!Entry, log, i, "done", adv)
      BY <1>3, <2>1, Marked, Zenon
    <2> QED BY <2>2 DEF IsMarked
  <1>5. popped \in 0..Len(new)
    BY <1>4
  <1>6. /\ popped' \in popped..Len(log) /\ \A j \in (popped + 1)..popped' : log'[j].st = "done"
        /\ popped' = Len(log) \/ log'[popped' + 1].st # "done"
    BY <1>1, <1>4, <1>5, FrontIs
  <1>7. \/ Mongo(c)!ToSave(new) = 0 /\ \A j \in (popped + 1)..popped' : ~new[j].adv
        \/ \E j \in (popped + 1)..popped' :
             /\ new[j].adv /\ \A x \in (j + 1)..popped' : ~new[x].adv
             /\ Mongo(c)!ToSave(new) = new[j].tok /\ new[j].tok > 0
    BY <1>1, <1>4, <1>5, ToSaveIs
  <1>8. \/ UNCHANGED <<store, committed>> /\ \A j \in (popped + 1)..popped' : ~log'[j].adv
        \/ \E j \in (popped + 1)..popped' :
             /\ log'[j].adv /\ \A x \in (j + 1)..popped' : ~log'[x].adv
             /\ store' = log'[j].tok /\ committed' = log'[j].tok
    <2>1. CASE Mongo(c)!ToSave(new) = 0 /\ \A j \in (popped + 1)..popped' : ~new[j].adv
      BY <1>1, <2>1
    <2>2. CASE \E j \in (popped + 1)..popped' :
                 /\ new[j].adv /\ \A x \in (j + 1)..popped' : ~new[x].adv
                 /\ Mongo(c)!ToSave(new) = new[j].tok /\ new[j].tok > 0
      <3>1. PICK j \in (popped + 1)..popped' :
                 /\ new[j].adv /\ \A x \in (j + 1)..popped' : ~new[x].adv
                 /\ Mongo(c)!ToSave(new) = new[j].tok /\ new[j].tok > 0
        BY <2>2
      <3>2. j \in DOMAIN new
        BY <1>4, <1>6
      <3>3. new[j] \in Mongo(c)!Entry
        BY <1>4, <3>2
      <3>4. new[j].tok # 0
        BY <3>3 DEF Mongo!Entry, Mongo!States
      <3> QED BY <1>1, <3>1, <3>4
    <2> QED BY <1>7, <2>1, <2>2
  <1>9. IsSaved(log', Len(log), popped, popped', store, committed, store', committed')
    BY <1>6, <1>8 DEF IsSaved
  <1>10. IsCompleted(log', log, i, advance, invalidated, invalidated')
    BY <1>1, <1>2, <1>4 DEF adv, IsCompleted
  <1> QED BY <1>1, <1>4, <1>9, <1>10

(* The marks of a sequence of deliveries, one by one. *)
LEMMA Elements ==
  ASSUME NEW c, NEW l \in Seq(Mongo(c)!Entry), c.N \in Nat
  PROVE  /\ Len(l) \in Nat /\ DOMAIN l = 1..Len(l)
         /\ \A i \in DOMAIN l : /\ l[i].gen \in Nat /\ l[i].tok \in 1..c.N /\ l[i].adv \in BOOLEAN
                               /\ l[i].st \in {"handling", "unsaved", "refused", "retrying", "lost", "done"}
  <1>1. \A i \in DOMAIN l : l[i] \in Mongo(c)!Entry
    OBVIOUS
  <1> QED BY <1>1 DEF Mongo!Entry, Mongo!States

(* Deliveries join the current generation. *)
LEMMA GenerationsAdded ==
  ASSUME NEW l, NEW len \in Nat, NEW g \in Nat, NEW iv, NEW new, NEW from \in Nat, NEW n \in Nat,
         NEW h \in Nat, IsAdded(new, l, len, g, from, n), from + n <= h,
         \A i \in DOMAIN l : l[i].tok <= h, Generations(l, g, iv), Retrying(l, g)
  PROVE  Generations(new, g, iv) /\ Retrying(new, g) /\ \A i \in DOMAIN new : new[i].tok <= h
  <1>1. \A i \in 1..(len + n) : i \in 1..len \/ (i > len /\ i - len <= n)
    OBVIOUS
  <1>2. \A i \in DOMAIN new : new[i].tok <= h
    BY <1>1 DEF IsAdded
  <1>3. Generations(new, g, iv)
    BY <1>1 DEF IsAdded, Generations
  <1>4. Retrying(new, g)
    BY <1>1 DEF IsAdded, Retrying
  <1> QED BY <1>2, <1>3, <1>4

(* The deliveries of what the server holds. *)
Held(l, h) == \A i \in DOMAIN l : l[i].tok <= h /\ l[i].gen \in Nat

(* A delivery is being retried when its generation is given up, now or before. *)
RetryingOr(l, g, gen) == \A i \in DOMAIN l : l[i].st = "retrying" => l[i].gen < g \/ l[i].gen = gen

(* A generation is given up, by the delivery that is retried or by the stream. *)
LEMMA GenerationsGivenUp ==
  ASSUME NEW l, NEW gen, NEW g \in Nat, NEW iv, NEW new, NEW ng, NEW niv, NEW h,
         IsGivenUp(new, l, gen, g, iv, ng, niv), iv \subseteq 0..(g - 1),
         Held(l, h), Generations(l, g, iv), RetryingOr(l, g, gen)
  PROVE  /\ Generations(new, ng, niv) /\ Retrying(new, ng) /\ \A i \in DOMAIN new : new[i].tok <= h
         /\ ng \in Nat /\ niv \subseteq 0..(ng - 1)
  <1> USE DEF Held, RetryingOr
  <1>1. \A i \in DOMAIN new : new[i].tok <= h
    BY DEF IsGivenUp
  <1>2. ng \in Nat /\ niv \subseteq 0..(ng - 1)
    <2>1. \/ ng = g /\ niv = iv
          \/ ng = g + 1 /\ niv = iv \cup {g}
      BY DEF IsGivenUp
    <2>2. CASE ng = g + 1 /\ niv = iv \cup {g}
      <3>1. \A x \in iv \cup {g} : x \in 0..g
        OBVIOUS
      <3>2. ng - 1 = g /\ ng \in Nat
        BY <2>2
      <3>3. 0..(ng - 1) = 0..g
        BY <3>2
      <3> QED BY <2>2, <3>1, <3>2, <3>3, Zenon
    <2> QED BY <2>1, <2>2
  <1>3. Generations(new, ng, niv)
    BY DEF IsGivenUp, Generations
  <1>4. Retrying(new, ng)
    BY DEF IsGivenUp, Generations, Retrying
  <1> QED BY <1>1, <1>2, <1>3, <1>4

(* The generations when a delivery is completed. *)
LEMMA GenerationsCompleted ==
  ASSUME NEW l, NEW i \in DOMAIN l, NEW g \in Nat, NEW iv, NEW niv, NEW new, NEW a, NEW h,
         IsCompleted(new, l, i, a, iv, niv), l[i].st # "done",
         Held(l, h), Generations(l, g, iv), Retrying(l, g)
  PROVE  /\ Generations(new, g, niv) /\ Retrying(new, g) /\ \A j \in DOMAIN new : new[j].tok <= h
         /\ niv \subseteq iv
  <1> USE DEF Held
  <1>1. \A j \in DOMAIN new : new[j].tok <= h
    BY DEF IsCompleted
  <1>2. niv \subseteq iv
    BY DEF IsCompleted
  <1>3. Generations(new, g, niv)
    <2>1. /\ \A j \in DOMAIN new : new[j].gen = l[j].gen /\ (new[j].st # "done" => l[j].st = new[j].st)
          /\ DOMAIN new = DOMAIN l
      BY DEF IsCompleted
    <2>2. \A j \in DOMAIN new : new[j].gen <= g /\ (new[j].gen < g /\ new[j].st # "done" => new[j].gen \in iv)
      BY <2>1 DEF Generations
    <2>3. \A j \in DOMAIN new : new[j].gen < g /\ new[j].st # "done" => new[j].gen \in niv
      BY <2>2 DEF IsCompleted
    <2>4. \A j \in DOMAIN new : new[j].adv => new[j].gen = g
      BY <2>1 DEF IsCompleted, Generations
    <2> QED BY <2>2, <2>3, <2>4 DEF Generations
  <1>4. Retrying(new, g)
    BY DEF IsCompleted, Retrying
  <1> QED BY <1>1, <1>2, <1>3, <1>4

(* The source begins with what an earlier process saved. *)
LEMMA MongoInvInit ==
  ASSUME NEW c, MongoConfig(c), Mongo(c)!Init
  PROVE  MongoInv(c)
  <1>1. log = <<>> /\ popped = 0 /\ generation = 0 /\ invalidated = {}
    BY DEF Mongo!Init
  <1>2. LogFits(c, log, popped, generation, invalidated, head)
    BY <1>1 DEF LogFits, Generations, Retrying
  <1>3. alive \in BOOLEAN /\ raced \in BOOLEAN
    BY Zenon DEF Mongo!Init
  <1>4. Cursors(c)
    BY <1>3 DEF Cursors, MongoConfig, Mongo!Init, Mongo!NoStream, Mongo!NoFetch
  <1> QED BY <1>2, <1>4 DEF MongoInv

(* The facts of the invariant that the steps below use. *)
LEMMA MongoFacts ==
  ASSUME NEW c, MongoConfig(c), MongoInv(c)
  PROVE  /\ c.N \in Nat /\ head \in Nat /\ head <= c.N /\ log \in Seq(Mongo(c)!Entry)
         /\ Len(log) \in Nat /\ DOMAIN log = 1..Len(log) /\ popped \in 0..Len(log)
         /\ generation \in Nat /\ invalidated \subseteq 0..(generation - 1)
         /\ \A i \in DOMAIN log : log[i].tok <= head /\ log[i].gen \in Nat /\ log[i].tok \in Nat
         /\ Generations(log, generation, invalidated) /\ Retrying(log, generation)
  <1>1. c.N \in Nat /\ head \in Nat /\ head <= c.N
    BY DEF MongoInv, MongoConfig, Cursors
  <1>2. /\ log \in Seq(Mongo(c)!Entry) /\ popped \in 0..Len(log) /\ generation \in Nat
        /\ invalidated \subseteq 0..(generation - 1) /\ \A i \in DOMAIN log : log[i].tok <= head
        /\ Generations(log, generation, invalidated) /\ Retrying(log, generation)
    BY DEF MongoInv, LogFits
  <1>3. /\ Len(log) \in Nat /\ DOMAIN log = 1..Len(log)
        /\ \A i \in DOMAIN log : log[i].gen \in Nat /\ log[i].tok \in 1..c.N
    BY <1>1, <1>2, Elements
  <1> QED BY <1>1, <1>2, <1>3

(* What a fetch brings joins the log. *)
LEMMA FetchFits ==
  ASSUME NEW c, MongoConfig(c), MongoInv(c), fetching # -1, log' = log \o Mongo(c)!Fetched
  PROVE  \E n \in Nat :
           /\ fetching + n <= head /\ Len(Mongo(c)!Fetched) = n /\ (Mongo(c)!Fetched = <<>> <=> n = 0)
           /\ Len(log') = Len(log) + n /\ IsAdded(log', log, Len(log), generation, fetching, n)
           /\ LogFits(c, log', popped, generation, invalidated, head)
  <1> DEFINE E == Mongo(c)!Entry
             F == Mongo(c)!Fetched
  <1>1. PICK n \in Nat : fetching + n <= head /\ F = NewOnes(generation, fetching, n)
    BY FetchedIs
  <1>2. fetching \in Nat
    BY DEF MongoInv, Cursors
  <1>3. F \in Seq(E) /\ Len(F) = n /\ Batch(F, generation, fetching, n) /\ (F = <<>> <=> n = 0)
    <2>1. fetching + n <= c.N /\ c.N \in Nat /\ generation \in Nat
      BY <1>1, <1>2, MongoFacts
    <2> HIDE DEF F
    <2> QED BY <1>1, <1>2, <2>1, BatchOf
  <1> HIDE DEF E, F
  <1>4. log' \in Seq(E) /\ Len(log') = Len(log) + n /\ IsAdded(log', log, Len(log), generation, fetching, n)
    <2>1. log \in Seq(E) /\ log' = log \o F
      BY MongoFacts DEF E, F
    <2> QED BY <1>2, <1>3, <2>1, Added
  <1>5. Generations(log', generation, invalidated) /\ Retrying(log', generation) /\ \A i \in DOMAIN log' : log'[i].tok <= head
    BY <1>1, <1>2, <1>4, MongoFacts, GenerationsAdded
  <1>6. popped \in 0..Len(log')
    BY <1>4, MongoFacts
  <1>7. LogFits(c, log', popped, generation, invalidated, head)
    BY <1>4, <1>5, <1>6, MongoFacts DEF LogFits, E
  <1> QED BY <1>1, <1>3, <1>4, <1>7 DEF F

(* A delivery is completed. *)
LEMMA CompleteFits ==
  ASSUME NEW c, MongoConfig(c), MongoInv(c), NEW i \in DOMAIN log, NEW advance \in BOOLEAN,
         log[i].st # "done", Mongo(c)!Complete(i, advance)
  PROVE  /\ LogFits(c, log', popped', generation', invalidated', head)
         /\ store' \in 0..head /\ committed' \in 0..head
  <1>1. /\ log' \in Seq(Mongo(c)!Entry) /\ Len(log') = Len(log) /\ generation' = generation
        /\ IsCompleted(log', log, i, advance, invalidated, invalidated')
        /\ IsSaved(log', Len(log), popped, popped', store, committed, store', committed')
    BY MongoFacts, CompletedIs
  <1>2. /\ Generations(log', generation, invalidated') /\ Retrying(log', generation)
        /\ \A j \in DOMAIN log' : log'[j].tok <= head
    <2>1. Held(log, head)
      BY MongoFacts DEF Held
    <2> QED BY <1>1, <2>1, MongoFacts, GenerationsCompleted
  <1>3. DOMAIN log' = 1..Len(log) /\ Len(log) \in Nat /\ popped \in 0..Len(log)
    BY <1>1, MongoFacts DEF IsCompleted
  <1>4. popped' \in popped..Len(log)
    BY <1>1 DEF IsSaved
  <1>5. store' \in 0..head /\ committed' \in 0..head
    <2>1. store \in 0..head /\ committed \in 0..head
      BY DEF MongoInv, Cursors
    <2>2. \A j \in DOMAIN log' : log'[j].tok \in 0..head
      BY <1>1, <1>2, MongoFacts, Elements
    <2>3. \A j \in (popped + 1)..popped' : log'[j].tok \in 0..head
      BY <1>3, <1>4, <2>2
    <2> QED BY <1>1, <2>1, <2>3 DEF IsSaved
  <1>6. invalidated' \subseteq invalidated
    BY <1>1 DEF IsCompleted
  <1>7. popped' \in 0..Len(log')
    BY <1>1, <1>3, <1>4
  <1> QED BY <1>1, <1>2, <1>5, <1>6, <1>7, MongoFacts DEF LogFits

(* A generation is given up, by a delivery that is retried or by the stream. *)
LEMMA GiveUpFits ==
  ASSUME NEW c, MongoConfig(c), MongoInv(c), NEW gen, NEW l \in Seq(Mongo(c)!Entry), Len(l) = Len(log),
         DOMAIN l = DOMAIN log, \A i \in DOMAIN l : l[i].tok = log[i].tok /\ l[i].gen = log[i].gen,
         Generations(l, generation, invalidated), Mongo(c)!Invalidated(gen, l), RetryingOr(l, generation, gen)
  PROVE  /\ LogFits(c, log', popped, generation', invalidated', head)
         /\ IsGivenUp(log', l, gen, generation, invalidated, generation', invalidated')
  <1>1. /\ log' \in Seq(Mongo(c)!Entry) /\ Len(log') = Len(l)
        /\ IsGivenUp(log', l, gen, generation, invalidated, generation', invalidated')
    BY GivenUp
  <1>2. Held(l, head)
    BY MongoFacts DEF Held
  <1>3. generation \in Nat /\ invalidated \subseteq 0..(generation - 1)
    BY MongoFacts
  <1>4. /\ Generations(log', generation', invalidated') /\ Retrying(log', generation')
        /\ \A i \in DOMAIN log' : log'[i].tok <= head
        /\ generation' \in Nat /\ invalidated' \subseteq 0..(generation' - 1)
    BY <1>1, <1>2, <1>3, GenerationsGivenUp
  <1>5. popped \in 0..Len(log')
    BY <1>1, MongoFacts
  <1> QED BY <1>1, <1>4, <1>5 DEF LogFits

(* A delivery comes into another state. *)
MarkState(l, i, st) == [l EXCEPT ![i].st = st]
LEMMA StateMarked ==
  ASSUME NEW c, NEW l \in Seq(Mongo(c)!Entry), NEW i \in DOMAIN l,
         NEW st \in {"handling", "unsaved", "refused", "retrying", "lost", "done"}
  PROVE  IsMarked(MarkState(l, i, st), Mongo(c)!Entry, l, i, st, l[i].adv)
  <1> DEFINE E == Mongo(c)!Entry
             e == [l[i] EXCEPT !.st = st]
             new == MarkState(l, i, st)
  <1>1. l[i] \in E
    OBVIOUS
  <1>2. e \in E /\ e.gen = l[i].gen /\ e.tok = l[i].tok /\ e.st = st /\ e.adv = l[i].adv
    BY <1>1 DEF Mongo!Entry, Mongo!States
  <1>3. new = [l EXCEPT ![i] = e]
    BY <1>1 DEF Mongo!Entry, Mongo!States, MarkState
  <1>4. l \in Seq(E)
    BY DEF E
  <1> HIDE DEF E, e, new
  <1>5. new \in Seq(E) /\ Len(new) = Len(l) /\ DOMAIN new = DOMAIN l /\ new[i] = e
        /\ \A j \in DOMAIN l : j # i => new[j] = l[j]
    BY <1>2, <1>3, <1>4, Replaced
  <1> QED BY <1>2, <1>5 DEF E, new, IsMarked

(* A delivery that was handled comes into another state, but is not done. *)
LEMMA GenerationsMarked ==
  ASSUME NEW E, NEW l, NEW i \in DOMAIN l, NEW g, NEW iv, NEW new, NEW st,
         IsMarked(new, E, l, i, st, l[i].adv), l[i].st # "done", Generations(l, g, iv)
  PROVE  Generations(new, g, iv) /\ DOMAIN new = DOMAIN l
  BY DEF Generations, IsMarked

(* No step breaks the invariant of the deliveries and the cursors. *)
LEMMA MongoInvStep ==
  ASSUME NEW c, MongoConfig(c), MongoInv(c), Mongo(c)!Next
  PROVE  MongoInv(c)'
  <1> USE DEF Mongo!NoStream, Mongo!NoFetch
  <1>0. Cursors(c) /\ LogFits(c, log, popped, generation, invalidated, head) /\ c.N \in Nat /\ head \in Nat
    BY MongoFacts DEF MongoInv
  <1>1. CASE Mongo(c)!Publish
    <2>1. head' = head + 1 /\ head' <= c.N /\ UNCHANGED <<store, committed, scan, stream, log, popped, generation, invalidated, fetching, asked, alive, settled, origin, raced, faults>>
      BY <1>0, <1>1 DEF Mongo!Publish, Mongo!tracker, Cursors
    <2>2. Cursors(c)'
      BY <1>0, <2>1 DEF Cursors
    <2>3. \A i \in DOMAIN log : log[i].tok <= head + 1
      BY MongoFacts
    <2>4. LogFits(c, log, popped, generation, invalidated, head')
      BY <1>0, <2>1, <2>3 DEF LogFits
    <2> QED BY <2>1, <2>2, <2>4 DEF MongoInv
  <1>2. CASE Mongo(c)!FetchStart
    <2>1. UNCHANGED <<head, store, committed, scan, log, popped, generation, invalidated, alive, settled, raced>>
      BY <1>2 DEF Mongo!FetchStart, Mongo!tracker
    <2>2. asked' \in Int
      BY <1>2, AskedIs DEF Mongo!FetchStart
    <2>3. Cursors(c)'
      BY <1>0, <1>2, <2>1, <2>2 DEF Cursors, Mongo!FetchStart
    <2> QED BY <1>0, <2>1, <2>3 DEF MongoInv
  <1>3. CASE Mongo(c)!PollReturns
    <2>1. /\ fetching # -1 /\ fetching' = -1 /\ asked' = 0 /\ log' = log \o Mongo(c)!Fetched
          /\ scan' = IF Mongo(c)!Fetched = <<>> THEN scan ELSE fetching + Len(Mongo(c)!Fetched)
          /\ UNCHANGED <<head, store, committed, stream, popped, generation, invalidated, alive, settled, origin, raced, faults>>
      BY <1>3 DEF Mongo!PollReturns
    <2>2. PICK n \in Nat : /\ fetching + n <= head /\ Len(Mongo(c)!Fetched) = n
                           /\ LogFits(c, log', popped, generation, invalidated, head)
      BY <2>1, FetchFits
    <2>3. Cursors(c)'
      BY <1>0, <2>1, <2>2 DEF Cursors
    <2> QED BY <2>1, <2>2, <2>3 DEF MongoInv
  <1>4. CASE Mongo(c)!StreamReturns
    <2>1. /\ fetching # -1 /\ fetching' = -1 /\ asked' = 0 /\ log' = log \o Mongo(c)!Fetched
          /\ stream' = IF stream = -1 THEN -1 ELSE fetching + Len(Mongo(c)!Fetched)
          /\ UNCHANGED <<head, store, committed, scan, popped, generation, invalidated, alive, settled, origin, raced, faults>>
      BY <1>4 DEF Mongo!StreamReturns
    <2>2. PICK n \in Nat : /\ fetching + n <= head /\ Len(Mongo(c)!Fetched) = n
                           /\ LogFits(c, log', popped, generation, invalidated, head)
      BY <2>1, FetchFits
    <2>3. Cursors(c)'
      BY <1>0, <2>1, <2>2 DEF Cursors
    <2> QED BY <2>1, <2>2, <2>3 DEF MongoInv
  <1>5. ASSUME Mongo(c)!Invalidated(generation, log)
        PROVE  LogFits(c, log', popped, generation', invalidated', head)
    <2>1. RetryingOr(log, generation, generation)
      BY MongoFacts DEF RetryingOr, Retrying
    <2> QED BY <1>5, <2>1, MongoFacts, GiveUpFits
  <1>6. CASE Mongo(c)!FetchFails
    <2>1. fetching' = -1 /\ asked' = 0 /\ UNCHANGED <<head, store, committed, scan, popped, alive, settled, origin, raced>> /\ stream' \in {-1, stream}
      BY <1>6 DEF Mongo!FetchFails
    <2>2. LogFits(c, log', popped, generation', invalidated', head)
      BY <1>0, <1>5, <1>6 DEF Mongo!FetchFails
    <2>3. Cursors(c)'
      BY <1>0, <2>1 DEF Cursors
    <2> QED BY <2>1, <2>2, <2>3 DEF MongoInv
  <1>7. CASE Mongo(c)!FetchBreaks
    <2>1. fetching' = -1 /\ asked' = 0 /\ alive' = FALSE /\ UNCHANGED <<head, store, committed, scan, stream, popped, settled, origin, raced>>
      BY <1>7 DEF Mongo!FetchBreaks
    <2>2. LogFits(c, log', popped, generation', invalidated', head)
      BY <1>5, <1>7 DEF Mongo!FetchBreaks
    <2>a. alive' \in BOOLEAN
      BY <2>1
    <2>3. Cursors(c)'
      BY <1>0, <2>1, <2>a DEF Cursors
    <2> QED BY <2>1, <2>2, <2>3 DEF MongoInv
  <1>8. CASE Mongo(c)!Crash
    <2>1. /\ committed' = store /\ scan' = store /\ stream' = -1 /\ log' = <<>> /\ popped' = 0 /\ generation' = 0
          /\ invalidated' = {} /\ fetching' = -1 /\ asked' = 0 /\ alive' = TRUE /\ UNCHANGED <<head, store, settled, origin, raced>>
      BY <1>8 DEF Mongo!Crash
    <2>2. LogFits(c, <<>>, 0, 0, {}, head)
      BY DEF LogFits, Generations, Retrying
    <2>3. Cursors(c)'
      BY <1>0, <2>1 DEF Cursors
    <2> QED BY <2>1, <2>2, <2>3 DEF MongoInv
  <1>9. ASSUME NEW i \in DOMAIN log, Mongo(c)!Settle(i) \/ Mongo(c)!SaveFails(i) \/ Mongo(c)!Retry(i) \/ Mongo(c)!Retried(i) \/ Mongo(c)!RetryFails(i)
        PROVE  MongoInv(c)'
    <2>0. log[i].tok \in 1..head
      BY MongoFacts, Elements
    <2>1. CASE Mongo(c)!Settle(i)
      <3>1. /\ log[i].st # "done" /\ Mongo(c)!Complete(i, TRUE) /\ settled' = settled \cup {log[i].tok}
            /\ UNCHANGED <<head, scan, stream, fetching, asked, alive, origin, raced>>
        BY <2>1 DEF Mongo!Settle
      <3>2. /\ LogFits(c, log', popped', generation', invalidated', head)
            /\ store' \in 0..head /\ committed' \in 0..head
        BY <3>1, CompleteFits
      <3>3. Cursors(c)'
        BY <1>0, <2>0, <3>1, <3>2 DEF Cursors
      <3> QED BY <3>1, <3>2, <3>3 DEF MongoInv
    <2>a. ASSUME NEW st \in {"unsaved", "refused", "lost"}, log[i].st # "done", log' = MarkState(log, i, st),
                 settled' \in {settled, settled \cup {log[i].tok}},
                 UNCHANGED <<head, store, committed, scan, stream, popped, generation, invalidated, fetching, asked, alive, origin, raced>>
          PROVE  MongoInv(c)'
      <3>1. IsMarked(log', Mongo(c)!Entry, log, i, st, log[i].adv)
        BY <2>a, MongoFacts, StateMarked
      <3>2. Generations(log', generation, invalidated)
        BY <2>a, <3>1, MongoFacts, GenerationsMarked
      <3>3. Retrying(log', generation) /\ \A j \in DOMAIN log' : log'[j].tok <= head
        BY <2>a, <3>1, MongoFacts DEF Retrying, IsMarked
      <3>4. LogFits(c, log', popped, generation, invalidated, head)
        BY <3>1, <3>2, <3>3, MongoFacts DEF LogFits, IsMarked
      <3>5. Cursors(c)'
        BY <1>0, <2>0, <2>a DEF Cursors
      <3> QED BY <2>a, <3>4, <3>5 DEF MongoInv
    <2>2. CASE Mongo(c)!SaveFails(i)
      <3>1. PICK st \in {"unsaved", "refused"} : log' = [log EXCEPT ![i].st = st]
        BY <2>2 DEF Mongo!SaveFails
      <3>2. /\ log[i].st # "done" /\ log' = MarkState(log, i, st) /\ settled' = settled \cup {log[i].tok}
            /\ UNCHANGED <<head, store, committed, scan, stream, popped, generation, invalidated, fetching, asked, alive, origin, raced>>
        BY <2>2, <3>1 DEF Mongo!SaveFails, MarkState
      <3> QED BY <2>a, <3>2
    <2>5. CASE Mongo(c)!RetryFails(i)
      <3>1. /\ log[i].st # "done" /\ log' = MarkState(log, i, "lost") /\ settled' = settled
            /\ UNCHANGED <<head, store, committed, scan, stream, popped, generation, invalidated, fetching, asked, alive, origin, raced>>
        BY <2>5 DEF Mongo!RetryFails, MarkState
      <3> QED BY <2>a, <3>1
    <2>3. CASE Mongo(c)!Retry(i)
      <3> DEFINE l == MarkState(log, i, "retrying")
      <3>1. /\ log[i].st # "done" /\ Mongo(c)!Invalidated(log[i].gen, l) /\ raced' \in BOOLEAN
            /\ UNCHANGED <<head, store, committed, popped, fetching, asked, alive, settled, origin>>
            /\ scan' \in {scan, committed} /\ stream' \in {stream, -1}
        BY <2>3 DEF Mongo!Retry, MarkState
      <3>2. IsMarked(l, Mongo(c)!Entry, log, i, "retrying", log[i].adv)
        BY MongoFacts, StateMarked
      <3> HIDE DEF l
      <3>3. Generations(l, generation, invalidated)
        BY <3>1, <3>2, MongoFacts, GenerationsMarked
      <3>4. RetryingOr(l, generation, log[i].gen)
        BY <3>2, MongoFacts DEF RetryingOr, Retrying, IsMarked
      <3>5. /\ l \in Seq(Mongo(c)!Entry) /\ Len(l) = Len(log) /\ DOMAIN l = DOMAIN log
            /\ \A j \in DOMAIN l : l[j].tok = log[j].tok /\ l[j].gen = log[j].gen
        BY <3>2 DEF IsMarked
      <3>6. LogFits(c, log', popped, generation', invalidated', head)
        BY <3>1, <3>3, <3>4, <3>5, GiveUpFits
      <3>7. Cursors(c)'
        BY <1>0, <3>1 DEF Cursors
      <3> QED BY <3>1, <3>6, <3>7 DEF MongoInv
    <2>4. CASE Mongo(c)!Retried(i)
      <3>1. /\ log[i].st # "done" /\ Mongo(c)!Complete(i, FALSE)
            /\ UNCHANGED <<head, scan, stream, fetching, asked, alive, settled, origin, raced>>
        BY <2>4 DEF Mongo!Retried
      <3>2. /\ LogFits(c, log', popped', generation', invalidated', head)
            /\ store' \in 0..head /\ committed' \in 0..head
        BY <3>1, CompleteFits
      <3>3. Cursors(c)'
        BY <1>0, <3>1, <3>2 DEF Cursors
      <3> QED BY <3>1, <3>2, <3>3 DEF MongoInv
    <2> QED BY <1>9, <2>1, <2>2, <2>3, <2>4, <2>5
  <1> QED BY <1>1, <1>2, <1>3, <1>4, <1>6, <1>7, <1>8, <1>9 DEF Mongo!Next

(* Acknowledgements of a generation that was given up do not advance the cursor. *)
LEMMA StaleDoNotAdvance ==
  ASSUME NEW c, MongoConfig(c), MongoInv(c)
  PROVE  Mongo(c)!TypeOK /\ Mongo(c)!StaleNeverAdvances
  <1>1. Mongo(c)!StaleNeverAdvances
    <2>1. \A x \in invalidated : x # generation
      BY MongoFacts
    <2> QED BY <2>1, MongoFacts DEF Mongo!StaleNeverAdvances, Generations
  <1>2. Mongo(c)!TypeOK
    BY MongoFacts DEF Mongo!TypeOK, MongoInv, Cursors, Mongo!NoStream, Mongo!NoFetch
  <1> QED BY <1>1, <1>2
--------------------------------------------------------------------------------
(* The numbers of the deliveries. *)
Numbers(l, len) == DOMAIN l = 1..len /\ \A i \in 1..len : l[i].gen \in Nat /\ l[i].tok \in Nat

(* The order of len deliveries, with p of them gone and the cursor at cm. *)
Ranked(l, len, g, p, cm, sd) == Numbers(l, len) /\ InOrder(l) /\ Follows(l, p, g, cm) /\ DoneIs(l, g, sd)

(* Deliveries are added where the last fetch ended. *)
At(l, len, g, cm, from) == from = Position(l, len, g, cm) /\ Current(l, g)
LEMMA OrderAdded ==
  ASSUME NEW l, NEW len \in Nat, NEW g \in Nat, NEW iv, NEW new, NEW n \in Nat, NEW cm \in Nat, NEW p \in 0..len,
         NEW from \in Nat, NEW sd, IsAdded(new, l, len, g, from, n), At(l, len, g, cm, from),
         Generations(l, g, iv), Ranked(l, len, g, p, cm, sd)
  PROVE  Ranked(new, len + n, g, p, cm, sd) /\ Position(new, len + n, g, cm) = from + n
  <1> USE DEF Ranked, At
  <1>0. \A i \in 1..(len + n) : i \in 1..len \/ (i > len /\ i - len <= n)
    OBVIOUS
  <1>1. \A i \in 1..len : l[i].gen = g => l[len].gen = g /\ from = l[i].tok + (len - i)
    <2> SUFFICES ASSUME NEW i \in 1..len, l[i].gen = g PROVE l[len].gen = g /\ from = l[i].tok + (len - i)
      OBVIOUS
    <2>1. CASE i = len
      BY <2>1 DEF Position, Numbers
    <2>2. CASE i < len
      <3>1. l[i].gen <= l[len].gen /\ (l[i].gen = l[len].gen => l[len].tok = l[i].tok + (len - i))
        <4>1. i \in DOMAIN l /\ len \in DOMAIN l
          BY <2>2 DEF Numbers
        <4> QED BY <2>2, <4>1 DEF InOrder
      <3>2. l[len].gen = g
        <4>1. len \in DOMAIN l /\ l[len].gen \in Nat
          BY <2>2 DEF Numbers
        <4> QED BY <3>1, <4>1 DEF Generations
      <3> QED BY <3>1, <3>2 DEF Position
    <2> QED BY <2>1, <2>2
  <1>2. InOrder(new)
    <2> SUFFICES ASSUME NEW i \in 1..(len + n), NEW j \in 1..(len + n), i < j
                 PROVE  /\ new[i].gen <= new[j].gen
                        /\ new[i].gen < new[j].gen => new[i].st = "done"
                        /\ new[i].gen = new[j].gen => new[j].tok = new[i].tok + (j - i)
      BY DEF IsAdded, InOrder
    <2>1. CASE j <= len
      <3>1. i \in DOMAIN l /\ j \in DOMAIN l /\ new[i] = l[i] /\ new[j] = l[j]
        BY <2>1 DEF IsAdded
      <3> QED BY <3>1 DEF InOrder
    <2>2. CASE i <= len /\ j > len
      <3>1. new[i] = l[i] /\ new[j].gen = g /\ new[j].tok = from + (j - len)
        BY <2>2 DEF IsAdded
      <3>2. l[i].gen <= g /\ l[i].gen \in Nat /\ l[i].tok \in Nat /\ (l[i].gen # g => l[i].st = "done")
        <4>1. i \in DOMAIN l /\ l[i].gen \in Nat /\ l[i].tok \in Nat
          BY <2>2 DEF Numbers
        <4> QED BY <4>1 DEF Generations, Current
      <3>3. l[i].gen = g => from = l[i].tok + (len - i)
        BY <1>1, <2>2
      <3> QED BY <3>1, <3>2, <3>3
    <2>3. CASE i > len
      BY <2>3 DEF IsAdded
    <2> QED BY <2>1, <2>2, <2>3
  <1>3. Follows(new, p, g, cm)
    <2>1. \A i \in 1..p : new[i].st = "done"
      BY DEF Follows, IsAdded
    <2>2. p > 0 /\ new[p].gen = g => cm = new[p].tok
      BY DEF Follows, IsAdded
    <2>3. ASSUME NEW i \in 1..(len + n), i > p, new[i].gen = g, i = 1 \/ new[i - 1].gen # g
          PROVE  new[i].tok = cm + 1
      <3>1. CASE i <= len
        <4>1. new[i] = l[i] /\ (i # 1 => new[i - 1] = l[i - 1])
          BY <3>1 DEF IsAdded
        <4>2. Follows(l, p, g, cm) /\ i \in DOMAIN l
          BY <3>1 DEF Numbers
        <4> HIDE DEF Ranked, At
        <4> QED BY <2>3, <4>1, <4>2 DEF Follows
      <3>2. CASE i > len
        <4>1. i = len + 1
          BY <2>3, <3>2 DEF IsAdded
        <4>2. len = 0 \/ l[len].gen # g
          BY <2>3, <4>1 DEF IsAdded
        <4>3. from = cm
          BY <4>2 DEF Position
        <4> QED BY <4>1, <4>3 DEF IsAdded
      <3> QED BY <3>1, <3>2
    <2> QED BY <2>1, <2>2, <2>3 DEF Follows, IsAdded
  <1>4. DoneIs(new, g, sd)
    BY <1>0 DEF DoneIs, IsAdded
  <1>5. Position(new, len + n, g, cm) = from + n
    <2>1. CASE n = 0
      BY <2>1 DEF Position, IsAdded
    <2>2. CASE n > 0
      <3>1. new[len + n].gen = g /\ new[len + n].tok = from + ((len + n) - len)
        BY <2>2 DEF IsAdded
      <3> QED BY <2>2, <3>1 DEF Position
    <2> QED BY <2>1, <2>2
  <1>6. Numbers(new, len + n)
    BY <1>0 DEF Numbers, IsAdded
  <1> QED BY <1>2, <1>3, <1>4, <1>5, <1>6

(* A delivery comes into another state, but is not done. *)
LEMMA OrderMarked ==
  ASSUME NEW E, NEW l, NEW len \in Nat, NEW i \in DOMAIN l, NEW g, NEW new, NEW st, NEW cm, NEW p \in 0..len, NEW sd,
         IsMarked(new, E, l, i, st, l[i].adv), l[i].st # "done", st # "done", Ranked(l, len, g, p, cm, sd)
  PROVE  /\ Ranked(new, len, g, p, cm, sd)
         /\ Position(new, len, g, cm) = Position(l, len, g, cm) /\ (NoneYet(l, len, g) => NoneYet(new, len, g))
  <1> USE DEF Ranked
  <1>1. /\ DOMAIN new = DOMAIN l /\ DOMAIN l = 1..len
        /\ \A j \in 1..len : /\ new[j].gen = l[j].gen /\ new[j].tok = l[j].tok /\ new[j].adv = l[j].adv
                             /\ new[j].st = "done" <=> l[j].st = "done"
    BY DEF IsMarked, Numbers
  <1>2. InOrder(new)
    BY <1>1 DEF InOrder
  <1>3. Follows(new, p, g, cm)
    <2>1. \A j \in 1..p : j \in 1..len
      OBVIOUS
    <2>2. \A j \in 1..len : j = 1 \/ j - 1 \in 1..len
      OBVIOUS
    <2>3. \A j \in 1..p : new[j].st = "done"
      BY <1>1, <2>1 DEF Follows
    <2>4. p > 0 /\ new[p].gen = g => cm = new[p].tok
      BY <1>1 DEF Follows
    <2>5. \A j \in 1..len : j > p /\ new[j].gen = g /\ (j = 1 \/ new[j - 1].gen # g) => new[j].tok = cm + 1
      BY <1>1, <2>2 DEF Follows
    <2> QED BY <1>1, <2>3, <2>4, <2>5 DEF Follows
  <1>4. DoneIs(new, g, sd)
    BY <1>1 DEF DoneIs
  <1>5. Numbers(new, len)
    BY <1>1 DEF Numbers
  <1>6. Position(new, len, g, cm) = Position(l, len, g, cm)
    BY <1>1 DEF Position
  <1>7. NoneYet(l, len, g) => NoneYet(new, len, g)
    BY <1>1 DEF NoneYet
  <1> QED BY <1>2, <1>3, <1>4, <1>5, <1>6, <1>7

(* A generation is given up: the next fetch begins after the saved cursor. *)
LEMMA OrderGivenUp ==
  ASSUME NEW l, NEW len \in Nat, NEW gen, NEW g \in Nat, NEW iv, NEW new, NEW ng, NEW niv, NEW cm, NEW p \in 0..len, NEW sd,
         IsGivenUp(new, l, gen, g, iv, ng, niv), Numbers(l, len), Generations(l, g, iv),
         InOrder(l), Follows(l, p, g, cm), DoneIs(l, g, sd), gen = g \/ NoneYet(l, len, g)
  PROVE  InOrder(new) /\ Follows(new, p, ng, cm) /\ DoneIs(new, ng, sd) /\ NoneYet(new, len, ng)
  <1>1. CASE gen # g
    BY <1>1 DEF IsGivenUp
  <1>2. CASE gen = g
    <2>1. /\ DOMAIN new = 1..len /\ DOMAIN l = 1..len /\ ng = g + 1
          /\ \A i \in 1..len : new[i].gen = l[i].gen /\ new[i].tok = l[i].tok /\ new[i].st = l[i].st
      BY <1>2 DEF IsGivenUp, Numbers
    <2>2. InOrder(new)
      BY <2>1 DEF InOrder
    <2>3. \A i \in 1..len : new[i].gen # ng
      BY <2>1 DEF Generations, Numbers
    <2>4. Follows(new, p, ng, cm)
      <3>1. \A i \in 1..p : new[i].st = "done"
        BY <2>1 DEF Follows
      <3>2. p > 0 => new[p].gen # ng
        BY <2>3
      <3> QED BY <2>1, <2>3, <3>1, <3>2 DEF Follows
    <2>5. DoneIs(new, ng, sd)
      BY <2>1, <2>3 DEF DoneIs
    <2>6. NoneYet(new, len, ng)
      BY <2>3 DEF NoneYet
    <2> QED BY <2>2, <2>4, <2>5, <2>6
  <1> QED BY <1>1, <1>2

(* Of the current generation, what follows the saved cursor has consecutive numbers. *)
Run(l, b, j, g, cm) == \A x \in (b + 1)..j : l[x].gen = g /\ l[x].tok = cm + (x - b)
LEMMA Consecutive ==
  ASSUME NEW l, NEW len \in Nat, NEW g \in Nat, NEW cm \in Nat, NEW p \in 0..len, NEW j \in 1..len, p < j,
         Numbers(l, len), InOrder(l), Follows(l, p, g, cm), l[j].gen = g, NEW iv, Generations(l, g, iv)
  PROVE  \E b \in p..(j - 1) : Run(l, b, j, g, cm)
  <1> USE DEF Run
  <1>0. DOMAIN l = 1..len /\ \A x \in 1..len : l[x].gen \in Nat /\ l[x].tok \in Nat /\ l[x].gen <= g
    BY DEF Numbers, Generations
  <1>1. \A x, y \in 1..len : /\ x < y => l[x].gen <= l[y].gen
                             /\ x < y /\ l[x].gen = l[y].gen => l[y].tok = l[x].tok + (y - x)
    BY <1>0 DEF InOrder
  <1>2. ASSUME NEW f \in 1..len, f <= j, l[f].gen = g
        PROVE  \A x \in f..j : l[x].gen = g /\ l[x].tok = l[f].tok + (x - f)
    <2> SUFFICES ASSUME NEW x \in f..j PROVE l[x].gen = g /\ l[x].tok = l[f].tok + (x - f)
      OBVIOUS
    <2>1. x \in 1..len /\ (x = f \/ f < x)
      OBVIOUS
    <2>2. l[x].gen = g
      <3>1. l[f].gen <= l[x].gen
        BY <1>0, <1>1, <2>1
      <3>2. l[x].gen <= g /\ l[x].gen \in Nat
        BY <1>0, <2>1
      <3> QED BY <1>2, <3>1, <3>2
    <2>3. l[x].tok = l[f].tok + (x - f)
      BY <1>0, <1>1, <1>2, <2>1, <2>2
    <2> QED BY <2>2, <2>3
  <1>3. CASE p > 0 /\ l[p].gen = g
    <2>1. cm = l[p].tok /\ p \in 1..len
      BY <1>3 DEF Follows
    <2>2. \A x \in p..j : l[x].gen = g /\ l[x].tok = cm + (x - p)
      BY <1>2, <1>3, <2>1
    <2> QED BY <2>2
  <1>4. CASE ~(p > 0 /\ l[p].gen = g)
    <2> DEFINE S == {x \in (p + 1)..j : l[x].gen = g}
    <2>1. S \in SUBSET Nat /\ S # {}
      <3>1. j \in S
        OBVIOUS
      <3> QED BY <3>1
    <2>2. PICK f \in S : \A y \in S : f <= y
      BY <2>1, SmallestNumber
    <2>3. f \in 1..len /\ f > p /\ f <= j /\ l[f].gen = g
      OBVIOUS
    <2>4. f = 1 \/ l[f - 1].gen # g
      <3>1. CASE f - 1 = p
        BY <1>4, <2>3, <3>1
      <3>2. CASE f - 1 > p
        <4>1. f - 1 \in (p + 1)..j /\ ~(f <= f - 1)
          BY <2>3, <3>2
        <4> QED BY <2>2, <4>1
      <3> QED BY <2>3, <3>1, <3>2
    <2>5. l[f].tok = cm + 1
      BY <1>0, <2>3, <2>4 DEF Follows
    <2>6. \A x \in f..j : l[x].gen = g /\ l[x].tok = (cm + 1) + (x - f)
      BY <1>2, <2>3, <2>5
    <2>7. f - 1 \in p..(j - 1) /\ (f - 1) + 1 = f
      BY <2>3
    <2>8. \A x \in f..j : (cm + 1) + (x - f) = cm + (x - (f - 1))
      BY <2>3
    <2>9. \A x \in ((f - 1) + 1)..j : l[x].gen = g /\ l[x].tok = cm + (x - (f - 1))
      BY <2>6, <2>7, <2>8
    <2> QED BY <2>7, <2>9
  <1> QED BY <1>3, <1>4

(* A delivery of the current generation counts: it advances and is settled. *)
Counts(l, i, g, a, sd) == l[i].gen = g => a /\ l[i].tok \in sd

(* The order of the deliveries, and what the cursor covers. *)
Tidy(l, len, g, p, cm, o, sd) == Ranked(l, len, g, p, cm, sd) /\ Covered(o, cm, sd)

(* The cursor goes on, and the position of the next fetch stays. *)
GoesOn(new, l, len, g, cm, nst, ncm) ==
  /\ Position(new, len, g, ncm) = Position(l, len, g, cm) /\ nst = ncm /\ ncm \in Nat /\ ncm >= cm
  /\ NoneYet(l, len, g) => NoneYet(new, len, g)

(* A delivery is completed: the cursor moves on over what is done and settled. *)
LEMMA OrderCompleted ==
  ASSUME NEW l, NEW len \in Nat, NEW g \in Nat, NEW iv, NEW niv, NEW new, NEW i \in 1..len, NEW a, NEW cm \in Nat,
         NEW ncm, NEW nst, NEW p \in 0..len, NEW np, NEW nsd, NEW o \in Nat,
         IsCompleted(new, l, i, a, iv, niv), IsSaved(new, len, p, np, cm, cm, nst, ncm), l[i].st # "done",
         Counts(l, i, g, a, nsd), g \notin iv, Generations(new, g, niv), Tidy(l, len, g, p, cm, o, nsd)
  PROVE  Tidy(new, len, g, np, ncm, o, nsd) /\ GoesOn(new, l, len, g, cm, nst, ncm)
  <1> USE DEF Covered, Counts
  <1>0. Numbers(l, len) /\ InOrder(l) /\ Follows(l, p, g, cm) /\ DoneIs(l, g, nsd) /\ Covered(o, cm, nsd)
    BY DEF Tidy, Ranked
  <1>1. /\ DOMAIN new = 1..len /\ DOMAIN l = 1..len
        /\ \A j \in 1..len : /\ new[j].gen = l[j].gen /\ new[j].tok = l[j].tok
                             /\ l[j].st = "done" => new[j].st = "done"
                             /\ new[j].gen \in Nat /\ new[j].tok \in Nat /\ new[j].gen <= g
                             /\ new[j].adv => new[j].gen = g
    BY <1>0 DEF IsCompleted, Numbers, Generations
  <1>2. i > p
    BY <1>0 DEF Follows
  <1>3. Numbers(new, len)
    BY <1>1 DEF Numbers
  <1>4. InOrder(new)
    <2> SUFFICES ASSUME NEW x \in 1..len, NEW y \in 1..len, x < y
                 PROVE  /\ new[x].gen <= new[y].gen
                        /\ new[x].gen < new[y].gen => new[x].st = "done"
                        /\ new[x].gen = new[y].gen => new[y].tok = new[x].tok + (y - x)
      BY <1>1 DEF InOrder
    <2>1. /\ l[x].gen <= l[y].gen
          /\ l[x].gen < l[y].gen => l[x].st = "done"
          /\ l[x].gen = l[y].gen => l[y].tok = l[x].tok + (y - x)
      BY <1>0, <1>1 DEF InOrder
    <2> QED BY <1>1, <2>1
  <1>5. DoneIs(new, g, nsd)
    <2> SUFFICES ASSUME NEW j \in 1..len, new[j].gen = g, new[j].st = "done" PROVE new[j].adv /\ new[j].tok \in nsd
      BY <1>1 DEF DoneIs
    <2>1. CASE j = i
      <3>1. l[i].gen = g
        BY <1>1, <2>1
      <3> QED BY <1>1, <2>1, <3>1 DEF IsCompleted
    <2>2. CASE j # i
      <3>1. new[j] = l[j]
        BY <1>1, <2>2 DEF IsCompleted
      <3> QED BY <1>0, <1>1, <3>1 DEF DoneIs
    <2> QED BY <2>1, <2>2
  <1>6. Follows(new, p, g, cm)
    <2>1. \A j \in 1..len : j = 1 \/ j - 1 \in 1..len
      OBVIOUS
    <2>2. \A j \in 1..p : new[j].st = "done"
      BY <1>0, <1>1 DEF Follows
    <2>3. p > 0 /\ new[p].gen = g => cm = new[p].tok
      BY <1>0, <1>1 DEF Follows
    <2>4. \A j \in 1..len : j > p /\ new[j].gen = g /\ (j = 1 \/ new[j - 1].gen # g) => new[j].tok = cm + 1
      BY <1>0, <1>1, <2>1 DEF Follows
    <2> QED BY <1>1, <2>2, <2>3, <2>4 DEF Follows
  <1>7. /\ np \in p..len /\ \A j \in (p + 1)..np : new[j].st = "done"
        /\ \/ nst = cm /\ ncm = cm /\ \A j \in (p + 1)..np : ~new[j].adv
           \/ \E j \in (p + 1)..np :
                /\ new[j].adv /\ \A x \in (j + 1)..np : ~new[x].adv
                /\ nst = new[j].tok /\ ncm = new[j].tok
    BY DEF IsSaved
  <1>8. /\ nst = ncm /\ ncm \in Nat /\ ncm >= cm
        /\ \A d \in (o + 1)..ncm : d \in nsd
    <2>1. CASE nst = cm /\ ncm = cm
      BY <1>0, <2>1
    <2>2. ASSUME NEW j \in (p + 1)..np, new[j].adv, nst = new[j].tok, ncm = new[j].tok
          PROVE  nst = ncm /\ ncm \in Nat /\ ncm >= cm /\ \A d \in (o + 1)..ncm : d \in nsd
      <3>1. j \in 1..len /\ p < j /\ new[j].gen = g
        BY <1>1, <1>7, <2>2
      <3>2a. PICK b \in p..(j - 1) : Run(new, b, j, g, cm)
        BY <1>3, <1>4, <1>6, <3>1, Consecutive
      <3>2. \A x \in (b + 1)..j : new[x].gen = g /\ new[x].tok = cm + (x - b)
        BY <3>2a DEF Run
      <3>3. ncm = cm + (j - b) /\ b \in Nat /\ j \in Nat /\ b < j
        BY <2>2, <3>1, <3>2
      <3>4. ASSUME NEW d \in (o + 1)..ncm PROVE d \in nsd
        <4>1. CASE d <= cm
          BY <1>0, <4>1
        <4>2. CASE d > cm
          <5>1. b + (d - cm) \in (b + 1)..j
            BY <3>3, <4>2
          <5>2. new[b + (d - cm)].gen = g /\ new[b + (d - cm)].tok = cm + ((b + (d - cm)) - b)
            BY <3>2, <5>1
          <5>3. b + (d - cm) \in (p + 1)..np /\ b + (d - cm) \in 1..len
            BY <1>7, <3>1, <3>3, <5>1
          <5>4. new[b + (d - cm)].tok \in nsd
            BY <1>1, <1>5, <1>7, <5>2, <5>3 DEF DoneIs
          <5>5. cm + ((b + (d - cm)) - b) = d
            BY <3>3
          <5> QED BY <5>2, <5>4, <5>5
        <4> QED BY <3>3, <4>1, <4>2
      <3> QED BY <2>2, <3>3, <3>4
    <2> QED BY <1>7, <2>1, <2>2
  <1>9. ASSUME NEW k \in 1..len, k >= np, new[k].gen # g
        PROVE  ncm = cm
    <2>1. CASE nst = cm /\ ncm = cm
      BY <2>1
    <2>2. ASSUME NEW j \in (p + 1)..np, new[j].adv PROVE FALSE
      <3>1. j \in 1..len /\ new[j].gen = g /\ j <= k
        BY <1>1, <1>7, <1>9, <2>2
      <3>2. new[j].gen <= new[k].gen
        <4>1. CASE j < k
          BY <1>1, <1>4, <3>1, <4>1 DEF InOrder
        <4>2. CASE j = k
          BY <1>1, <3>1, <4>2
        <4> QED BY <3>1, <4>1, <4>2
      <3> QED BY <1>1, <1>9, <3>1, <3>2
    <2> QED BY <1>7, <2>1, <2>2
  <1>10. Follows(new, np, g, ncm)
    <2>1. \A j \in 1..np : new[j].st = "done"
      BY <1>6, <1>7 DEF Follows
    <2>2. ASSUME np > 0, new[np].gen = g PROVE ncm = new[np].tok
      <3>1. CASE np = p
        <4>1. ncm = cm
          BY <1>7, <3>1
        <4> QED BY <1>6, <2>2, <3>1, <4>1 DEF Follows
      <3>2. CASE np > p
        <4>1. np \in (p + 1)..np /\ np \in 1..len
          BY <1>7, <3>2
        <4>2. new[np].adv
          BY <1>1, <1>5, <1>7, <2>2, <4>1 DEF DoneIs
        <4>3. \A j \in (p + 1)..np : j = np \/ np \in (j + 1)..np
          BY <4>1
        <4> QED BY <1>7, <4>1, <4>2, <4>3
      <3> QED BY <1>7, <3>1, <3>2
    <2>3. ASSUME NEW j \in 1..len, j > np, new[j].gen = g, j = 1 \/ new[j - 1].gen # g
          PROVE  new[j].tok = ncm + 1
      <3>1. new[j].tok = cm + 1
        <4>1. j \in DOMAIN new /\ j > p
          BY <1>1, <1>7, <2>3
        <4> QED BY <1>6, <2>3, <4>1 DEF Follows
      <3>2. CASE j = 1
        <4>1. np = p /\ p = 0
          BY <1>7, <2>3, <3>2
        <4> QED BY <1>7, <3>1, <4>1
      <3>3. CASE j # 1
        <4>1. j - 1 \in 1..len /\ j - 1 >= np
          BY <1>7, <2>3, <3>3
        <4> QED BY <1>9, <2>3, <3>1, <3>3, <4>1
      <3> QED BY <3>2, <3>3
    <2> QED BY <1>1, <2>1, <2>2, <2>3 DEF Follows
  <1>11. Position(new, len, g, ncm) = Position(l, len, g, cm)
    <2>1. len \in 1..len
      OBVIOUS
    <2>2. CASE new[len].gen = g
      BY <1>1, <2>1, <2>2 DEF Position
    <2>3. CASE new[len].gen # g
      <3>1. ncm = cm
        BY <1>7, <1>9, <2>1, <2>3
      <3> QED BY <1>1, <2>1, <2>3, <3>1 DEF Position
    <2> QED BY <2>2, <2>3
  <1>12. NoneYet(l, len, g) => NoneYet(new, len, g)
    BY <1>1 DEF NoneYet
  <1> QED BY <1>3, <1>4, <1>5, <1>8, <1>10, <1>11, <1>12 DEF Tidy, Ranked, GoesOn

(* The source begins, or begins again, with what was saved. *)
LEMMA OrderInvInit ==
  ASSUME NEW c, OrderedConfig(c), Mongo(c)!Init
  PROVE  OrderInv(c)
  <1>1. /\ log = <<>> /\ popped = 0 /\ generation = 0 /\ head = c.Saved /\ store = c.Saved /\ committed = c.Saved
        /\ scan = c.Saved /\ stream = -1 /\ fetching = -1 /\ origin = c.Saved /\ c.Saved \in Nat
    BY DEF Mongo!Init, Mongo!NoStream, Mongo!NoFetch, OrderedConfig, MongoConfig
  <1>2. /\ InOrder(log) /\ Follows(log, popped, generation, committed) /\ DoneIs(log, generation, settled)
        /\ NoneYet(log, Len(log), generation) /\ Position(log, Len(log), generation, committed) = committed
    BY <1>1 DEF InOrder, Follows, DoneIs, Position, NoneYet
  <1>3. Covered(origin, store, settled)
    BY <1>1 DEF Covered
  <1> QED BY <1>1, <1>2, <1>3 DEF OrderInv, OrderHeld, OrderedConfig

(* The facts of the order that the steps below use. *)
LEMMA OrderFacts ==
  ASSUME NEW c, OrderedConfig(c), MongoInv(c), OrderHeld(c)
  PROVE  /\ MongoConfig(c) /\ committed \in Nat /\ store = committed /\ origin \in Nat
         /\ Numbers(log, Len(log)) /\ InOrder(log) /\ Follows(log, popped, generation, committed)
         /\ DoneIs(log, generation, settled) /\ Covered(origin, committed, settled)
  <1>1. MongoConfig(c)
    BY DEF OrderedConfig, MongoConfig
  <1>2. committed \in Nat /\ store = committed /\ origin \in Nat
    BY <1>1 DEF MongoInv, Cursors, OrderHeld, MongoConfig
  <1>3. Numbers(log, Len(log))
    BY <1>1, MongoFacts DEF Numbers
  <1> QED BY <1>1, <1>2, <1>3 DEF OrderHeld, Covered

(* A delivery is completed, also while a fetch is awaited. *)
LEMMA OrderComplete ==
  ASSUME NEW c, OrderedConfig(c), MongoInv(c), OrderHeld(c), NEW i \in DOMAIN log, NEW advance \in BOOLEAN,
         log[i].st # "done", Mongo(c)!Complete(i, advance), settled \subseteq settled',
         Counts(log, i, generation, advance, settled'),
         UNCHANGED <<head, scan, stream, fetching, origin>>
  PROVE  OrderHeld(c)' /\ store' >= store
  <1>0. /\ MongoConfig(c) /\ committed \in Nat /\ store = committed /\ origin \in Nat
        /\ Numbers(log, Len(log)) /\ InOrder(log) /\ Follows(log, popped, generation, committed)
        /\ DoneIs(log, generation, settled) /\ Covered(origin, committed, settled)
    BY OrderFacts
  <1>1. /\ c.N \in Nat /\ log \in Seq(Mongo(c)!Entry) /\ DOMAIN log = 1..Len(log) /\ Len(log) \in Nat
        /\ popped \in 0..Len(log) /\ generation \in Nat /\ invalidated \subseteq 0..(generation - 1)
    BY <1>0, MongoFacts
  <1>2. /\ Len(log') = Len(log) /\ generation' = generation
        /\ IsCompleted(log', log, i, advance, invalidated, invalidated')
        /\ IsSaved(log', Len(log), popped, popped', committed, committed, store', committed')
    BY <1>0, <1>1, CompletedIs
  <1>3. Generations(log', generation, invalidated')
    <2>1. LogFits(c, log', popped', generation', invalidated', head)
      BY <1>0, CompleteFits
    <2> QED BY <1>2, <2>1 DEF LogFits
  <1>4. i \in 1..Len(log) /\ generation \notin invalidated
    BY <1>1
  <1>5. DoneIs(log, generation, settled') /\ Covered(origin, committed, settled')
    BY <1>0 DEF DoneIs, Covered
  <1>6. /\ InOrder(log') /\ Follows(log', popped', generation, committed') /\ DoneIs(log', generation, settled')
        /\ Position(log', Len(log), generation, committed') = Position(log, Len(log), generation, committed)
        /\ store' = committed' /\ committed' \in Nat /\ committed' >= committed
        /\ Covered(origin, committed', settled')
        /\ NoneYet(log, Len(log), generation) => NoneYet(log', Len(log), generation)
    <2>1. Tidy(log, Len(log), generation, popped, committed, origin, settled')
      BY <1>0, <1>5 DEF Tidy, Ranked
    <2>2. /\ Tidy(log', Len(log), generation, popped', committed', origin, settled')
          /\ GoesOn(log', log, Len(log), generation, committed, store', committed')
      BY <1>0, <1>1, <1>2, <1>3, <1>4, <2>1, OrderCompleted
    <2> QED BY <2>2 DEF Tidy, Ranked, GoesOn
  <1>7. Covered(origin', store', settled')
    BY <1>6 DEF Covered
  <1>8. IF c.Stream /\ stream' = -1 THEN NoneYet(log', Len(log'), generation')
        ELSE Position(log', Len(log'), generation', committed') = (IF c.Stream THEN stream' ELSE scan')
    <2>1. IF c.Stream /\ stream = -1 THEN NoneYet(log, Len(log), generation)
          ELSE Position(log, Len(log), generation, committed) = (IF c.Stream THEN stream ELSE scan)
      BY DEF OrderHeld
    <2>2. Len(log') = Len(log) /\ generation' = generation /\ stream' = stream /\ scan' = scan
      BY <1>2
    <2> QED BY <1>6, <2>1, <2>2
  <1>9. committed' = store' /\ origin' = c.Saved /\ origin' <= store' /\ (c.Stream => store' > 0) /\ store' >= store
    <2>1. origin = c.Saved /\ origin <= store /\ (c.Stream => store > 0) /\ origin' = origin
      BY DEF OrderHeld
    <2> QED BY <1>0, <1>6, <2>1
  <1>10. fetching' # -1 => /\ fetching' = Position(log', Len(log'), generation', committed')
                           /\ Current(log', generation') /\ (c.Stream => stream' # -1)
    <2>1. fetching # -1 => /\ fetching = Position(log, Len(log), generation, committed)
                           /\ Current(log, generation) /\ (c.Stream => stream # -1)
      BY DEF OrderHeld
    <2>2. Current(log, generation) => Current(log', generation)
      BY <1>2 DEF Current, IsCompleted
    <2> QED BY <1>2, <1>6, <2>1, <2>2
  <1> QED BY <1>2, <1>6, <1>7, <1>8, <1>9, <1>10 DEF OrderHeld


(* Deliveries join the current generation where the last fetch ended. *)
LEMMA OrderJoined ==
  ASSUME NEW c, OrderedConfig(c), MongoInv(c), OrderHeld(c), fetching # -1, NEW new, NEW n \in Nat,
         IsAdded(new, log, Len(log), generation, fetching, n)
  PROVE  /\ Ranked(new, Len(log) + n, generation, popped, committed, settled)
         /\ Position(new, Len(log) + n, generation, committed) = fetching + n
  <1>0. MongoConfig(c) /\ committed \in Nat /\ Ranked(log, Len(log), generation, popped, committed, settled)
    BY OrderFacts DEF Ranked
  <1>1. /\ Len(log) \in Nat /\ popped \in 0..Len(log) /\ generation \in Nat
        /\ Generations(log, generation, invalidated)
    BY <1>0, MongoFacts
  <1>2. fetching \in Nat /\ At(log, Len(log), generation, committed, fetching)
    BY DEF OrderHeld, MongoInv, Cursors, At
  <1> QED BY <1>0, <1>1, <1>2, OrderAdded
LEMMA OrderFetched ==
  ASSUME NEW c, OrderedConfig(c), MongoInv(c), OrderHeld(c), fetching # -1, log' = log \o Mongo(c)!Fetched
  PROVE  \E n \in Nat :
           /\ fetching + n <= head /\ Len(Mongo(c)!Fetched) = n /\ (Mongo(c)!Fetched = <<>> <=> n = 0)
           /\ InOrder(log') /\ Follows(log', popped, generation, committed) /\ DoneIs(log', generation, settled)
           /\ Position(log', Len(log'), generation, committed) = fetching + n
  <1>1. MongoConfig(c)
    BY OrderFacts
  <1>2. PICK n \in Nat :
           /\ fetching + n <= head /\ Len(Mongo(c)!Fetched) = n /\ (Mongo(c)!Fetched = <<>> <=> n = 0)
           /\ Len(log') = Len(log) + n /\ IsAdded(log', log, Len(log), generation, fetching, n)
    BY <1>1, FetchFits
  <1>3. /\ Ranked(log', Len(log) + n, generation, popped, committed, settled)
        /\ Position(log', Len(log) + n, generation, committed) = fetching + n
    BY <1>2, OrderJoined
  <1> QED BY <1>2, <1>3 DEF Ranked

(* A generation is given up: the next fetch begins after the saved cursor. *)
LEMMA OrderGiveUp ==
  ASSUME NEW c, OrderedConfig(c), MongoInv(c), OrderHeld(c), NEW gen, NEW l \in Seq(Mongo(c)!Entry),
         Len(l) = Len(log), Numbers(l, Len(log)), Generations(l, generation, invalidated), Mongo(c)!Invalidated(gen, l),
         InOrder(l), Follows(l, popped, generation, committed), DoneIs(l, generation, settled),
         gen = generation \/ NoneYet(l, Len(log), generation)
  PROVE  /\ InOrder(log') /\ Follows(log', popped, generation', committed) /\ DoneIs(log', generation', settled)
         /\ NoneYet(log', Len(log'), generation')
         /\ Position(log', Len(log'), generation', committed) = committed
  <1>1. Len(log) \in Nat /\ popped \in 0..Len(log) /\ generation \in Nat
    BY OrderFacts, MongoFacts
  <1>2. /\ Len(log') = Len(l)
        /\ IsGivenUp(log', l, gen, generation, invalidated, generation', invalidated')
    BY GivenUp
  <1>3. /\ InOrder(log') /\ Follows(log', popped, generation', committed) /\ DoneIs(log', generation', settled)
        /\ NoneYet(log', Len(log), generation')
    BY <1>1, <1>2, OrderGivenUp
  <1> QED BY <1>2, <1>3 DEF Position, NoneYet

(* No step breaks the order, or moves the saved cursor back. *)
LEMMA OrderInvStep ==
  ASSUME NEW c, OrderedConfig(c), MongoInv(c), OrderHeld(c), Mongo(c)!Next, ~raced'
  PROVE  OrderHeld(c)' /\ store' >= store
  <1> USE DEF Mongo!NoStream, Mongo!NoFetch
  <1>0. /\ MongoConfig(c) /\ committed \in Nat /\ store = committed /\ origin \in Nat
        /\ Numbers(log, Len(log)) /\ InOrder(log) /\ Follows(log, popped, generation, committed)
        /\ DoneIs(log, generation, settled) /\ Covered(origin, committed, settled)
    BY OrderFacts
  <1>a. /\ log \in Seq(Mongo(c)!Entry) /\ DOMAIN log = 1..Len(log) /\ Len(log) \in Nat
        /\ popped \in 0..Len(log) /\ generation \in Nat /\ invalidated \subseteq 0..(generation - 1)
        /\ Generations(log, generation, invalidated) /\ Retrying(log, generation)
        /\ \A i \in DOMAIN log : log[i].gen \in Nat
    BY <1>0, MongoFacts
  <1>b. /\ origin = c.Saved /\ origin <= store /\ (c.Stream => store > 0) /\ Covered(origin, store, settled)
        /\ IF c.Stream /\ stream = -1 THEN NoneYet(log, Len(log), generation)
           ELSE Position(log, Len(log), generation, committed) = (IF c.Stream THEN stream ELSE scan)
        /\ fetching # -1 => /\ fetching = Position(log, Len(log), generation, committed)
                            /\ Current(log, generation) /\ (c.Stream => stream # -1)
    BY DEF OrderHeld
  <1>1. CASE Mongo(c)!Publish
    <2>1. UNCHANGED <<store, committed, scan, stream, log, popped, generation, invalidated, fetching, alive, settled, origin, faults>>
      BY <1>1 DEF Mongo!Publish, Mongo!tracker
    <2> QED BY <1>0, <2>1 DEF OrderHeld, Covered
  <1>2. CASE Mongo(c)!FetchStart
    <2>1. UNCHANGED <<head, store, committed, scan, log, popped, generation, invalidated, alive, settled>>
      BY <1>2 DEF Mongo!FetchStart, Mongo!tracker
    <2>2. origin' = origin /\ stream' = (IF c.Stream /\ stream = -1 THEN committed ELSE stream)
      BY <1>0, <1>2, <1>b DEF Mongo!FetchStart
    <2>3. fetching' = IF c.Stream THEN stream' ELSE scan
      BY <1>2 DEF Mongo!FetchStart
    <2>4. Current(log, generation)
      <3>1. \A i \in DOMAIN log : log[i].st # "done" => log[i].gen \notin invalidated
        BY <1>2 DEF Mongo!FetchStart, Mongo!can_fetch, Mongo!Outstanding
      <3> QED BY <1>a, <3>1 DEF Current, Generations
    <2>5. NoneYet(log, Len(log), generation) => Position(log, Len(log), generation, committed) = committed
      BY DEF NoneYet, Position
    <2>6. c.Stream => stream' # -1
      BY <1>0, <2>2
    <2>7. Position(log, Len(log), generation, committed) = (IF c.Stream THEN stream' ELSE scan)
      BY <1>b, <2>2, <2>5
    <2> QED BY <1>0, <1>b, <2>1, <2>2, <2>3, <2>4, <2>6, <2>7 DEF OrderHeld, Covered
  <1>3. CASE Mongo(c)!PollReturns
    <2>1. /\ ~c.Stream /\ fetching # -1 /\ fetching' = -1 /\ log' = log \o Mongo(c)!Fetched
          /\ scan' = IF Mongo(c)!Fetched = <<>> THEN scan ELSE fetching + Len(Mongo(c)!Fetched)
          /\ UNCHANGED <<head, store, committed, stream, popped, generation, invalidated, alive, settled, origin, faults>>
      BY <1>3 DEF Mongo!PollReturns
    <2>2. PICK n \in Nat :
           /\ Len(Mongo(c)!Fetched) = n /\ (Mongo(c)!Fetched = <<>> <=> n = 0)
           /\ InOrder(log') /\ Follows(log', popped, generation, committed) /\ DoneIs(log', generation, settled)
           /\ Position(log', Len(log'), generation, committed) = fetching + n
      BY <2>1, OrderFetched
    <2>3. scan' = fetching + n
      <3>1. fetching = scan /\ fetching \in Nat
        BY <1>b, <2>1 DEF MongoInv, Cursors
      <3> QED BY <2>1, <2>2, <3>1
    <2> QED BY <1>0, <1>b, <2>1, <2>2, <2>3 DEF OrderHeld, Covered
  <1>4. CASE Mongo(c)!StreamReturns
    <2>1. /\ c.Stream /\ fetching # -1 /\ fetching' = -1 /\ log' = log \o Mongo(c)!Fetched
          /\ stream' = (IF stream = -1 THEN -1 ELSE fetching + Len(Mongo(c)!Fetched))
          /\ UNCHANGED <<head, store, committed, scan, popped, generation, invalidated, alive, settled, origin, faults>>
      BY <1>4 DEF Mongo!StreamReturns
    <2>2. PICK n \in Nat :
           /\ Len(Mongo(c)!Fetched) = n
           /\ InOrder(log') /\ Follows(log', popped, generation, committed) /\ DoneIs(log', generation, settled)
           /\ Position(log', Len(log'), generation, committed) = fetching + n
      BY <2>1, OrderFetched
    <2>3. stream' = fetching + n /\ stream' # -1
      <3>1. stream # -1 /\ fetching \in Nat
        BY <1>b, <2>1 DEF MongoInv, Cursors
      <3> QED BY <2>1, <2>2, <3>1
    <2> QED BY <1>0, <1>b, <2>1, <2>2, <2>3 DEF OrderHeld, Covered
  <1>6. CASE Mongo(c)!FetchFails
    <2>1. fetching' = -1 /\ UNCHANGED <<head, store, committed, scan, popped, alive, settled, origin>>
      BY <1>6 DEF Mongo!FetchFails
    <2>2. CASE ~c.Stream
      <3>1. UNCHANGED <<log, generation, invalidated, stream>>
        BY <1>6, <2>2 DEF Mongo!FetchFails
      <3> QED BY <1>0, <1>b, <2>1, <2>2, <3>1 DEF OrderHeld, Covered
    <2>3. CASE c.Stream
      <3>1. Mongo(c)!Invalidated(generation, log) /\ stream' = -1
        BY <1>6, <2>3 DEF Mongo!FetchFails
      <3>2. /\ InOrder(log') /\ Follows(log', popped, generation', committed) /\ DoneIs(log', generation', settled)
            /\ NoneYet(log', Len(log'), generation')
        BY <1>0, <1>a, <3>1, OrderGiveUp
      <3> QED BY <1>0, <1>b, <2>1, <2>3, <3>1, <3>2 DEF OrderHeld, Covered
    <2> QED BY <2>2, <2>3
  <1>7. CASE Mongo(c)!FetchBreaks
    BY <1>7, <1>b DEF Mongo!FetchBreaks
  <1>8. CASE Mongo(c)!Crash
    <2>1. /\ committed' = store /\ scan' = store /\ stream' = -1 /\ log' = <<>> /\ popped' = 0 /\ generation' = 0
          /\ invalidated' = {} /\ fetching' = -1 /\ alive' = TRUE /\ UNCHANGED <<head, store, settled, origin>>
      BY <1>8 DEF Mongo!Crash
    <2>2. /\ InOrder(<<>>) /\ Follows(<<>>, 0, 0, store) /\ DoneIs(<<>>, 0, settled)
          /\ NoneYet(<<>>, 0, 0) /\ Position(<<>>, 0, 0, store) = store /\ Len(<<>>) = 0
      BY DEF InOrder, Follows, DoneIs, Position, NoneYet
    <2> QED BY <1>0, <1>b, <2>1, <2>2 DEF OrderHeld, Covered
  <1>9. ASSUME NEW i \in DOMAIN log, Mongo(c)!Settle(i) \/ Mongo(c)!SaveFails(i) \/ Mongo(c)!Retry(i) \/ Mongo(c)!Retried(i) \/ Mongo(c)!RetryFails(i)
        PROVE  OrderHeld(c)' /\ store' >= store
    <2>1. CASE Mongo(c)!Settle(i)
      <3>1. /\ log[i].st # "done" /\ Mongo(c)!Complete(i, TRUE) /\ settled' = settled \cup {log[i].tok}
            /\ UNCHANGED <<head, scan, stream, fetching, origin>>
        BY <2>1 DEF Mongo!Settle
      <3>2. Counts(log, i, generation, TRUE, settled') /\ settled \subseteq settled'
        BY <3>1 DEF Counts
      <3> QED BY <3>1, <3>2, OrderComplete
    <2>a. ASSUME NEW st \in {"unsaved", "refused", "lost"}, log[i].st # "done", log' = MarkState(log, i, st),
                 settled' \in {settled, settled \cup {log[i].tok}},
                 UNCHANGED <<head, store, committed, scan, stream, popped, generation, invalidated, fetching, origin>>
          PROVE  OrderHeld(c)' /\ store' >= store
      <3>1. IsMarked(log', Mongo(c)!Entry, log, i, st, log[i].adv)
        BY <1>a, <2>a, StateMarked
      <3>2. /\ InOrder(log') /\ Follows(log', popped, generation, committed) /\ DoneIs(log', generation, settled)
            /\ Position(log', Len(log), generation, committed) = Position(log, Len(log), generation, committed)
            /\ NoneYet(log, Len(log), generation) => NoneYet(log', Len(log), generation)
        <4>1. Ranked(log, Len(log), generation, popped, committed, settled)
          BY <1>0 DEF Ranked
        <4>2. /\ Ranked(log', Len(log), generation, popped, committed, settled)
              /\ Position(log', Len(log), generation, committed) = Position(log, Len(log), generation, committed)
              /\ NoneYet(log, Len(log), generation) => NoneYet(log', Len(log), generation)
          <5>1. st # "done" /\ log[i].st # "done"
            BY <2>a
          <5> QED BY <1>a, <3>1, <4>1, <5>1, OrderMarked
        <4> QED BY <4>2 DEF Ranked
      <3>3. DoneIs(log', generation, settled') /\ Len(log') = Len(log) /\ Covered(origin', store', settled')
        BY <1>b, <2>a, <3>1, <3>2 DEF DoneIs, IsMarked, Covered
      <3>4. Current(log, generation) => Current(log', generation)
        BY <2>a, <3>1 DEF Current, IsMarked
      <3> QED BY <1>0, <1>b, <2>a, <3>2, <3>3, <3>4 DEF OrderHeld
    <2>2. CASE Mongo(c)!SaveFails(i)
      <3>1. PICK st \in {"unsaved", "refused"} : log' = [log EXCEPT ![i].st = st]
        BY <2>2 DEF Mongo!SaveFails
      <3>2. /\ log[i].st # "done" /\ log' = MarkState(log, i, st) /\ settled' = settled \cup {log[i].tok}
            /\ UNCHANGED <<head, store, committed, scan, stream, popped, generation, invalidated, fetching, origin>>
        BY <2>2, <3>1 DEF Mongo!SaveFails, MarkState
      <3> QED BY <2>a, <3>2
    <2>5. CASE Mongo(c)!RetryFails(i)
      <3>1. /\ log[i].st # "done" /\ log' = MarkState(log, i, "lost") /\ settled' = settled
            /\ UNCHANGED <<head, store, committed, scan, stream, popped, generation, invalidated, fetching, origin>>
        BY <2>5 DEF Mongo!RetryFails, MarkState
      <3> QED BY <2>a, <3>1
    <2>3. CASE Mongo(c)!Retry(i)
      <3> DEFINE l == MarkState(log, i, "retrying")
      <3>0. fetching = -1
        <4>1. log[i].st # "done" /\ ~(fetching # -1 /\ log[i].gen = generation)
          BY <2>3 DEF Mongo!Retry
        <4> QED BY <1>b, <4>1 DEF Current
      <3>1. /\ log[i].st # "done" /\ Mongo(c)!Invalidated(log[i].gen, l)
            /\ UNCHANGED <<head, store, committed, popped, fetching, settled, origin>>
            /\ IF c.Stream THEN stream' = -1 /\ scan' = scan ELSE scan' = committed /\ stream' = stream
        BY <2>3 DEF Mongo!Retry, MarkState
      <3>2. IsMarked(l, Mongo(c)!Entry, log, i, "retrying", log[i].adv)
        BY <1>a, StateMarked
      <3> HIDE DEF l
      <3>3. Generations(l, generation, invalidated)
        BY <1>a, <3>1, <3>2, GenerationsMarked
      <3>4. /\ InOrder(l) /\ Follows(l, popped, generation, committed) /\ DoneIs(l, generation, settled)
            /\ Numbers(l, Len(log)) /\ (NoneYet(log, Len(log), generation) => NoneYet(l, Len(log), generation))
        <4>1. Ranked(log, Len(log), generation, popped, committed, settled)
          BY <1>0 DEF Ranked
        <4>2. /\ Ranked(l, Len(log), generation, popped, committed, settled)
              /\ NoneYet(log, Len(log), generation) => NoneYet(l, Len(log), generation)
          BY <1>a, <3>1, <3>2, <4>1, OrderMarked
        <4> QED BY <4>2 DEF Ranked
      <3>5. log[i].gen = generation \/ NoneYet(log, Len(log), generation)
        <4>1. CASE log[i].gen # generation /\ log[Len(log)].gen = generation
          <5>1. i < Len(log) /\ Len(log) \in DOMAIN log
            BY <1>a, <4>1
          <5>2. log[i].gen < log[Len(log)].gen
            BY <1>a, <4>1 DEF Generations
          <5> QED BY <1>0, <3>1, <5>1, <5>2 DEF InOrder
        <4> QED BY <4>1 DEF NoneYet
      <3>6. /\ InOrder(log') /\ Follows(log', popped, generation', committed) /\ DoneIs(log', generation', settled)
            /\ NoneYet(log', Len(log'), generation')
            /\ Position(log', Len(log'), generation', committed) = committed
        BY <3>1, <3>2, <3>3, <3>4, <3>5, OrderGiveUp DEF IsMarked
      <3> QED BY <1>0, <1>b, <3>0, <3>1, <3>6 DEF OrderHeld, Covered
    <2>4. CASE Mongo(c)!Retried(i)
      <3>1. /\ log[i].st = "retrying" /\ Mongo(c)!Complete(i, FALSE)
            /\ UNCHANGED <<head, scan, stream, fetching, settled, origin>>
        BY <2>4 DEF Mongo!Retried
      <3>2. Counts(log, i, generation, FALSE, settled')
        BY <1>a, <3>1 DEF Counts, Retrying
      <3> QED BY <3>1, <3>2, OrderComplete
    <2> QED BY <1>9, <2>1, <2>2, <2>3, <2>4, <2>5
  <1> QED BY <1>1, <1>2, <1>3, <1>4, <1>6, <1>7, <1>8, <1>9 DEF Mongo!Next

(* Two handlers of one process never work on the same document. *)
LEMMA OrderMeansOneHandler ==
  ASSUME NEW c, OrderedConfig(c), MongoInv(c), OrderInv(c)
  PROVE  Mongo(c)!OneHandler /\ Mongo(c)!NothingSkipped
  <1> SUFFICES ASSUME ~raced, OrderHeld(c)
               PROVE  Mongo(c)!OneHandler /\ Mongo(c)!NothingSkipped
    BY DEF OrderInv, Mongo!OneHandler, Mongo!NothingSkipped
  <1>1. InOrder(log) /\ DOMAIN log = 1..Len(log) /\ Len(log) \in Nat
        /\ \A i \in DOMAIN log : log[i].gen \in Nat /\ log[i].tok \in Nat
    BY OrderFacts, MongoFacts
  <1>2. \A i, j \in DOMAIN log : i < j /\ log[i].tok = log[j].tok => log[i].st = "done"
    BY <1>1 DEF InOrder
  <1>3. Mongo(c)!NothingSkipped
    BY DEF OrderHeld, Covered, Mongo!NothingSkipped
  <1> QED BY <1>1, <1>2, <1>3 DEF Mongo!OneHandler
--------------------------------------------------------------------------------
(* What every webhook source needs: numbers, and finitely many requests. *)
HooksConfig(c) ==
  /\ c.QueueMax \in Nat /\ c.Concurrency \in Nat /\ c.BatchSize \in Nat
  /\ IsFiniteSet(c.Requests) /\ c.MayClose \in BOOLEAN

(* The sources that are open, on the route p. *)
OpenOn(c, p) == {s \in c.Sources : life[s] = "open" /\ Hooks(c)!RouteOf(s) = p}

(* The shared server: one source at most holds the lock, the routes are those of the   *)
(* open sources, and the listener is up while one is open and down while one starts.   *)
ServerInv(c) ==
  /\ life \in [c.Sources -> {"new", "starting", "open", "closing", "closed", "refused"}]
  /\ server \in {"none", "up", "closing"}
  /\ lock = {s \in c.Sources : life[s] \in {"starting", "closing"}}
  /\ \A s, t \in lock : s = t
  /\ routes \in [Hooks(c)!Paths -> SUBSET c.Sources]
  /\ \A p \in Hooks(c)!Paths : routes[p] = OpenOn(c, p)
  /\ \A p \in Hooks(c)!Paths : \A s, t \in routes[p] : s = t
  /\ \A s \in c.Sources : /\ life[s] = "open" => server = "up"
                          /\ life[s] = "starting" => server # "up"
                          /\ life[s] = "closing" => server = "closing"

LEMMA ServerInvInit ==
  ASSUME NEW c, HooksConfig(c), Hooks(c)!Init
  PROVE  ServerInv(c)
  BY DEF ServerInv, Hooks!Init, OpenOn

(* The routes when the life of one source changes. *)
LEMMA OpenOnChanges ==
  ASSUME NEW c, NEW s \in c.Sources, NEW l, life \in [c.Sources -> {"new", "starting", "open", "closing", "closed", "refused"}],
         life' = [life EXCEPT ![s] = l], NEW p
  PROVE  OpenOn(c, p)' = IF l = "open" /\ Hooks(c)!RouteOf(s) = p THEN OpenOn(c, p) \cup {s} ELSE OpenOn(c, p) \ {s}
  BY DEF OpenOn, Hooks!RouteOf

LEMMA ServerInvStep ==
  ASSUME NEW c, HooksConfig(c), ServerInv(c), Hooks(c)!Next
  PROVE  ServerInv(c)'
  <1> DEFINE R(s) == Hooks(c)!RouteOf(s)
             P == Hooks(c)!Paths
             L == {"new", "starting", "open", "closing", "closed", "refused"}
  <1>0. /\ life \in [c.Sources -> L]
        /\ server \in {"none", "up", "closing"}
        /\ lock = {s \in c.Sources : life[s] \in {"starting", "closing"}}
        /\ \A s, t \in lock : s = t
        /\ routes \in [P -> SUBSET c.Sources]
        /\ \A p \in P : routes[p] = OpenOn(c, p)
        /\ \A p \in P : \A s, t \in routes[p] : s = t
        /\ \A s \in c.Sources : /\ life[s] = "open" => server = "up"
                                /\ life[s] = "starting" => server # "up"
                                /\ life[s] = "closing" => server = "closing"
    BY DEF ServerInv
  <1>1. \A s \in c.Sources : R(s) \in P
    BY DEF Hooks!Paths
  <1>2. ASSUME UNCHANGED <<life, server, lock, routes>>
        PROVE  ServerInv(c)'
    BY <1>0, <1>2 DEF ServerInv, OpenOn
  <1>3. ASSUME NEW s \in c.Sources, Hooks(c)!Open(s)
        PROVE  ServerInv(c)'
    <2>1. life[s] = "new" /\ lock = {} /\ server' = server
      BY <1>3 DEF Hooks!Open
    <2>2. CASE Hooks(c)!Duplicate(s)
      <3>1. life' = [life EXCEPT ![s] = "refused"] /\ UNCHANGED <<lock, routes>>
        BY <1>3, <2>2 DEF Hooks!Open, Hooks!Become
      <3>2. \A p \in P : OpenOn(c, p)' = OpenOn(c, p)
        BY <1>0, <2>1, <3>1 DEF OpenOn
      <3> QED BY <1>0, <2>1, <3>1, <3>2 DEF ServerInv
    <2>3. CASE ~Hooks(c)!Duplicate(s) /\ server = "up"
      <3>1. life' = [life EXCEPT ![s] = "open"] /\ routes' = [routes EXCEPT ![R(s)] = {s}] /\ lock' = lock
        BY <1>3, <2>3 DEF Hooks!Open, Hooks!Become
      <3>2. routes[R(s)] \in {{}, {s}}
        BY <2>3 DEF Hooks!Duplicate
      <3>3. \A p \in P : OpenOn(c, p)' = routes'[p]
        <4>1. \A p \in P : p # R(s) => OpenOn(c, p)' = OpenOn(c, p)
          BY <1>0, <2>1, <3>1, <3>2 DEF OpenOn
        <4>2. OpenOn(c, R(s))' = {s}
          <5>1. OpenOn(c, R(s)) \subseteq {s}
            BY <1>0, <1>1, <2>1, <3>1, <3>2
          <5> QED BY <1>0, <2>1, <3>1, <3>2, <5>1 DEF OpenOn
        <4> HIDE DEF R, P
        <4>3. \A p \in P : routes'[p] = IF R(s) = p THEN {s} ELSE routes[p]
          BY <1>0, <1>1, <2>1, <3>1, <3>2
        <4>4. ASSUME NEW p \in P PROVE OpenOn(c, p)' = routes'[p]
          <5>1. CASE p = R(s)
            BY <4>2, <4>3, <5>1
          <5>2. CASE p # R(s)
            BY <1>0, <4>1, <4>3, <5>2
          <5> QED BY <5>1, <5>2
        <4> QED BY <4>4
      <3> HIDE DEF R, P
      <3>4. routes' \in [P -> SUBSET c.Sources] /\ \A p \in P : \A x, y \in routes'[p] : x = y
        BY <1>0, <1>1, <3>1
      <3> QED BY <1>0, <2>1, <2>3, <3>1, <3>3, <3>4 DEF ServerInv, P
    <2>4. CASE ~Hooks(c)!Duplicate(s) /\ server # "up"
      <3>1. life' = [life EXCEPT ![s] = "starting"] /\ routes' = routes /\ lock' = {s}
        BY <1>3, <2>4 DEF Hooks!Open, Hooks!Become
      <3>2. \A p \in P : OpenOn(c, p)' = OpenOn(c, p)
        BY <1>0, <2>1, <3>1 DEF OpenOn
      <3>3. \A t \in c.Sources : life[t] \notin {"starting", "closing"}
        BY <1>0, <2>1
      <3>4. lock' = {t \in c.Sources : life'[t] \in {"starting", "closing"}}
        BY <1>0, <3>1, <3>3
      <3> QED BY <1>0, <2>1, <2>4, <3>1, <3>2, <3>4 DEF ServerInv
    <2> QED BY <2>2, <2>3, <2>4
  <1>4. ASSUME NEW s \in c.Sources, life[s] \in {"starting", "closing"}
        PROVE  lock = {s} /\ \A t \in c.Sources : t # s => life[t] \notin {"starting", "closing"}
    BY <1>0, <1>4
  <1>5. ASSUME NEW s \in c.Sources, Hooks(c)!Started(s)
        PROVE  ServerInv(c)'
    <2>1. /\ life[s] = "starting" /\ life' = [life EXCEPT ![s] = "open"] /\ server' = "up" /\ lock' = {}
          /\ routes' = [routes EXCEPT ![R(s)] = {s}]
      BY <1>5 DEF Hooks!Started, Hooks!Become
    <2>2. \A t \in c.Sources : t # s => life[t] \notin {"starting", "closing"}
      BY <1>4, <2>1
    <2>3. \A p \in P : routes[p] = {}
      BY <1>0, <2>1 DEF OpenOn
    <2>4. \A p \in P : OpenOn(c, p)' = routes'[p]
      <3>1. \A p \in P : p # R(s) => OpenOn(c, p)' = OpenOn(c, p)
        BY <1>0, <2>1, <2>3 DEF OpenOn
      <3>2. OpenOn(c, R(s))' = {s}
        <4>1. OpenOn(c, R(s)) \subseteq {s}
          BY <1>0, <1>1, <2>1, <2>3
        <4> QED BY <1>0, <2>1, <2>3, <4>1 DEF OpenOn
      <3> HIDE DEF R, P
      <3>3. \A p \in P : routes'[p] = IF R(s) = p THEN {s} ELSE routes[p]
        BY <1>0, <1>1, <2>1, <2>3
      <3>4. ASSUME NEW p \in P PROVE OpenOn(c, p)' = routes'[p]
        <4>1. CASE p = R(s)
          BY <3>2, <3>3, <4>1
        <4>2. CASE p # R(s)
          BY <1>0, <3>1, <3>3, <4>2
        <4> QED BY <4>1, <4>2
      <3> QED BY <3>4
    <2> HIDE DEF R, P
    <2>5. routes' \in [P -> SUBSET c.Sources] /\ \A p \in P : \A x, y \in routes'[p] : x = y
      BY <1>0, <1>1, <2>1
    <2>6. lock' = {t \in c.Sources : life'[t] \in {"starting", "closing"}}
      BY <1>0, <2>1, <2>2
    <2> QED BY <1>0, <2>1, <2>2, <2>4, <2>5, <2>6 DEF ServerInv, P
  <1>6. ASSUME NEW s \in c.Sources, Hooks(c)!StartFails(s)
        PROVE  ServerInv(c)'
    <2>1. life[s] = "starting" /\ life' = [life EXCEPT ![s] = "refused"] /\ lock' = {} /\ UNCHANGED <<server, routes>>
      BY <1>6 DEF Hooks!StartFails, Hooks!Become
    <2>2. \A t \in c.Sources : t # s => life[t] \notin {"starting", "closing"}
      BY <1>4, <2>1
    <2>3. \A p \in P : OpenOn(c, p)' = OpenOn(c, p)
      BY <1>0, <2>1 DEF OpenOn
    <2>4. lock' = {t \in c.Sources : life'[t] \in {"starting", "closing"}}
      BY <1>0, <2>1, <2>2
    <2> QED BY <1>0, <2>1, <2>2, <2>3, <2>4 DEF ServerInv
  <1>7. ASSUME NEW s \in c.Sources, Hooks(c)!Close(s)
        PROVE  ServerInv(c)'
    <2> DEFINE rest == [routes EXCEPT ![R(s)] = @ \ {s}]
    <2>1. life[s] = "open" /\ lock = {} /\ routes' = rest
      BY <1>7 DEF Hooks!Close
    <2>2. \A t \in c.Sources : life[t] \notin {"starting", "closing"}
      BY <1>0, <2>1
    <2>3. ASSUME NEW l \in {"closing", "closed"}, life' = [life EXCEPT ![s] = l]
          PROVE  /\ \A p \in P : OpenOn(c, p)' = routes'[p]
                 /\ routes' \in [P -> SUBSET c.Sources] /\ \A p \in P : \A x, y \in routes'[p] : x = y
      <3>1. \A p \in P : OpenOn(c, p)' = OpenOn(c, p) \ {s}
        BY <1>0, <2>3, OpenOnChanges
      <3>2. \A p \in P : p # R(s) => s \notin OpenOn(c, p)
        BY DEF OpenOn
      <3> HIDE DEF R, P
      <3>3. \A p \in P : rest[p] = routes[p] \ {s}
        BY <1>0, <3>2
      <3>4. rest \in [P -> SUBSET c.Sources]
        BY <1>0, <1>1
      <3> QED BY <1>0, <2>1, <3>1, <3>3, <3>4
    <2>4. CASE Hooks(c)!Unused(rest)
      <3>1. life' = [life EXCEPT ![s] = "closing"] /\ server' = "closing" /\ lock' = {s}
        BY <1>7, <2>4 DEF Hooks!Close, Hooks!Become
      <3>2. \A p \in P : OpenOn(c, p)' = {}
        BY <2>1, <2>3, <2>4, <3>1 DEF Hooks!Unused
      <3>3. \A t \in c.Sources : life'[t] # "open"
        BY <1>1, <3>2 DEF OpenOn
      <3>4. lock' = {t \in c.Sources : life'[t] \in {"starting", "closing"}}
        BY <1>0, <2>2, <3>1
      <3> QED BY <1>0, <2>2, <2>3, <3>1, <3>3, <3>4 DEF ServerInv
    <2>5. CASE ~Hooks(c)!Unused(rest)
      <3>1. life' = [life EXCEPT ![s] = "closed"] /\ UNCHANGED <<server, lock>>
        BY <1>7, <2>5 DEF Hooks!Close, Hooks!Become
      <3> QED BY <1>0, <2>1, <2>2, <2>3, <3>1 DEF ServerInv
    <2> QED BY <2>4, <2>5
  <1>8. ASSUME NEW s \in c.Sources, Hooks(c)!Closed(s)
        PROVE  ServerInv(c)'
    <2>1. life[s] = "closing" /\ life' = [life EXCEPT ![s] = "closed"] /\ server' = "none" /\ lock' = {} /\ UNCHANGED routes
      BY <1>8 DEF Hooks!Closed, Hooks!Become
    <2>2. \A t \in c.Sources : t # s => life[t] \notin {"starting", "closing"}
      BY <1>4, <2>1
    <2>3. \A p \in P : OpenOn(c, p)' = OpenOn(c, p)
      BY <1>0, <2>1 DEF OpenOn
    <2>4. lock' = {t \in c.Sources : life'[t] \in {"starting", "closing"}}
      BY <1>0, <2>1, <2>2
    <2> QED BY <1>0, <2>1, <2>2, <2>3, <2>4 DEF ServerInv
  <1>9. ASSUME NEW s \in c.Sources, Hooks(c)!Fetch(s) \/ Hooks(c)!FetchDropped(s) \/ \E r \in c.Requests : Hooks(c)!Finish(s, r) \/ Hooks(c)!Retry(s, r) \/ Hooks(c)!PutWakes(s, r)
        PROVE  UNCHANGED <<life, server, lock, routes>>
    BY <1>9 DEF Hooks!Fetch, Hooks!FetchDropped, Hooks!Finish, Hooks!Retry, Hooks!PutWakes, Hooks!server_vars
  <1>10. ASSUME NEW r \in c.Requests, (\E p \in P : Hooks(c)!Route(r, p)) \/ Hooks(c)!BadRequest(r) \/ Hooks(c)!Body(r) \/ Hooks(c)!Respond(r)
         PROVE  UNCHANGED <<life, server, lock, routes>>
    BY <1>10 DEF Hooks!Route, Hooks!BadRequest, Hooks!Body, Hooks!Respond, Hooks!server_vars
  <1> QED BY <1>2, <1>3, <1>5, <1>6, <1>7, <1>8, <1>9, <1>10 DEF Hooks!Next

LEMMA ServerMeansServed ==
  ASSUME NEW c, ServerInv(c)
  PROVE  Hooks(c)!OpenIsServed
  <1> SUFFICES ASSUME NEW s \in c.Sources, life[s] = "open"
               PROVE  server = "up" /\ routes[Hooks(c)!RouteOf(s)] = {s}
    BY DEF Hooks!OpenIsServed
  <1>1. Hooks(c)!RouteOf(s) \in Hooks(c)!Paths
    BY DEF Hooks!Paths
  <1>2. s \in OpenOn(c, Hooks(c)!RouteOf(s))
    BY DEF OpenOn
  <1> QED BY <1>1, <1>2 DEF ServerInv
--------------------------------------------------------------------------------
(* What holds a request of a source: its queue, a handler or a retry that waits for room. *)
Busy(c, s) == Hooks(c)!Events(queue[s]) \cup hand[s] \cup putting[s]

(* A queue holds a request once. *)
Distinct(q) == \A i, j \in DOMAIN q : q[i] = q[j] => i = j

(* The queue of a source and its handlers: within their bounds, and apart from another. *)
Apart(c, s) ==
  /\ Len(queue[s]) <= c.QueueMax /\ Cardinality(hand[s] \cup putting[s]) <= c.Concurrency
  /\ Distinct(queue[s])
  /\ \A r \in c.Requests : /\ ~(r \in Hooks(c)!Events(queue[s]) /\ r \in hand[s])
                           /\ ~(r \in Hooks(c)!Events(queue[s]) /\ r \in putting[s])
                           /\ ~(r \in hand[s] /\ r \in putting[s])

QueueTypes(c) ==
  /\ queue \in [c.Sources -> Seq(c.Requests)]
  /\ hand \in [c.Sources -> SUBSET c.Requests] /\ putting \in [c.Sources -> SUBSET c.Requests]
  /\ done \in SUBSET c.Requests /\ dropped \in SUBSET c.Requests

(* No request is with two sources, or with one and over: done, or dropped. *)
Over == done \cup dropped
Alone(c) ==
  /\ \A r \in c.Requests : ~(r \in done /\ r \in dropped)
  /\ \A s \in c.Sources : \A r \in c.Requests : r \in Busy(c, s) => r \notin Over
  /\ \A s, t \in c.Sources : \A r \in c.Requests : r \in Busy(c, s) /\ r \in Busy(c, t) => s = t

(* The requests: where they are, and that the accepted ones are those a source holds. *)
RequestTypes(c) ==
  /\ req \in [c.Requests -> [at : {"new", "body", "answer", "ended"}, path : SUBSET Hooks(c)!Paths, source : SUBSET c.Sources]]
  /\ status \in [c.Requests -> {0, 202, 400, 404, 500, 503}]
  /\ \A r \in c.Requests : req[r].at # "ended" => status[r] = 0
KnownRequest(c, r) == r \in Over \/ \E s \in c.Sources : r \in Busy(c, s)

QueueInv(c) ==
  /\ QueueTypes(c) /\ RequestTypes(c) /\ Alone(c)
  /\ \A s \in c.Sources : Apart(c, s)
  /\ \A r \in c.Requests : Hooks(c)!Accepted(r) <=> KnownRequest(c, r)

HooksInv(c) == ServerInv(c) /\ QueueInv(c)
--------------------------------------------------------------------------------
LEMMA HooksCardinality ==
  ASSUME NEW c, NEW S
  PROVE  Hooks(c)!Cardinality(S) = Cardinality(S)
  BY DEF Hooks!Cardinality, Cardinality

(* A request that is put into a queue. *)
IsPut(c, new, q, R, r) ==
  /\ new \in Seq(R) /\ Len(new) = Len(q) + 1
  /\ Hooks(c)!Events(new) = Hooks(c)!Events(q) \cup {r}
  /\ Distinct(new)
LEMMA PutIs ==
  ASSUME NEW c, NEW R, NEW q \in Seq(R), NEW r \in R, Distinct(q), r \notin Hooks(c)!Events(q)
  PROVE  IsPut(c, Append(q, r), q, R, r)
  <1> DEFINE new == Append(q, r)
  <1>1. /\ new \in Seq(R) /\ Len(new) = Len(q) + 1 /\ Len(q) \in Nat
        /\ DOMAIN new = 1..(Len(q) + 1) /\ DOMAIN q = 1..Len(q)
        /\ new[Len(q) + 1] = r /\ \A i \in 1..Len(q) : new[i] = q[i]
    OBVIOUS
  <1> HIDE DEF new
  <1>2. \A i \in 1..Len(q) : q[i] # r
    BY <1>1 DEF Hooks!Events
  <1>3. Distinct(new)
    <2> SUFFICES ASSUME NEW i \in DOMAIN new, NEW j \in DOMAIN new, new[i] = new[j]
                 PROVE  i = j
      BY DEF Distinct
    <2>1. CASE i = Len(q) + 1 \/ j = Len(q) + 1
      BY <1>1, <1>2, <2>1
    <2>2. CASE i \in 1..Len(q) /\ j \in 1..Len(q)
      BY <1>1, <2>2 DEF Distinct
    <2> QED BY <1>1, <2>1, <2>2
  <1>4. ASSUME NEW x
        PROVE  x \in Hooks(c)!Events(new) <=> x \in Hooks(c)!Events(q) \cup {r}
    BY <1>1 DEF Hooks!Events
  <1>5. Hooks(c)!Events(new) = Hooks(c)!Events(q) \cup {r}
    BY <1>4
  <1> QED BY <1>1, <1>3, <1>5 DEF IsPut, new

(* The requests that are taken from a queue, and those that are left. *)
IsTaken(c, front, rest, q, R, n) ==
  /\ rest \in Seq(R) /\ Len(rest) = Len(q) - n /\ Distinct(rest)
  /\ front \in SUBSET R /\ IsFiniteSet(front) /\ Cardinality(front) <= n
  /\ \A x \in R : /\ x \in Hooks(c)!Events(q) <=> x \in front \/ x \in Hooks(c)!Events(rest)
                  /\ ~(x \in front /\ x \in Hooks(c)!Events(rest))
LEMMA TakenIs ==
  ASSUME NEW c, NEW R, NEW q \in Seq(R), Distinct(q), NEW n \in 1..Len(q)
  PROVE  IsTaken(c, Hooks(c)!Events(SubSeq(q, 1, n)), SubSeq(q, n + 1, Len(q)), q, R, n)
  <1> DEFINE f == SubSeq(q, 1, n)
             rest == SubSeq(q, n + 1, Len(q))
             front == Hooks(c)!Events(f)
  <1>1. /\ Len(q) \in Nat /\ n \in Nat /\ n <= Len(q) /\ DOMAIN q = 1..Len(q)
        /\ \A i \in 1..Len(q) : q[i] \in R
    OBVIOUS
  <1>2. f \in Seq(R) /\ DOMAIN f = 1..n /\ \A i \in 1..n : f[i] = q[i]
    BY <1>1
  <1>3. /\ rest \in Seq(R) /\ Len(rest) = Len(q) - n /\ DOMAIN rest = 1..(Len(q) - n)
        /\ \A i \in 1..(Len(q) - n) : rest[i] = q[i + n]
    <2>1. n + 1 \in Int /\ Len(q) \in Int
      BY <1>1
    <2>2. rest = [i \in 1..(Len(q) - n) |-> q[i + n]]
      BY <1>1
    <2>3. Len(q) - n \in Nat /\ \A i \in 1..(Len(q) - n) : i + n \in 1..Len(q)
      BY <1>1
    <2> HIDE DEF rest
    <2>4. \A i \in 1..(Len(q) - n) : rest[i] = q[i + n] /\ rest[i] \in R
      BY <1>1, <2>2, <2>3
    <2> QED BY <2>2, <2>3, <2>4
  <1> HIDE DEF f, rest
  <1>4. \A x : x \in front <=> \E i \in 1..n : q[i] = x
    BY <1>1, <1>2 DEF Hooks!Events
  <1>5. \A x : x \in Hooks(c)!Events(rest) <=> \E i \in (n + 1)..Len(q) : q[i] = x
    <2> SUFFICES ASSUME NEW x PROVE x \in Hooks(c)!Events(rest) <=> \E i \in (n + 1)..Len(q) : q[i] = x
      OBVIOUS
    <2>1. ASSUME x \in Hooks(c)!Events(rest) PROVE \E i \in (n + 1)..Len(q) : q[i] = x
      <3>1. PICK i \in 1..(Len(q) - n) : rest[i] = x
        BY <1>3, <2>1 DEF Hooks!Events
      <3>2. i + n \in (n + 1)..Len(q) /\ q[i + n] = x
        BY <1>1, <1>3, <3>1
      <3> QED BY <3>2
    <2>2. ASSUME NEW i \in (n + 1)..Len(q), q[i] = x PROVE x \in Hooks(c)!Events(rest)
      <3>1. i - n \in 1..(Len(q) - n) /\ (i - n) + n = i
        BY <1>1
      <3>2. rest[i - n] = x
        BY <1>3, <2>2, <3>1
      <3> QED BY <1>3, <3>1, <3>2 DEF Hooks!Events
    <2> QED BY <2>1, <2>2
  <1>6. \A x : x \in Hooks(c)!Events(q) <=> \E i \in 1..Len(q) : q[i] = x
    BY <1>1 DEF Hooks!Events
  <1>7. Distinct(rest)
    <2> SUFFICES ASSUME NEW i \in 1..(Len(q) - n), NEW j \in 1..(Len(q) - n), rest[i] = rest[j]
                 PROVE  i = j
      BY <1>3 DEF Distinct
    <2>1. q[i + n] = q[j + n] /\ i + n \in 1..Len(q) /\ j + n \in 1..Len(q)
      BY <1>1, <1>3
    <2>2. i + n = j + n
      BY <1>1, <2>1 DEF Distinct
    <2> QED BY <1>1, <2>2
  <1>8. \A x : x \in front \/ x \in Hooks(c)!Events(rest) <=> x \in Hooks(c)!Events(q)
    <2>1. \A i : i \in 1..Len(q) <=> i \in 1..n \/ i \in (n + 1)..Len(q)
      BY <1>1
    <2> QED BY <1>4, <1>5, <1>6, <2>1
  <1>9. \A x : ~(x \in front /\ x \in Hooks(c)!Events(rest))
    <2> SUFFICES ASSUME NEW x, NEW i \in 1..n, NEW j \in (n + 1)..Len(q), q[i] = x, q[j] = x PROVE FALSE
      BY <1>4, <1>5
    <2>1. i \in DOMAIN q /\ j \in DOMAIN q /\ i # j
      BY <1>1
    <2> QED BY <2>1 DEF Distinct
  <1>10. IsFiniteSet(front) /\ Cardinality(front) <= n /\ front \in SUBSET R
    <2> DEFINE g == [i \in 1..n |-> q[i]]
    <2>1. g \in Surjection(1..n, front)
      BY <1>4 DEF Surjection
    <2>2. IsFiniteSet(1..n) /\ Cardinality(1..n) = n
      BY <1>1, FS_Interval
    <2>3. IsFiniteSet(front) /\ Cardinality(front) <= n
      BY <2>1, <2>2, FS_Surjection
    <2>4. front \in SUBSET R
      BY <1>1, <1>4
    <2> QED BY <2>3, <2>4
  <1> HIDE DEF front
  <1>11. IsTaken(c, front, rest, q, R, n)
    BY <1>3, <1>7, <1>8, <1>9, <1>10 DEF IsTaken
  <1> QED BY <1>11 DEF front, f, rest
--------------------------------------------------------------------------------
LEMMA QueueInvInit ==
  ASSUME NEW c, HooksConfig(c), Hooks(c)!Init
  PROVE  QueueInv(c)
  <1>0. /\ req = [r \in c.Requests |-> [at |-> "new", path |-> {}, source |-> {}]]
        /\ status = [r \in c.Requests |-> 0] /\ queue = [s \in c.Sources |-> <<>>]
        /\ hand = [s \in c.Sources |-> {}] /\ putting = [s \in c.Sources |-> {}] /\ done = {} /\ dropped = {}
    BY DEF Hooks!Init
  <1>1. QueueTypes(c)
    BY <1>0 DEF QueueTypes
  <1>2. RequestTypes(c)
    BY <1>0 DEF RequestTypes
  <1>3. \A s \in c.Sources : Hooks(c)!Events(queue[s]) = {} /\ Len(queue[s]) = 0 /\ DOMAIN queue[s] = {}
    BY <1>0 DEF Hooks!Events
  <1>4. Cardinality({}) = 0
    BY FS_EmptySet
  <1>5. ASSUME NEW s \in c.Sources PROVE Apart(c, s)
    <2>1. hand[s] = {} /\ putting[s] = {} /\ hand[s] \cup putting[s] = {}
      BY <1>0
    <2> QED BY <1>3, <1>4, <2>1 DEF Apart, Distinct, HooksConfig
  <1>6. \A s \in c.Sources : Busy(c, s) = {}
    BY <1>0, <1>3 DEF Busy
  <1>7. \A r \in c.Requests : ~Hooks(c)!Accepted(r) /\ ~KnownRequest(c, r)
    BY <1>0, <1>6 DEF Hooks!Accepted, KnownRequest, Over
  <1> QED BY <1>0, <1>1, <1>2, <1>5, <1>6, <1>7 DEF QueueInv, Alone

(* The queues and handlers of the other sources are as they were. *)
Elsewhere(c, s) == \A t \in c.Sources : t # s =>
  queue'[t] = queue[t] /\ hand'[t] = hand[t] /\ putting'[t] = putting[t]

LEMMA OthersStay ==
  ASSUME NEW c, QueueInv(c), NEW s \in c.Sources, Elsewhere(c, s)
  PROVE  \A t \in c.Sources : t # s => Busy(c, t)' = Busy(c, t) /\ Apart(c, t)'
  <1> SUFFICES ASSUME NEW t \in c.Sources, t # s PROVE Busy(c, t)' = Busy(c, t) /\ Apart(c, t)'
    OBVIOUS
  <1>1. queue'[t] = queue[t] /\ hand'[t] = hand[t] /\ putting'[t] = putting[t] /\ Apart(c, t)
    BY DEF Elsewhere, QueueInv
  <1>2. Busy(c, t)' = Busy(c, t)
    BY <1>1 DEF Busy, Hooks!Events
  <1>3. Apart(c, t)'
    BY <1>1 DEF Apart, Hooks!Events
  <1> QED BY <1>2, <1>3

(* A request that moves within a source. *)
LEMMA Moved ==
  ASSUME NEW c, QueueInv(c), NEW s \in c.Sources, Elsewhere(c, s), QueueTypes(c)', Apart(c, s)',
         Busy(c, s)' = Busy(c, s), done' = done, dropped' = dropped, req' = req, status' = status
  PROVE  QueueInv(c)'
  <1>1. \A t \in c.Sources : Busy(c, t)' = Busy(c, t) /\ Apart(c, t)'
    BY OthersStay
  <1>2. Alone(c)'
    BY <1>1 DEF QueueInv, Alone, Over
  <1>3. RequestTypes(c)'
    BY DEF QueueInv, RequestTypes, Hooks!Paths, Hooks!RouteOf
  <1>4. \A r \in c.Requests : (Hooks(c)!Accepted(r)' <=> Hooks(c)!Accepted(r)) /\ (KnownRequest(c, r)' <=> KnownRequest(c, r))
    BY <1>1 DEF KnownRequest, Over, Hooks!Accepted
  <1> QED BY <1>1, <1>2, <1>3, <1>4 DEF QueueInv

(* A request that is answered while the queues stay. *)
LEMMA Answered ==
  ASSUME NEW c, QueueInv(c), UNCHANGED <<queue, hand, putting, done, dropped>>, RequestTypes(c)',
         \A r \in c.Requests : Hooks(c)!Accepted(r)' <=> Hooks(c)!Accepted(r)
  PROVE  QueueInv(c)'
  <1>1. \A t \in c.Sources : Busy(c, t)' = Busy(c, t)
    BY DEF Busy, Hooks!Events
  <1>2. \A t \in c.Sources : Apart(c, t)'
    BY DEF QueueInv, Apart, Hooks!Events
  <1>3. Alone(c)' /\ QueueTypes(c)'
    BY <1>1 DEF QueueInv, Alone, Over, QueueTypes
  <1>4. \A r \in c.Requests : KnownRequest(c, r)' <=> KnownRequest(c, r)
    BY <1>1 DEF KnownRequest, Over
  <1> QED BY <1>2, <1>3, <1>4 DEF QueueInv

(* One request's handler goes on; the others are where they were. *)
GoesTo(c, r, at, code) ==
  /\ req' = [req EXCEPT ![r].at = at]
  /\ status' = IF code = 0 THEN status ELSE [status EXCEPT ![r] = code]
LEMMA GoneTo ==
  ASSUME NEW c, RequestTypes(c), NEW r \in c.Requests, NEW at \in {"answer", "ended"},
         NEW code \in {0, 202, 400, 404, 500, 503}, req[r].at # "ended", GoesTo(c, r, at, code), code # 0 => at = "ended"
  PROVE  /\ RequestTypes(c)'
         /\ \A x \in c.Requests : x # r => (Hooks(c)!Accepted(x)' <=> Hooks(c)!Accepted(x))
         /\ Hooks(c)!Accepted(r)' <=> at = "answer" \/ code \in {202, 500}
         /\ Hooks(c)!Accepted(r) <=> req[r].at = "answer"
  <1> DEFINE S == c.Sources
             P == Hooks(c)!Paths
             R == [at : {"new", "body", "answer", "ended"}, path : SUBSET P, source : SUBSET S]
  <1>1. req \in [c.Requests -> R] /\ status \in [c.Requests -> {0, 202, 400, 404, 500, 503}] /\ status[r] = 0
    BY DEF RequestTypes
  <1> HIDE DEF S, P
  <1>2. req' \in [c.Requests -> R] /\ req'[r].at = at /\ \A x \in c.Requests : x # r => req'[x] = req[x]
    BY <1>1 DEF GoesTo
  <1>3. /\ status' \in [c.Requests -> {0, 202, 400, 404, 500, 503}] /\ status'[r] = code
        /\ \A x \in c.Requests : x # r => status'[x] = status[x]
    BY <1>1 DEF GoesTo
  <1>4. \A x \in c.Requests : req'[x].at # "ended" => status'[x] = 0
    BY <1>1, <1>2, <1>3 DEF RequestTypes
  <1>5. P' = P /\ S' = S
    BY DEF P, S, Hooks!Paths, Hooks!RouteOf
  <1>6. RequestTypes(c)'
    BY <1>2, <1>3, <1>4, <1>5 DEF RequestTypes, P, S
  <1> QED BY <1>1, <1>2, <1>3, <1>6 DEF Hooks!Accepted

LEMMA EventsIn ==
  ASSUME NEW c, QueueTypes(c), NEW s \in c.Sources
  PROVE  /\ Hooks(c)!Events(queue[s]) \in SUBSET c.Requests /\ queue[s] \in Seq(c.Requests)
         /\ Len(queue[s]) \in Nat /\ hand[s] \in SUBSET c.Requests /\ putting[s] \in SUBSET c.Requests
  <1>1. queue[s] \in Seq(c.Requests)
    BY DEF QueueTypes
  <1>2. \A i \in DOMAIN queue[s] : queue[s][i] \in c.Requests
    BY <1>1
  <1> QED BY <1>1, <1>2 DEF QueueTypes, Hooks!Events

(* The body of a request has come: the request is enqueued, or refused. *)
LEMMA QueueBody ==
  ASSUME NEW c, HooksConfig(c), QueueInv(c), NEW r \in c.Requests, Hooks(c)!Body(r)
  PROVE  QueueInv(c)'
  <1>1. PICK s \in req[r].source :
          IF Hooks(c)!Room(s)
          THEN /\ queue' = [queue EXCEPT ![s] = Append(@, r)] /\ req' = [req EXCEPT ![r].at = "answer"] /\ status' = status
          ELSE /\ status' = [status EXCEPT ![r] = 503] /\ req' = [req EXCEPT ![r].at = "ended"] /\ queue' = queue
    BY DEF Hooks!Body, Hooks!Put, Hooks!Answer
  <1>2. req[r].at = "body" /\ UNCHANGED <<hand, putting, done, dropped>> /\ Over' = Over
    BY DEF Hooks!Body, Over
  <1>3. s \in c.Sources /\ QueueTypes(c) /\ RequestTypes(c)
    BY DEF QueueInv, RequestTypes
  <1>4. ~Hooks(c)!Accepted(r)
    BY <1>2, <1>3 DEF RequestTypes, Hooks!Accepted
  <1>5. ~KnownRequest(c, r)
    BY <1>4 DEF QueueInv
  <1>6. CASE Hooks(c)!Room(s)
    <2>1. GoesTo(c, r, "answer", 0) /\ queue' = [queue EXCEPT ![s] = Append(@, r)]
      BY <1>1, <1>6 DEF GoesTo
    <2>2. /\ RequestTypes(c)' /\ Hooks(c)!Accepted(r)'
          /\ \A x \in c.Requests : x # r => (Hooks(c)!Accepted(x)' <=> Hooks(c)!Accepted(x))
      BY <1>2, <1>3, <2>1, GoneTo
    <2>3. Len(queue[s]) < c.QueueMax
      BY <1>6 DEF Hooks!Room
    <2>4. r \notin Busy(c, s) /\ r \notin Over
      BY <1>3, <1>5 DEF KnownRequest
    <2>5. queue'[s] = Append(queue[s], r) /\ Elsewhere(c, s) /\ queue[s] \in Seq(c.Requests)
          /\ hand'[s] = hand[s] /\ putting'[s] = putting[s]
      BY <1>2, <1>3, <2>1 DEF Elsewhere, QueueTypes
    <2>6. IsPut(c, queue'[s], queue[s], c.Requests, r)
      <3>1. Distinct(queue[s])
        BY <1>3 DEF QueueInv, Apart
      <3>2. r \notin Hooks(c)!Events(queue[s])
        BY <2>4 DEF Busy
      <3> QED BY <2>5, <3>1, <3>2, PutIs
    <2>7. Busy(c, s)' = Busy(c, s) \cup {r}
      BY <2>5, <2>6 DEF Busy, IsPut, Hooks!Events
    <2>8. Apart(c, s)'
      <3>1. Hooks(c)!Events(queue[s])' = Hooks(c)!Events(queue[s]) \cup {r} /\ Len(queue'[s]) = Len(queue[s]) + 1
        BY <2>6 DEF IsPut, Hooks!Events
      <3>2. r \notin hand[s] /\ r \notin putting[s]
        BY <2>4 DEF Busy
      <3>3. Len(queue'[s]) <= c.QueueMax /\ Distinct(queue[s])'
        BY <1>3, <2>3, <2>6, <3>1, EventsIn DEF IsPut, HooksConfig, Distinct
      <3>4. Apart(c, s)
        BY <1>3 DEF QueueInv
      <3>5. Cardinality(hand[s] \cup putting[s])' = Cardinality(hand[s] \cup putting[s])
        BY <2>5
      <3> QED BY <2>5, <3>1, <3>2, <3>3, <3>4, <3>5 DEF Apart
    <2>9. QueueTypes(c)'
      BY <1>2, <1>3, <2>1, <2>5, <2>6 DEF QueueTypes, IsPut
    <2>10. \A t \in c.Sources : t # s => Busy(c, t)' = Busy(c, t) /\ Apart(c, t)'
      BY <1>3, <2>5, OthersStay
    <2>11. \A t \in c.Sources : r \notin Busy(c, t)
      BY <1>5 DEF KnownRequest
    <2>12. Alone(c)'
      <3>1. Alone(c)
        BY DEF QueueInv
      <3> QED BY <1>2, <2>4, <2>7, <2>10, <2>11, <3>1 DEF Alone
    <2>13. \A x \in c.Requests : x # r => (KnownRequest(c, x)' <=> KnownRequest(c, x))
      BY <1>2, <1>3, <2>7, <2>10 DEF KnownRequest
    <2>14. KnownRequest(c, r)'
      BY <1>3, <2>7 DEF KnownRequest
    <2> QED BY <2>2, <2>8, <2>9, <2>10, <2>12, <2>13, <2>14 DEF QueueInv
  <1>7. CASE ~Hooks(c)!Room(s)
    <2>1. GoesTo(c, r, "ended", 503) /\ queue' = queue
      BY <1>1, <1>7 DEF GoesTo
    <2>2. /\ RequestTypes(c)' /\ ~Hooks(c)!Accepted(r)'
          /\ \A x \in c.Requests : x # r => (Hooks(c)!Accepted(x)' <=> Hooks(c)!Accepted(x))
      BY <1>2, <1>3, <2>1, GoneTo
    <2>3. \A x \in c.Requests : Hooks(c)!Accepted(x)' <=> Hooks(c)!Accepted(x)
      BY <1>4, <2>2
    <2> QED BY <1>2, <2>1, <2>2, <2>3, Answered
  <1> QED BY <1>6, <1>7
--------------------------------------------------------------------------------
(* The least of three integers. *)
LEMMA LeastOfThree ==
  ASSUME NEW c, NEW a \in Int, NEW b \in Int, NEW d \in Int
  PROVE  /\ Hooks(c)!Least({a, b, d}) \in Int /\ Hooks(c)!Least({a, b, d}) <= a
         /\ Hooks(c)!Least({a, b, d}) <= b /\ Hooks(c)!Least({a, b, d}) <= d
  <1>1. \E x \in {a, b, d} : \A y \in {a, b, d} : x <= y
    <2>1. CASE a <= b /\ a <= d
      BY <2>1
    <2>2. CASE b <= a /\ b <= d
      BY <2>2
    <2>3. CASE d <= b /\ d <= a
      BY <2>3
    <2> QED BY <2>1, <2>2, <2>3
  <1>2. Hooks(c)!Least({a, b, d}) \in {a, b, d} /\ \A y \in {a, b, d} : Hooks(c)!Least({a, b, d}) <= y
    BY <1>1 DEF Hooks!Least
  <1> QED BY <1>2

(* The handlers of a source, counted. *)
LEMMA InHand ==
  ASSUME NEW c, HooksConfig(c), QueueInv(c), NEW s \in c.Sources
  PROVE  /\ IsFiniteSet(hand[s] \cup putting[s]) /\ Cardinality(hand[s] \cup putting[s]) \in Nat
         /\ Hooks(c)!Free(s) = c.Concurrency - Cardinality(hand[s] \cup putting[s])
         /\ Hooks(c)!Free(s) \in Int /\ Hooks(c)!Free(s) >= 0
  <1>1. hand[s] \cup putting[s] \in SUBSET c.Requests
    BY EventsIn DEF QueueInv
  <1>2. IsFiniteSet(hand[s] \cup putting[s]) /\ Cardinality(hand[s] \cup putting[s]) \in Nat
    BY <1>1, FS_Subset, FS_CardinalityType DEF HooksConfig
  <1>3. Hooks(c)!Free(s) = c.Concurrency - Cardinality(hand[s] \cup putting[s])
    BY HooksCardinality DEF Hooks!Free
  <1>4. Cardinality(hand[s] \cup putting[s]) <= c.Concurrency
    BY DEF QueueInv, Apart
  <1> QED BY <1>2, <1>3, <1>4 DEF HooksConfig

LEMMA QueueFetch ==
  ASSUME NEW c, HooksConfig(c), QueueInv(c), NEW s \in c.Sources, Hooks(c)!Fetch(s)
  PROVE  QueueInv(c)'
  <1> DEFINE n == Hooks(c)!Least({Hooks(c)!Free(s), c.BatchSize, Len(queue[s])})
             front == Hooks(c)!Events(SubSeq(queue[s], 1, n))
             rest == SubSeq(queue[s], n + 1, Len(queue[s]))
  <1>1. /\ n > 0 /\ hand' = [hand EXCEPT ![s] = @ \cup front]
        /\ queue' = [queue EXCEPT ![s] = rest] /\ UNCHANGED <<putting, done, dropped, req, status>>
    BY DEF Hooks!Fetch, Hooks!Take, Hooks!Limit, Hooks!Batch
  <1>2. QueueTypes(c) /\ Apart(c, s)
    BY DEF QueueInv
  <1>3. /\ queue[s] \in Seq(c.Requests) /\ Len(queue[s]) \in Nat /\ hand[s] \in SUBSET c.Requests
        /\ putting[s] \in SUBSET c.Requests
    BY <1>2, EventsIn
  <1>4. n \in Int /\ n <= Hooks(c)!Free(s) /\ n <= Len(queue[s])
    <2>1. Hooks(c)!Free(s) \in Int /\ c.BatchSize \in Int /\ Len(queue[s]) \in Int
      <3>1. Hooks(c)!Free(s) \in Int
        BY InHand
      <3> QED BY <1>3, <3>1 DEF HooksConfig
    <2> QED BY <2>1, LeastOfThree
  <1> HIDE DEF n
  <1>5. IsTaken(c, front, rest, queue[s], c.Requests, n)
    <2>1. Distinct(queue[s]) /\ n \in 1..Len(queue[s])
      BY <1>1, <1>2, <1>3, <1>4 DEF Apart
    <2> QED BY <1>3, <2>1, TakenIs
  <1> HIDE DEF front, rest
  <1>6. Elsewhere(c, s) /\ queue'[s] = rest /\ hand'[s] = hand[s] \cup front /\ putting'[s] = putting[s]
    BY <1>1, <1>2 DEF Elsewhere, QueueTypes
  <1>7. QueueTypes(c)'
    BY <1>1, <1>2, <1>5 DEF QueueTypes, IsTaken
  <1>8. Cardinality(hand'[s] \cup putting'[s]) <= c.Concurrency
    <2>1. hand'[s] \cup putting'[s] = (hand[s] \cup putting[s]) \cup front
      BY <1>6
    <2>2. IsFiniteSet(front) /\ Cardinality(front) <= n /\ Cardinality(front) \in Nat
      BY <1>5, FS_CardinalityType DEF IsTaken
    <2>3. IsFiniteSet(hand[s] \cup putting[s]) /\ Cardinality(hand[s] \cup putting[s]) \in Nat
          /\ n <= c.Concurrency - Cardinality(hand[s] \cup putting[s])
      BY <1>4, InHand
    <2> DEFINE H == hand[s] \cup putting[s]
    <2> HIDE DEF H
    <2>4. /\ Cardinality(H \cup front) = Cardinality(H) + Cardinality(front) - Cardinality(H \cap front)
          /\ Cardinality(H \cap front) \in Nat
      <3>1. IsFiniteSet(H) /\ IsFiniteSet(front)
        BY <2>2, <2>3 DEF H
      <3>2. IsFiniteSet(H \cap front)
        BY <3>1, FS_Subset
      <3> QED BY <3>1, <3>2, FS_Union, FS_CardinalityType
    <2>5. Cardinality(H \cup front) <= c.Concurrency
      BY <1>4, <2>2, <2>3, <2>4 DEF HooksConfig, H
    <2> QED BY <2>1, <2>5 DEF H
  <1>9. \A x \in c.Requests : /\ x \in Hooks(c)!Events(queue[s]) <=> x \in front \/ x \in Hooks(c)!Events(queue[s])'
                              /\ ~(x \in front /\ x \in Hooks(c)!Events(queue[s])')
    BY <1>5, <1>6 DEF IsTaken, Hooks!Events
  <1>10. Apart(c, s)'
    <2>1. Len(queue'[s]) <= c.QueueMax /\ Distinct(queue[s])'
      <3>1. Len(queue'[s]) = Len(queue[s]) - n /\ Distinct(queue'[s]) /\ Len(queue[s]) <= c.QueueMax
        BY <1>2, <1>5, <1>6 DEF IsTaken, Apart
      <3> QED BY <1>1, <1>3, <1>4, <3>1 DEF HooksConfig, Distinct
    <2>2. \A r \in c.Requests : /\ ~(r \in Hooks(c)!Events(queue[s])' /\ r \in hand'[s])
                                /\ ~(r \in Hooks(c)!Events(queue[s])' /\ r \in putting'[s])
                                /\ ~(r \in hand'[s] /\ r \in putting'[s])
      BY <1>2, <1>6, <1>9 DEF Apart
    <2> QED BY <1>8, <2>1, <2>2 DEF Apart
  <1>11. Busy(c, s)' = Busy(c, s)
    <2>1. Hooks(c)!Events(queue[s]) \in SUBSET c.Requests /\ Hooks(c)!Events(queue[s])' \in SUBSET c.Requests
      BY <1>2, <1>7, EventsIn DEF QueueTypes, Hooks!Events
    <2>2. front \in SUBSET c.Requests
      BY <1>5 DEF IsTaken
    <2>3. Hooks(c)!Events(queue[s]) = front \cup Hooks(c)!Events(queue[s])'
      BY <1>9, <2>1, <2>2
    <2> QED BY <1>6, <2>3 DEF Busy
  <1> QED BY <1>1, <1>6, <1>7, <1>10, <1>11, Moved
LEMMA QueueDropped ==
  ASSUME NEW c, HooksConfig(c), QueueInv(c), NEW s \in c.Sources, Hooks(c)!FetchDropped(s)
  PROVE  QueueInv(c)'
  <1> DEFINE n == Hooks(c)!Least({Hooks(c)!Free(s), c.BatchSize, Len(queue[s])})
             front == Hooks(c)!Events(SubSeq(queue[s], 1, n))
             rest == SubSeq(queue[s], n + 1, Len(queue[s]))
  <1>1. /\ n > 0 /\ dropped' = dropped \cup front
        /\ queue' = [queue EXCEPT ![s] = rest] /\ UNCHANGED <<hand, putting, done, req, status>>
    BY DEF Hooks!FetchDropped, Hooks!Take, Hooks!Limit, Hooks!Batch
  <1>2. QueueTypes(c) /\ Apart(c, s) /\ Alone(c) /\ RequestTypes(c)
    BY DEF QueueInv
  <1>3. queue[s] \in Seq(c.Requests) /\ Len(queue[s]) \in Nat
    BY <1>2, EventsIn
  <1>4. n \in Int /\ n <= Len(queue[s])
    <2>1. Hooks(c)!Free(s) \in Int /\ c.BatchSize \in Int /\ Len(queue[s]) \in Int
      <3>1. Hooks(c)!Free(s) \in Int
        BY InHand
      <3> QED BY <1>3, <3>1 DEF HooksConfig
    <2> QED BY <2>1, LeastOfThree
  <1> HIDE DEF n
  <1>5. IsTaken(c, front, rest, queue[s], c.Requests, n)
    <2>1. Distinct(queue[s]) /\ n \in 1..Len(queue[s])
      BY <1>1, <1>2, <1>3, <1>4 DEF Apart
    <2> QED BY <1>3, <2>1, TakenIs
  <1> HIDE DEF front, rest
  <1>6. Elsewhere(c, s) /\ queue'[s] = rest /\ hand'[s] = hand[s] /\ putting'[s] = putting[s]
    BY <1>1, <1>2 DEF Elsewhere, QueueTypes
  <1>7. QueueTypes(c)'
    BY <1>1, <1>2, <1>5 DEF QueueTypes, IsTaken
  <1>8. /\ front \subseteq c.Requests
        /\ \A x \in c.Requests : /\ x \in Hooks(c)!Events(queue[s]) <=> x \in front \/ x \in Hooks(c)!Events(queue[s])'
                                 /\ ~(x \in front /\ x \in Hooks(c)!Events(queue[s])')
    BY <1>5, <1>6 DEF IsTaken, Hooks!Events
  <1>9. Apart(c, s)'
    <2>1. Len(queue'[s]) <= c.QueueMax /\ Distinct(queue[s])'
      <3>1. Len(queue'[s]) = Len(queue[s]) - n /\ Distinct(queue'[s]) /\ Len(queue[s]) <= c.QueueMax
        BY <1>2, <1>5, <1>6 DEF IsTaken, Apart
      <3> QED BY <1>1, <1>3, <1>4, <3>1 DEF HooksConfig, Distinct
    <2>2. Cardinality(hand'[s] \cup putting'[s]) <= c.Concurrency
      BY <1>2, <1>6 DEF Apart
    <2> QED BY <1>2, <1>6, <1>8, <2>1, <2>2 DEF Apart
  <1>10. \A x \in c.Requests : /\ x \in Busy(c, s)' <=> x \in Busy(c, s) /\ x \notin front
                               /\ x \in front => x \in Busy(c, s)
    <2>1. \A x \in c.Requests : x \in front => x \notin hand[s] /\ x \notin putting[s]
      BY <1>2, <1>8 DEF Apart
    <2> QED BY <1>6, <1>8, <2>1 DEF Busy
  <1>11. \A t \in c.Sources : t # s => Busy(c, t)' = Busy(c, t) /\ Apart(c, t)'
    BY <1>6, OthersStay
  <1>12. \A x \in c.Requests : x \in Over' <=> x \in Over \/ x \in front
    BY <1>1 DEF Over
  <1>13. \A t \in c.Sources : t # s => \A x \in front : x \notin Busy(c, t)
    BY <1>2, <1>8, <1>10 DEF Alone
  <1>14. Alone(c)'
    <2>1. \A x \in c.Requests : ~(x \in done' /\ x \in dropped')
      BY <1>1, <1>2, <1>10 DEF Alone, Over
    <2>2. \A t \in c.Sources : \A x \in c.Requests : x \in Busy(c, t)' => x \notin Over'
      BY <1>2, <1>10, <1>11, <1>12, <1>13 DEF Alone
    <2>3. \A t, u \in c.Sources : \A x \in c.Requests : x \in Busy(c, t)' /\ x \in Busy(c, u)' => t = u
      BY <1>2, <1>10, <1>11 DEF Alone
    <2> QED BY <2>1, <2>2, <2>3 DEF Alone
  <1>15. \A x \in c.Requests : KnownRequest(c, x)' <=> KnownRequest(c, x)
    BY <1>10, <1>11, <1>12 DEF KnownRequest
  <1>16. RequestTypes(c)'
    BY <1>1, <1>2 DEF RequestTypes, Hooks!Paths, Hooks!RouteOf
  <1>17. \A x \in c.Requests : Hooks(c)!Accepted(x)' <=> Hooks(c)!Accepted(x)
    BY <1>1 DEF Hooks!Accepted
  <1> QED BY <1>7, <1>9, <1>11, <1>14, <1>15, <1>16, <1>17 DEF QueueInv
--------------------------------------------------------------------------------
LEMMA QueueFinish ==
  ASSUME NEW c, HooksConfig(c), QueueInv(c), NEW s \in c.Sources, NEW r \in c.Requests, Hooks(c)!Finish(s, r)
  PROVE  QueueInv(c)'
  <1>1. /\ r \in hand[s] /\ hand' = [hand EXCEPT ![s] = @ \ {r}] /\ done' = done \cup {r}
        /\ UNCHANGED <<queue, putting, dropped, req, status>>
    BY DEF Hooks!Finish
  <1>2. QueueTypes(c) /\ Apart(c, s) /\ Alone(c) /\ RequestTypes(c)
    BY DEF QueueInv
  <1>3. Elsewhere(c, s) /\ queue'[s] = queue[s] /\ hand'[s] = hand[s] \ {r} /\ putting'[s] = putting[s]
    BY <1>1, <1>2 DEF Elsewhere, QueueTypes
  <1>4. QueueTypes(c)'
    BY <1>1, <1>2 DEF QueueTypes
  <1>5. Hooks(c)!Events(queue[s])' = Hooks(c)!Events(queue[s])
    BY <1>3 DEF Hooks!Events
  <1>6. Cardinality(hand'[s] \cup putting'[s]) <= c.Concurrency
    <2>1. hand'[s] \cup putting'[s] \subseteq hand[s] \cup putting[s]
      BY <1>3
    <2>2. /\ IsFiniteSet(hand[s] \cup putting[s]) /\ Cardinality(hand[s] \cup putting[s]) \in Nat
          /\ Cardinality(hand[s] \cup putting[s]) <= c.Concurrency
      BY <1>2, InHand DEF Apart
    <2>3. /\ Cardinality(hand'[s] \cup putting'[s]) <= Cardinality(hand[s] \cup putting[s])
          /\ Cardinality(hand'[s] \cup putting'[s]) \in Nat
      BY <2>1, <2>2, FS_Subset, FS_CardinalityType
    <2> QED BY <2>2, <2>3 DEF HooksConfig
  <1>7. Apart(c, s)'
    BY <1>2, <1>3, <1>5, <1>6 DEF Apart, Distinct
  <1>8. r \notin Hooks(c)!Events(queue[s]) /\ r \notin putting[s]
    BY <1>1, <1>2 DEF Apart
  <1>9. Busy(c, s)' = Busy(c, s) \ {r} /\ r \in Busy(c, s)
    BY <1>1, <1>3, <1>5, <1>8 DEF Busy
  <1>10. \A t \in c.Sources : t # s => Busy(c, t)' = Busy(c, t) /\ Apart(c, t)'
    BY <1>3, OthersStay
  <1>11. \A t \in c.Sources : t # s => r \notin Busy(c, t)
    BY <1>2, <1>9 DEF Alone
  <1>a. \A x \in c.Requests : x \in Over' <=> x \in Over \/ x = r
    BY <1>1 DEF Over
  <1>12. Alone(c)'
    <2>1. \A x \in c.Requests : ~(x \in done' /\ x \in dropped')
      BY <1>1, <1>2, <1>9 DEF Alone, Over
    <2> QED BY <1>2, <1>9, <1>10, <1>11, <1>a, <2>1 DEF Alone
  <1>13. \A x \in c.Requests : KnownRequest(c, x)' <=> KnownRequest(c, x)
    BY <1>9, <1>10, <1>a DEF KnownRequest
  <1>14. RequestTypes(c)'
    BY <1>1, <1>2 DEF RequestTypes, Hooks!Paths, Hooks!RouteOf
  <1>15. \A x \in c.Requests : Hooks(c)!Accepted(x)' <=> Hooks(c)!Accepted(x)
    BY <1>1 DEF Hooks!Accepted
  <1> QED BY <1>4, <1>7, <1>10, <1>12, <1>13, <1>14, <1>15 DEF QueueInv

(* A request of a source goes back into its queue, from a handler or a waiting retry. *)
LEMMA QueuePutsBack ==
  ASSUME NEW c, HooksConfig(c), QueueInv(c), NEW s \in c.Sources, NEW r \in c.Requests,
         Hooks(c)!Room(s), Hooks(c)!Put(s, r), r \in hand[s] \/ r \in putting[s],
         IF r \in hand[s] THEN hand' = [hand EXCEPT ![s] = @ \ {r}] /\ putting' = putting
                          ELSE putting' = [putting EXCEPT ![s] = @ \ {r}] /\ hand' = hand,
         UNCHANGED <<done, dropped, req, status>>
  PROVE  QueueInv(c)'
  <1>1. QueueTypes(c) /\ Apart(c, s) /\ Len(queue[s]) < c.QueueMax /\ queue' = [queue EXCEPT ![s] = Append(@, r)]
    BY DEF QueueInv, Hooks!Room, Hooks!Put
  <1>2. /\ queue'[s] = Append(queue[s], r) /\ Elsewhere(c, s) /\ queue[s] \in Seq(c.Requests) /\ Len(queue[s]) \in Nat
        /\ hand'[s] = hand[s] \ {r} /\ putting'[s] = putting[s] \ {r}
    <2>1. queue'[s] = Append(queue[s], r) /\ queue[s] \in Seq(c.Requests) /\ Len(queue[s]) \in Nat
      BY <1>1 DEF QueueTypes
    <2>2. ~(r \in hand[s] /\ r \in putting[s])
      BY <1>1 DEF Apart
    <2>3. CASE r \in hand[s]
      BY <1>1, <2>1, <2>2, <2>3 DEF QueueTypes, Elsewhere
    <2>4. CASE r \notin hand[s]
      BY <1>1, <2>1, <2>2, <2>4 DEF QueueTypes, Elsewhere
    <2> QED BY <2>3, <2>4
  <1>3. IsPut(c, queue'[s], queue[s], c.Requests, r)
    <2>1. Distinct(queue[s]) /\ r \notin Hooks(c)!Events(queue[s])
      BY <1>1 DEF Apart
    <2> QED BY <1>2, <2>1, PutIs
  <1>4. Hooks(c)!Events(queue[s])' = Hooks(c)!Events(queue[s]) \cup {r} /\ Len(queue'[s]) = Len(queue[s]) + 1
    BY <1>3 DEF IsPut, Hooks!Events
  <1>5. Cardinality(hand'[s] \cup putting'[s]) <= c.Concurrency
    <2>1. hand'[s] \cup putting'[s] \subseteq hand[s] \cup putting[s]
      BY <1>2
    <2>2. /\ IsFiniteSet(hand[s] \cup putting[s]) /\ Cardinality(hand[s] \cup putting[s]) \in Nat
          /\ Cardinality(hand[s] \cup putting[s]) <= c.Concurrency
      BY <1>1, InHand DEF Apart
    <2>3. /\ Cardinality(hand'[s] \cup putting'[s]) <= Cardinality(hand[s] \cup putting[s])
          /\ Cardinality(hand'[s] \cup putting'[s]) \in Nat
      BY <2>1, <2>2, FS_Subset, FS_CardinalityType
    <2> QED BY <2>2, <2>3 DEF HooksConfig
  <1>6. Apart(c, s)'
    <2>1. Len(queue'[s]) <= c.QueueMax /\ Distinct(queue[s])'
      BY <1>1, <1>2, <1>3, <1>4 DEF IsPut, HooksConfig, Distinct
    <2> QED BY <1>1, <1>2, <1>4, <1>5, <2>1 DEF Apart
  <1>7. Busy(c, s)' = Busy(c, s)
    BY <1>2, <1>4 DEF Busy
  <1>8. QueueTypes(c)'
    <2>1. queue' \in [c.Sources -> Seq(c.Requests)]
      BY <1>1, <1>3, <1>2 DEF QueueTypes, IsPut
    <2>2. hand' \in [c.Sources -> SUBSET c.Requests] /\ putting' \in [c.Sources -> SUBSET c.Requests]
      <3> DEFINE R == SUBSET c.Requests
      <3>1. hand \in [c.Sources -> R] /\ putting \in [c.Sources -> R] /\ hand[s] \ {r} \in R /\ putting[s] \ {r} \in R
        BY <1>1 DEF QueueTypes
      <3> HIDE DEF R
      <3>2. hand' \in [c.Sources -> R] /\ putting' \in [c.Sources -> R]
        BY <3>1
      <3> QED BY <3>2 DEF R
    <2> QED BY <1>1, <2>1, <2>2 DEF QueueTypes
  <1> QED BY <1>2, <1>6, <1>7, <1>8, Moved

LEMMA QueueRetry ==
  ASSUME NEW c, HooksConfig(c), QueueInv(c), NEW s \in c.Sources, NEW r \in c.Requests, Hooks(c)!Retry(s, r)
  PROVE  QueueInv(c)'
  <1>1. /\ r \in hand[s] /\ hand' = [hand EXCEPT ![s] = @ \ {r}]
        /\ IF Hooks(c)!Room(s) THEN Hooks(c)!Put(s, r) /\ putting' = putting
           ELSE putting' = [putting EXCEPT ![s] = @ \cup {r}] /\ queue' = queue
        /\ UNCHANGED <<done, dropped, req, status>>
    BY DEF Hooks!Retry
  <1>2. CASE Hooks(c)!Room(s)
    BY <1>1, <1>2, QueuePutsBack
  <1>3. CASE ~Hooks(c)!Room(s)
    <2>1. QueueTypes(c) /\ Apart(c, s)
      BY DEF QueueInv
    <2>2. /\ Elsewhere(c, s) /\ queue'[s] = queue[s] /\ hand'[s] = hand[s] \ {r} /\ putting'[s] = putting[s] \cup {r}
          /\ hand'[s] \cup putting'[s] = hand[s] \cup putting[s]
      BY <1>1, <1>3, <2>1 DEF Elsewhere, QueueTypes
    <2>3. Hooks(c)!Events(queue[s])' = Hooks(c)!Events(queue[s])
      BY <2>2 DEF Hooks!Events
    <2>4. Apart(c, s)'
      BY <1>1, <2>1, <2>2, <2>3 DEF Apart, Distinct
    <2>5. Busy(c, s)' = Busy(c, s)
      BY <1>1, <2>2, <2>3 DEF Busy
    <2>6. QueueTypes(c)'
      <3> DEFINE R == SUBSET c.Requests
      <3>1. /\ hand \in [c.Sources -> R] /\ putting \in [c.Sources -> R] /\ hand[s] \ {r} \in R
            /\ putting[s] \cup {r} \in R
        BY <2>1 DEF QueueTypes
      <3> HIDE DEF R
      <3>2. hand' \in [c.Sources -> R] /\ putting' \in [c.Sources -> R]
        BY <1>1, <1>3, <3>1
      <3> QED BY <1>1, <1>3, <2>1, <3>2 DEF QueueTypes, R
    <2> QED BY <1>1, <2>2, <2>4, <2>5, <2>6, Moved
  <1> QED BY <1>2, <1>3

LEMMA QueuePutWakes ==
  ASSUME NEW c, HooksConfig(c), QueueInv(c), NEW s \in c.Sources, NEW r \in c.Requests, Hooks(c)!PutWakes(s, r)
  PROVE  QueueInv(c)'
  <1>1. /\ r \in putting[s] /\ Hooks(c)!Room(s) /\ Hooks(c)!Put(s, r)
        /\ putting' = [putting EXCEPT ![s] = @ \ {r}] /\ UNCHANGED <<hand, done, dropped, req, status>>
    BY DEF Hooks!PutWakes
  <1>2. r \notin hand[s]
    BY <1>1 DEF QueueInv, Apart
  <1> QED BY <1>1, <1>2, QueuePutsBack

LEMMA QueueRoute ==
  ASSUME NEW c, HooksConfig(c), ServerInv(c), QueueInv(c), NEW r \in c.Requests, NEW p \in Hooks(c)!Paths, Hooks(c)!Route(r, p)
  PROVE  QueueInv(c)'
  <1>1. req[r].at = "new" /\ UNCHANGED <<queue, hand, putting, done, dropped>> /\ RequestTypes(c)
    BY DEF Hooks!Route, Hooks!queue_vars, QueueInv
  <1>2. CASE routes[p] = {}
    <2>1. GoesTo(c, r, "ended", 404)
      BY <1>2 DEF GoesTo, Hooks!Route, Hooks!Answer
    <2>2. /\ RequestTypes(c)' /\ ~Hooks(c)!Accepted(r)' /\ ~Hooks(c)!Accepted(r)
          /\ \A x \in c.Requests : x # r => (Hooks(c)!Accepted(x)' <=> Hooks(c)!Accepted(x))
      BY <1>1, <2>1, GoneTo
    <2>3. \A x \in c.Requests : Hooks(c)!Accepted(x)' <=> Hooks(c)!Accepted(x)
      BY <2>2
    <2> QED BY <1>1, <2>2, <2>3, Answered
  <1>3. CASE routes[p] # {}
    <2> DEFINE S == c.Sources
               P == Hooks(c)!Paths
               e == [at |-> "body", path |-> {p}, source |-> routes[p]]
               R == [at : {"new", "body", "answer", "ended"}, path : SUBSET P, source : SUBSET S]
    <2>1. req' = [req EXCEPT ![r] = e] /\ status' = status
      BY <1>3 DEF Hooks!Route
    <2>2. /\ req \in [c.Requests -> R] /\ status \in [c.Requests -> {0, 202, 400, 404, 500, 503}]
          /\ \A x \in c.Requests : req[x].at # "ended" => status[x] = 0
      BY <1>1 DEF RequestTypes
    <2>3. routes[p] \in SUBSET S
      BY DEF ServerInv
    <2>4. P' = P /\ S' = S /\ p \in P
      BY DEF Hooks!Paths, Hooks!RouteOf
    <2> HIDE DEF S, P
    <2>5. e \in R /\ e.at = "body"
      BY <2>3, <2>4
    <2> HIDE DEF e
    <2>6. req' \in [c.Requests -> R] /\ req'[r].at = "body" /\ \A x \in c.Requests : x # r => req'[x] = req[x]
      BY <2>1, <2>2, <2>5
    <2>7. RequestTypes(c)'
      <3>1. \A x \in c.Requests : req'[x].at # "ended" => status'[x] = 0
        BY <1>1, <2>1, <2>2, <2>6
      <3> QED BY <2>1, <2>2, <2>4, <2>6, <3>1 DEF RequestTypes, S, P
    <2>8. \A x \in c.Requests : Hooks(c)!Accepted(x)' <=> Hooks(c)!Accepted(x)
      BY <1>1, <2>1, <2>2, <2>6 DEF Hooks!Accepted
    <2> QED BY <1>1, <2>7, <2>8, Answered
  <1> QED BY <1>2, <1>3

LEMMA QueueAnswer ==
  ASSUME NEW c, HooksConfig(c), QueueInv(c), NEW r \in c.Requests, Hooks(c)!BadRequest(r) \/ Hooks(c)!Respond(r)
  PROVE  QueueInv(c)'
  <1>1. UNCHANGED <<queue, hand, putting, done, dropped>> /\ RequestTypes(c)
    BY DEF Hooks!BadRequest, Hooks!Respond, Hooks!queue_vars, QueueInv
  <1>2. PICK code \in {202, 400, 500} :
          /\ GoesTo(c, r, "ended", code)
          /\ IF code = 400 THEN req[r].at = "body" ELSE req[r].at = "answer"
    BY DEF GoesTo, Hooks!BadRequest, Hooks!Respond, Hooks!Answer
  <1>3. /\ RequestTypes(c)' /\ (Hooks(c)!Accepted(r)' <=> Hooks(c)!Accepted(r))
        /\ \A x \in c.Requests : x # r => (Hooks(c)!Accepted(x)' <=> Hooks(c)!Accepted(x))
    BY <1>1, <1>2, GoneTo
  <1>4. \A x \in c.Requests : Hooks(c)!Accepted(x)' <=> Hooks(c)!Accepted(x)
    BY <1>3
  <1> QED BY <1>1, <1>3, <1>4, Answered

LEMMA HooksInvStep ==
  ASSUME NEW c, HooksConfig(c), HooksInv(c), Hooks(c)!Next
  PROVE  HooksInv(c)'
  <1>1. ServerInv(c) /\ QueueInv(c) /\ ServerInv(c)'
    BY ServerInvStep DEF HooksInv
  <1>2. ASSUME UNCHANGED <<req, status, queue, hand, putting, done, dropped>> PROVE QueueInv(c)'
    <2>1. RequestTypes(c)' /\ \A x \in c.Requests : Hooks(c)!Accepted(x)' <=> Hooks(c)!Accepted(x)
      BY <1>1, <1>2 DEF QueueInv, RequestTypes, Hooks!Accepted, Hooks!Paths, Hooks!RouteOf
    <2> QED BY <1>1, <1>2, <2>1, Answered
  <1>3. ASSUME NEW s \in c.Sources,
               Hooks(c)!Open(s) \/ Hooks(c)!Started(s) \/ Hooks(c)!StartFails(s) \/ Hooks(c)!Close(s) \/ Hooks(c)!Closed(s)
        PROVE  UNCHANGED <<req, status, queue, hand, putting, done, dropped>>
    BY <1>3 DEF Hooks!Open, Hooks!Started, Hooks!StartFails, Hooks!Close, Hooks!Closed, Hooks!queue_vars
  <1>4. ASSUME NEW s \in c.Sources, NEW r \in c.Requests, Hooks(c)!Finish(s, r) \/ Hooks(c)!Retry(s, r) \/ Hooks(c)!PutWakes(s, r)
        PROVE  QueueInv(c)'
    BY <1>1, <1>4, QueueFinish, QueueRetry, QueuePutWakes
  <1>5. ASSUME NEW s \in c.Sources, Hooks(c)!Fetch(s) \/ Hooks(c)!FetchDropped(s) PROVE QueueInv(c)'
    BY <1>1, <1>5, QueueFetch, QueueDropped
  <1>6. ASSUME NEW r \in c.Requests, NEW p \in Hooks(c)!Paths, Hooks(c)!Route(r, p) PROVE QueueInv(c)'
    BY <1>1, <1>6, QueueRoute
  <1>7. ASSUME NEW r \in c.Requests, Hooks(c)!BadRequest(r) \/ Hooks(c)!Body(r) \/ Hooks(c)!Respond(r) PROVE QueueInv(c)'
    BY <1>1, <1>7, QueueBody, QueueAnswer
  <1>8. QueueInv(c)'
    BY <1>2, <1>3, <1>4, <1>5, <1>6, <1>7 DEF Hooks!Next
  <1> QED BY <1>1, <1>8 DEF HooksInv

(* A set with at most one member. *)
LEMMA CardinalityAtMostOne ==
  ASSUME NEW S, \A x, y \in S : x = y
  PROVE  IF S = {} THEN Cardinality(S) = 0 ELSE Cardinality(S) = 1
  <1>1. CASE S = {}
    BY <1>1, FS_EmptySet
  <1>2. CASE S # {}
    <2>1. PICK x \in S : TRUE
      BY <1>2
    <2>2. S = {x}
      BY <2>1
    <2> QED BY <1>2, <2>2, FS_Singleton
  <1> QED BY <1>1, <1>2

LEMMA QueueMeansOnePlace ==
  ASSUME NEW c, HooksConfig(c), HooksInv(c)
  PROVE  Hooks(c)!TypeOK /\ Hooks(c)!OnePlace
  <1>1. ServerInv(c) /\ QueueInv(c) /\ QueueTypes(c) /\ Alone(c)
    BY DEF HooksInv, QueueInv
  <1>2. Hooks(c)!TypeOK
    <2>1. \A s \in c.Sources : Len(queue[s]) <= c.QueueMax /\ Hooks(c)!Free(s) >= 0
      BY <1>1, InHand DEF QueueInv, Apart
    <2> QED BY <1>1, <2>1 DEF Hooks!TypeOK, ServerInv, QueueTypes
  <1>3. ASSUME NEW r \in c.Requests
        PROVE  Hooks(c)!Places(r) = IF Hooks(c)!Accepted(r) THEN 1 ELSE 0
    <2> DEFINE Q == {s \in c.Sources : r \in Hooks(c)!Events(queue[s])}
               H == {s \in c.Sources : r \in hand[s]}
               P == {s \in c.Sources : r \in putting[s]}
    <2>1. \A s, t \in Q \cup H \cup P : s = t
      BY <1>1 DEF Alone, Busy
    <2>2. \A s \in c.Sources : ~(s \in Q /\ s \in H) /\ ~(s \in Q /\ s \in P) /\ ~(s \in H /\ s \in P)
      BY <1>1 DEF QueueInv, Apart
    <2>3. /\ Q \cup H \cup P # {} => r \notin done /\ r \notin dropped
          /\ ~(r \in done /\ r \in dropped)
      BY <1>1 DEF Alone, Busy, Over
    <2>4. Hooks(c)!Accepted(r) <=> r \in done \/ r \in dropped \/ Q \cup H \cup P # {}
      <3>1. Hooks(c)!Accepted(r) <=> KnownRequest(c, r)
        BY <1>1 DEF QueueInv
      <3>2. (\E s \in c.Sources : r \in Busy(c, s)) <=> Q \cup H \cup P # {}
        BY DEF Busy
      <3> QED BY <3>1, <3>2 DEF KnownRequest, Over
    <2>5. Hooks(c)!Places(r) = Cardinality(Q) + Cardinality(H) + Cardinality(P) + (IF r \in done THEN 1 ELSE 0)
                               + (IF r \in dropped THEN 1 ELSE 0)
      BY HooksCardinality DEF Hooks!Places
    <2>a. Q \subseteq c.Sources /\ H \subseteq c.Sources /\ P \subseteq c.Sources
      OBVIOUS
    <2> HIDE DEF Q, H, P
    <2>6. /\ Cardinality(Q) = IF Q = {} THEN 0 ELSE 1
          /\ Cardinality(H) = IF H = {} THEN 0 ELSE 1
          /\ Cardinality(P) = IF P = {} THEN 0 ELSE 1
      BY <2>1, CardinalityAtMostOne
    <2>7. ~(Q # {} /\ H # {}) /\ ~(Q # {} /\ P # {}) /\ ~(H # {} /\ P # {})
      BY <2>1, <2>2, <2>a
    <2> QED BY <2>3, <2>4, <2>5, <2>6, <2>7
  <1> QED BY <1>2, <1>3 DEF Hooks!OnePlace
--------------------------------------------------------------------------------
LEMMA ScheduleCardinality ==
  ASSUME NEW c, NEW S
  PROVE  Schedule(c)!Cardinality(S) = Cardinality(S)
  BY DEF Schedule!Cardinality, Cardinality

(* The least and the greatest number of a set. *)
LEMMA LeastIs ==
  ASSUME NEW c, NEW S \in SUBSET Nat, S # {}
  PROVE  Schedule(c)!Least(S) \in S /\ \A y \in S : Schedule(c)!Least(S) <= y
  BY SmallestNumber DEF Schedule!Least
LEMMA LeastOfTwo ==
  ASSUME NEW c, NEW a \in Int, NEW b \in Int
  PROVE  Schedule(c)!Least({a, b}) = IF a <= b THEN a ELSE b
  <1>1. (IF a <= b THEN a ELSE b) \in {a, b} /\ \A y \in {a, b} : (IF a <= b THEN a ELSE b) <= y
    OBVIOUS
  <1>2. Schedule(c)!Least({a, b}) \in {a, b} /\ \A y \in {a, b} : Schedule(c)!Least({a, b}) <= y
    BY <1>1 DEF Schedule!Least
  <1> QED BY <1>1, <1>2
LEMMA GreatestOfTwo ==
  ASSUME NEW c, NEW a \in Int, NEW b \in Int
  PROVE  Schedule(c)!Greatest({a, b}) = IF a >= b THEN a ELSE b
  <1>1. (IF a >= b THEN a ELSE b) \in {a, b} /\ \A y \in {a, b} : (IF a >= b THEN a ELSE b) >= y
    OBVIOUS
  <1>2. Schedule(c)!Greatest({a, b}) \in {a, b} /\ \A y \in {a, b} : Schedule(c)!Greatest({a, b}) >= y
    BY <1>1 DEF Schedule!Greatest
  <1> QED BY <1>1, <1>2

(* The place of a number in a finite set of numbers. *)
Rank(D, s) == Cardinality({u \in D : u < s})
LEMMA RankOrder ==
  ASSUME NEW D \in SUBSET Nat, IsFiniteSet(D)
  PROVE  /\ \A s \in D : Rank(D, s) \in 0..(Cardinality(D) - 1)
         /\ \A s, t \in D : s < t => Rank(D, s) < Rank(D, t)
  <1> DEFINE B(s) == {u \in D : u < s}
  <1>1. \A s \in D : IsFiniteSet(B(s)) /\ Cardinality(B(s)) \in Nat
    BY FS_Subset, FS_CardinalityType
  <1>2. ASSUME NEW s \in D PROVE Cardinality(B(s)) < Cardinality(D)
    <2>1. B(s) \in SUBSET D /\ B(s) # D
      OBVIOUS
    <2>2. Cardinality(B(s)) <= Cardinality(D) /\ Cardinality(B(s)) # Cardinality(D) /\ Cardinality(D) \in Nat
      BY <2>1, FS_Subset, FS_CardinalityType
    <2> QED BY <1>1, <2>2
  <1>3. ASSUME NEW s \in D, NEW t \in D, s < t PROVE Cardinality(B(s)) < Cardinality(B(t))
    <2>0. \A u \in D : u \in Nat
      OBVIOUS
    <2>a. \A u \in D : u < s => u < t
      BY <1>3, <2>0
    <2>b. B(s) \in SUBSET B(t)
      BY <2>a
    <2>c. s \in B(t) /\ ~(s < s)
      BY <1>3, <2>0
    <2>1. B(s) \in SUBSET B(t) /\ s \in B(t) /\ s \notin B(s)
      BY <2>b, <2>c
    <2> HIDE DEF B
    <2>2. Cardinality(B(s)) <= Cardinality(B(t)) /\ Cardinality(B(s)) # Cardinality(B(t))
      BY <1>1, <2>1, FS_Subset
    <2> QED BY <1>1, <2>2
  <1>4. Cardinality(D) \in Nat
    BY FS_CardinalityType
  <1>5. \A s \in D : Rank(D, s) = Cardinality(B(s))
    BY DEF Rank
  <1> HIDE DEF B
  <1> QED BY <1>1, <1>2, <1>3, <1>4, <1>5

(* The members of a finite set of numbers, in order. *)
IsSorted(runs, D) ==
  /\ runs \in Seq(D) /\ Len(runs) = Cardinality(D)
  /\ \A i, j \in 1..Len(runs) : i < j => runs[i] < runs[j]
  /\ \A s \in D : \E i \in 1..Len(runs) : runs[i] = s
Ordered(D) == [k \in 1..Cardinality(D) |-> CHOOSE s \in D : Cardinality({u \in D : u < s}) = k - 1]
LEMMA OrderedIsSorted ==
  ASSUME NEW D \in SUBSET Nat, IsFiniteSet(D)
  PROVE  IsSorted(Ordered(D), D)
  <1> DEFINE n == Cardinality(D)
             rank == [s \in D |-> Rank(D, s)]
             runs == Ordered(D)
  <1>1. n \in Nat
    BY FS_CardinalityType
  <1>2. /\ \A s \in D : Rank(D, s) \in 0..(n - 1)
        /\ \A s, t \in D : s < t => Rank(D, s) < Rank(D, t)
    BY RankOrder
  <1> HIDE DEF n
  <1>3. \A s, t \in D : Rank(D, s) = Rank(D, t) => s = t
    <2> SUFFICES ASSUME NEW s \in D, NEW t \in D, Rank(D, s) = Rank(D, t) PROVE s = t
      OBVIOUS
    <2>1. ~(s < t) /\ ~(t < s)
      BY <1>1, <1>2
    <2> QED BY <2>1
  <1>4. rank \in Injection(D, 0..(n - 1))
    BY <1>2, <1>3 DEF Injection, IsInjective
  <1>5. IsFiniteSet(0..(n - 1)) /\ Cardinality(0..(n - 1)) = n
    BY <1>1, FS_Interval
  <1>6. rank \in Surjection(D, 0..(n - 1))
    BY <1>4, <1>5, FS_Injection DEF n
  <1>7. \A k \in 1..n : \E s \in D : Rank(D, s) = k - 1
    <2> SUFFICES ASSUME NEW k \in 1..n PROVE \E s \in D : Rank(D, s) = k - 1
      OBVIOUS
    <2>1. k - 1 \in 0..(n - 1)
      BY <1>1
    <2>2. \E s \in D : rank[s] = k - 1
      BY <1>6, <2>1 DEF Surjection
    <2> QED BY <2>2
  <1>8. runs = [k \in 1..n |-> CHOOSE s \in D : Rank(D, s) = k - 1]
    BY DEF Ordered, Rank, n
  <1>9. \A k \in 1..n : runs[k] \in D /\ Rank(D, runs[k]) = k - 1
    BY <1>7, <1>8
  <1> HIDE DEF runs
  <1>10. runs \in Seq(D) /\ Len(runs) = n
    BY <1>1, <1>8, <1>9
  <1>11. ASSUME NEW i \in 1..n, NEW j \in 1..n, i < j PROVE runs[i] < runs[j]
    <2>1. Rank(D, runs[i]) = i - 1 /\ Rank(D, runs[j]) = j - 1 /\ runs[i] \in D /\ runs[j] \in D
      BY <1>9
    <2>a. runs[i] \in Nat /\ runs[j] \in Nat
      BY <2>1
    <2>b. i - 1 \in Nat /\ j - 1 \in Nat /\ i - 1 < j - 1
      BY <1>1, <1>11
    <2>2. Rank(D, runs[i]) < Rank(D, runs[j]) /\ runs[i] \in Nat /\ runs[j] \in Nat
          /\ Rank(D, runs[i]) \in Nat /\ Rank(D, runs[j]) \in Nat
      BY <2>1, <2>a, <2>b
    <2>3. ~(runs[j] < runs[i]) /\ runs[i] # runs[j]
      BY <1>2, <2>1, <2>2
    <2> QED BY <2>2, <2>3
  <1>12. ASSUME NEW s \in D PROVE \E i \in 1..n : runs[i] = s
    <2>1. Rank(D, s) + 1 \in 1..n /\ (Rank(D, s) + 1) - 1 = Rank(D, s)
      BY <1>1, <1>2
    <2>2. runs[Rank(D, s) + 1] = s
      BY <1>3, <1>9, <2>1
    <2> QED BY <2>1, <2>2
  <1>13. Len(runs) = Cardinality(D)
    BY <1>10 DEF n
  <1>14. IsSorted(runs, D)
    BY <1>10, <1>11, <1>12, <1>13 DEF IsSorted
  <1> QED BY <1>14 DEF runs

(* The first of the retries: as many as there is room for. *)
FirstOf(c, R, limit) == {r \in R : Cardinality({s \in R : Schedule(c)!Before(s, r)}) < limit}
Sequenced(R) == /\ \A r \in R : r.at \in Nat /\ r.seq \in Nat
                /\ \A r, s \in R : r.seq = s.seq => r = s
LEMMA FirstFit ==
  ASSUME NEW c, NEW R, IsFiniteSet(R), Sequenced(R), NEW limit \in Nat
  PROVE  IsFiniteSet(FirstOf(c, R, limit)) /\ Cardinality(FirstOf(c, R, limit)) <= limit
  <1> DEFINE B(r) == {s \in R : Schedule(c)!Before(s, r)}
             F == FirstOf(c, R, limit)
             place == [r \in F |-> Cardinality(B(r))]
  <1>1. \A r \in R : IsFiniteSet(B(r)) /\ Cardinality(B(r)) \in Nat
    BY FS_Subset, FS_CardinalityType
  <1>2. ASSUME NEW r \in R, NEW s \in R, Schedule(c)!Before(r, s) PROVE Cardinality(B(r)) < Cardinality(B(s))
    <2>1. \A t \in R : Schedule(c)!Before(t, r) => Schedule(c)!Before(t, s)
      BY <1>2 DEF Sequenced, Schedule!Before
    <2>2. ~Schedule(c)!Before(r, r)
      BY DEF Sequenced, Schedule!Before
    <2>3. B(r) \in SUBSET B(s) /\ r \in B(s) /\ r \notin B(r)
      BY <1>2, <2>1, <2>2
    <2> HIDE DEF B
    <2>4. Cardinality(B(r)) <= Cardinality(B(s)) /\ Cardinality(B(r)) # Cardinality(B(s))
      BY <1>1, <2>3, FS_Subset
    <2> QED BY <1>1, <2>4
  <1>3. ASSUME NEW r \in R, NEW s \in R, r # s PROVE Schedule(c)!Before(r, s) \/ Schedule(c)!Before(s, r)
    BY <1>3 DEF Sequenced, Schedule!Before
  <1>4. \A r \in F : r \in R /\ Cardinality(B(r)) < limit
    BY DEF FirstOf
  <1> HIDE DEF B, F
  <1>5. ASSUME NEW r \in F, NEW s \in F, place[r] = place[s] PROVE r = s
    BY <1>1, <1>2, <1>3, <1>4, <1>5
  <1>6. place \in [F -> 0..(limit - 1)]
    BY <1>1, <1>4
  <1>7. place \in Injection(F, 0..(limit - 1))
    BY <1>5, <1>6 DEF Injection, IsInjective
  <1>8. IsFiniteSet(0..(limit - 1)) /\ Cardinality(0..(limit - 1)) = limit
    BY FS_Interval
  <1>9. IsFiniteSet(F) /\ Cardinality(F) <= limit
    BY <1>7, <1>8, FS_Injection
  <1> QED BY <1>9 DEF F
--------------------------------------------------------------------------------
(* What every schedule needs. *)
ScheduleConfig(c) ==
  /\ c.Kind \in {"interval", "cron"} /\ c.Interval \in Nat \ {0} /\ c.CronSlots \in SUBSET Nat
  /\ c.Immediate \in BOOLEAN /\ c.Overlap \in {"allow", "skip", "queue"} /\ c.MaxQueued \in Nat
  /\ c.Concurrency \in Nat /\ c.MaxNow \in Nat \ {0} /\ c.MaxAttempts \in Nat /\ c.MaxPauses \in Nat
  /\ c.MaxDue \in Nat \ {0} /\ c.MaxLeaks \in Nat

(* Two deliveries of one run have its slot and its number. *)
Same(x, y) == x.slot = y.slot /\ x.id = y.id
Apiece(S) == \A x, y \in S : Same(x, y) => x = y
Strangers(S, T) == \A x \in S : \A y \in T : ~Same(x, y)

Delivery(c) == [slot : Nat, attempts : 0..c.MaxAttempts, id : Nat]
IsDelivery(c, d) == d \in Delivery(c) /\ d.slot \in Nat /\ d.attempts \in 0..c.MaxAttempts /\ d.id \in Nat
IsRetry(c, r) == r.slot \in Nat /\ r.attempts \in 1..c.MaxAttempts /\ r.id \in Nat /\ r.at \in Nat /\ r.seq \in Nat

(* The deliveries o in the runner's hands, and the runs r that wait for their retry. *)
InHands(c, o, r) ==
  /\ IsFiniteSet(o) /\ (\A d \in o : IsDelivery(c, d)) /\ Apiece(o)
  /\ IsFiniteSet(r) /\ (\A x \in r : IsRetry(c, x)) /\ Apiece(r) /\ Sequenced(r)
  /\ Strangers(o, r)
CountInv(c) ==
  /\ InHands(c, out, retries) /\ Cardinality(out) <= c.Concurrency
  /\ leaked \in Nat /\ inflight = Cardinality(out) + leaked
(* It is kept, and what was dropped stays dropped. *)
StillCounts(c) == CountInv(c)' /\ leaked' >= leaked

(* The next time n to fire after t: no slot of the cron expression is passed over. *)
IsNext(c, t, n) ==
  /\ n \in Nat /\ n > t /\ (c.Kind = "cron" /\ n <= c.MaxNow => n \in c.CronSlots)
  /\ c.Kind = "cron" => \A s \in c.CronSlots : s <= t \/ n <= s
ClockInv(c) ==
  /\ now \in 1..c.MaxNow /\ nextFire \in Nat /\ nextFire >= 1 /\ immediate \in BOOLEAN
  /\ c.Kind = "cron" /\ nextFire <= c.MaxNow => nextFire \in c.CronSlots
  /\ immediate => queued = <<>> /\ out = {} /\ retries = {} /\ leaked = 0
  /\ queued \in Seq(Nat) /\ Len(queued) <= c.MaxQueued /\ pauses \in 0..c.MaxPauses
--------------------------------------------------------------------------------
LEMMA NextFireIs ==
  ASSUME NEW c, ScheduleConfig(c), NEW t \in 0..c.MaxNow
  PROVE  IsNext(c, t, Schedule(c)!NextFireAfter(t))
  <1>0. t \in Nat /\ c.MaxNow \in Nat /\ t <= c.MaxNow
    BY DEF ScheduleConfig
  <1>1. CASE c.Kind = "interval"
    <2>1. Schedule(c)!NextFireAfter(t) = t + c.Interval
      BY <1>1 DEF Schedule!NextFireAfter
    <2> QED BY <1>0, <1>1, <2>1 DEF IsNext, ScheduleConfig
  <1>2. CASE c.Kind = "cron"
    <2> DEFINE S == {s \in c.CronSlots : s > t}
               n == Schedule(c)!NextFireAfter(t)
    <2>1. n = IF S = {} THEN c.MaxNow + 100 ELSE Schedule(c)!Least(S)
      BY <1>2 DEF Schedule!NextFireAfter, Schedule!CronNext, Schedule!Never
    <2>2. \A s \in c.CronSlots : s \in Nat
      BY DEF ScheduleConfig
    <2> HIDE DEF n
    <2>3. CASE S = {}
      <3>1. n = c.MaxNow + 100
        BY <2>1, <2>3
      <3>2. \A s \in c.CronSlots : s <= t
        BY <1>0, <2>2, <2>3
      <3>3. n \in Nat /\ n > t /\ ~(n <= c.MaxNow)
        BY <1>0, <3>1
      <3> QED BY <3>2, <3>3 DEF IsNext, n
    <2>4. CASE S # {}
      <3>1. n = Schedule(c)!Least(S)
        BY <2>1, <2>4
      <3>2. S \in SUBSET Nat
        BY <2>2
      <3>3. n \in S /\ \A y \in S : n <= y
        BY <2>4, <3>1, <3>2, LeastIs
      <3>4. n \in Nat /\ n > t /\ n \in c.CronSlots
        BY <2>2, <3>3
      <3>5. \A s \in c.CronSlots : s <= t \/ n <= s
        BY <1>0, <2>2, <3>3
      <3> QED BY <3>4, <3>5 DEF IsNext, n
    <2> QED BY <2>3, <2>4
  <1> QED BY <1>1, <1>2 DEF ScheduleConfig

(* The first time n to fire, at t or after it. *)
IsFirst(c, t, n) ==
  /\ n \in Nat /\ n >= t /\ (c.Kind = "cron" /\ n <= c.MaxNow => n \in c.CronSlots)
  /\ c.Kind = "cron" => \A s \in c.CronSlots : s < t \/ n <= s
LEMMA InitialFireIs ==
  ASSUME NEW c, ScheduleConfig(c), NEW t \in 0..c.MaxNow
  PROVE  IsFirst(c, t, Schedule(c)!InitialFireAt(t))
  <1>0. t \in Nat /\ \A s \in c.CronSlots : s \in Nat
    BY DEF ScheduleConfig
  <1>1. CASE c.Kind = "cron" /\ t \in c.CronSlots
    <2>1. Schedule(c)!InitialFireAt(t) = t
      BY <1>1 DEF Schedule!InitialFireAt
    <2> QED BY <1>0, <1>1, <2>1 DEF IsFirst
  <1>2. CASE ~(c.Kind = "cron" /\ t \in c.CronSlots)
    <2>1. Schedule(c)!InitialFireAt(t) = Schedule(c)!NextFireAfter(t)
      BY <1>2 DEF Schedule!InitialFireAt
    <2>2. IsNext(c, t, Schedule(c)!InitialFireAt(t))
      BY <2>1, NextFireIs
    <2>3. c.Kind = "cron" => \A s \in c.CronSlots : s < t \/ Schedule(c)!InitialFireAt(t) <= s
      <3> SUFFICES ASSUME c.Kind = "cron", NEW s \in c.CronSlots
                   PROVE  s < t \/ Schedule(c)!InitialFireAt(t) <= s
        OBVIOUS
      <3>1. s # t /\ (s <= t \/ Schedule(c)!InitialFireAt(t) <= s)
        BY <1>2, <2>2 DEF IsNext
      <3> QED BY <1>0, <3>1
    <2> QED BY <1>0, <2>2, <2>3 DEF IsNext, IsFirst
  <1> QED BY <1>1, <1>2

(* The runs that are due: from nextFire to now, in order, and no slot is missing. *)
IsDue(c, runs) ==
  /\ runs \in Seq(Nat) /\ Len(runs) >= 1
  /\ \A i, j \in 1..Len(runs) : i < j => runs[i] < runs[j]
  /\ \A i \in 1..Len(runs) : nextFire <= runs[i] /\ runs[i] <= now
  /\ c.Kind = "cron" => \A s \in c.CronSlots : nextFire <= s /\ s <= runs[Len(runs)] => \E i \in 1..Len(runs) : runs[i] = s
LEMMA DueRunsAre ==
  ASSUME NEW c, ScheduleConfig(c), ClockInv(c), nextFire <= now
  PROVE  IsDue(c, Schedule(c)!DueRuns)
  <1> DEFINE D == Schedule(c)!Due
             runs == Schedule(c)!DueRuns
  <1>1. now \in Nat /\ nextFire \in Nat /\ now <= c.MaxNow /\ c.MaxNow \in Nat
    BY DEF ClockInv, ScheduleConfig
  <1>2. D = {s \in nextFire..now : IF c.Kind = "cron" THEN s \in c.CronSlots ELSE (s - nextFire) % c.Interval = 0}
    BY DEF Schedule!Due
  <1>3. D \in SUBSET (nextFire..now) /\ (c.Kind = "cron" => \A s \in c.CronSlots : s \in nextFire..now => s \in D)
    BY <1>2
  <1>4. nextFire \in D
    <2>1. nextFire \in nextFire..now
      BY <1>1
    <2>2. CASE c.Kind = "cron"
      BY <1>1, <1>2, <2>1, <2>2 DEF ClockInv
    <2>3. CASE c.Kind # "cron"
      <3>1. c.Interval \in Nat \ {0}
        BY DEF ScheduleConfig
      <3>2. nextFire - nextFire = 0 /\ 0 % c.Interval = 0
        BY <1>1, <3>1
      <3> QED BY <1>2, <2>1, <2>3, <3>2
    <2> QED BY <2>2, <2>3
  <1>5. IsFiniteSet(D) /\ D \in SUBSET Nat /\ \A s \in D : nextFire <= s /\ s <= now
    <2>1. IsFiniteSet(nextFire..now)
      BY <1>1, FS_Interval
    <2> QED BY <1>1, <1>3, <2>1, FS_Subset
  <1> HIDE DEF D
  <1> DEFINE n == Cardinality(D)
             m == Schedule(c)!Least({n, c.MaxDue})
             all == Ordered(D)
             nth(k) == CHOOSE s \in D : Cardinality({u \in D : u < s}) = k - 1
  <1>6. runs = [k \in 1..m |-> nth(k)]
    BY DEF Schedule!DueRuns, D, Schedule!Cardinality, Cardinality
  <1>c. all = [k \in 1..n |-> nth(k)]
    BY DEF Ordered
  <1>7. IsSorted(all, D)
    BY <1>5, OrderedIsSorted
  <1>a. n \in Nat /\ n >= 1 /\ m \in Nat /\ m >= 1 /\ m <= n
    <2>1. n \in Nat /\ n # 0
      BY <1>4, <1>5, FS_CardinalityType, FS_EmptySet
    <2>2. c.MaxDue \in Nat /\ c.MaxDue >= 1
      BY DEF ScheduleConfig
    <2> HIDE DEF n
    <2>3. m = IF n <= c.MaxDue THEN n ELSE c.MaxDue
      BY <2>1, <2>2, LeastOfTwo
    <2> HIDE DEF m
    <2> QED BY <2>1, <2>2, <2>3
  <1> HIDE DEF runs, m, n, all, nth
  <1>d. \A k \in 1..m : k \in 1..n
    BY <1>a
  <1>b. \A k \in 1..m : runs[k] = all[k]
    BY <1>6, <1>c, <1>d
  <1>8. /\ Len(all) = n /\ (\A i \in 1..n : all[i] \in D) /\ (\A i, j \in 1..n : i < j => all[i] < all[j])
        /\ \A s \in D : \E i \in 1..n : all[i] = s
    BY <1>7 DEF IsSorted, n
  <1>9. runs \in Seq(Nat) /\ Len(runs) = m /\ \A i \in 1..m : runs[i] \in D
    <2>1. \A i \in 1..m : runs[i] \in D /\ runs[i] \in Nat
      BY <1>5, <1>8, <1>d, <1>b
    <2>2. runs = [i \in 1..m |-> runs[i]]
      BY <1>6
    <2>3. runs \in Seq(Nat) /\ Len(runs) = m
      BY <1>a, <2>1, <2>2, ListOf
    <2> QED BY <2>1, <2>3
  <1>10. ASSUME NEW i \in 1..m, NEW j \in 1..m, i < j PROVE runs[i] < runs[j]
    BY <1>8, <1>10, <1>a, <1>b
  <1>11. \A i \in 1..m : nextFire <= runs[i] /\ runs[i] <= now
    BY <1>5, <1>9
  <1>12. ASSUME c.Kind = "cron", NEW s \in c.CronSlots, nextFire <= s, s <= runs[m]
         PROVE  \E i \in 1..m : runs[i] = s
    <2>1. m \in 1..m /\ runs[m] \in Nat /\ runs[m] <= now /\ s \in Nat /\ runs[m] = all[m]
      BY <1>9, <1>11, <1>a, <1>b DEF ScheduleConfig
    <2>2. s \in nextFire..now
      BY <1>1, <1>12, <2>1
    <2>3. PICK i \in 1..n : all[i] = s
      BY <1>3, <1>8, <1>12, <2>2
    <2>4. i <= m
      <3>1. m \in 1..n
        BY <1>a
      <3>2. m < i => all[m] < all[i]
        BY <1>8, <3>1
      <3>3. m < i => runs[m] < s
        BY <2>1, <2>3, <3>2
      <3> QED BY <1>12, <1>a, <2>1, <3>3
    <2>5. i \in 1..m
      BY <1>a, <2>4
    <2> QED BY <1>b, <2>3, <2>5
  <1>13. IsDue(c, runs)
    BY <1>9, <1>10, <1>11, <1>12, <1>a DEF IsDue
  <1> QED BY <1>13 DEF runs

(* The number of a new run is of no other. *)
LEMMA FreshIs ==
  ASSUME NEW c, ScheduleConfig(c), CountInv(c), NEW t \in Nat
  PROVE  /\ IsDelivery(c, Schedule(c)!Fresh(t)) /\ Schedule(c)!Fresh(t).slot = t /\ Schedule(c)!Fresh(t).attempts = 0
         /\ \A x \in out \cup retries : Schedule(c)!Fresh(t).id # x.id
  <1> DEFINE U == out \cup retries
             n == Cardinality(U)
             ids == {x.id : x \in U}
             free == (1..(n + 1)) \ ids
             i == Schedule(c)!Least(free)
  <1>1. IsFiniteSet(out) /\ IsFiniteSet(retries) /\ \A x \in U : x.id \in Nat
    BY DEF CountInv, InHands, IsDelivery, IsRetry
  <1>2. IsFiniteSet(U) /\ n \in Nat
    BY <1>1, FS_Union, FS_CardinalityType
  <1>3. Schedule(c)!Fresh(t) = [slot |-> t, attempts |-> 0, id |-> i]
    BY ScheduleCardinality DEF Schedule!Fresh
  <1> HIDE DEF U, n
  <1>4. IsFiniteSet(ids) /\ Cardinality(ids) <= n
    <2> DEFINE f == [x \in U |-> x.id]
    <2>1. f \in Surjection(U, ids)
      BY DEF Surjection
    <2> QED BY <1>2, <2>1, FS_Surjection DEF n
  <1>5. free # {}
    <2> SUFFICES ASSUME free = {} PROVE FALSE
      OBVIOUS
    <2>1. 1..(n + 1) \in SUBSET ids
      OBVIOUS
    <2> HIDE DEF ids, free
    <2>2. Cardinality(1..(n + 1)) <= Cardinality(ids)
      BY <1>4, <2>1, FS_Subset
    <2>3. Cardinality(1..(n + 1)) = n + 1
      BY <1>2, FS_Interval
    <2>4. Cardinality(ids) \in Nat
      BY <1>4, FS_CardinalityType
    <2> QED BY <1>2, <1>4, <2>2, <2>3, <2>4
  <1>6. free \in SUBSET Nat
    BY <1>2
  <1>7. i \in free
    BY <1>5, <1>6, LeastIs
  <1>8. i \in Nat /\ \A x \in U : x.id # i
    BY <1>6, <1>7
  <1> HIDE DEF i
  <1>9. [slot |-> t, attempts |-> 0, id |-> i] \in Delivery(c)
    BY <1>8 DEF Delivery, ScheduleConfig
  <1> QED BY <1>3, <1>8, <1>9 DEF IsDelivery, U, ScheduleConfig
--------------------------------------------------------------------------------
(* Deliveries of runs that are neither in the runner's hands nor waiting in r. *)
IsNew(c, ds, r) ==
  /\ IsFiniteSet(ds) /\ (\A d \in ds : IsDelivery(c, d)) /\ Apiece(ds)
  /\ Strangers(ds, out) /\ Strangers(ds, r)

LEMMA Delivered ==
  ASSUME NEW c, ScheduleConfig(c), CountInv(c), NEW ds, IsNew(c, ds, retries'),
         Cardinality(ds) <= c.Concurrency - Cardinality(out),
         Schedule(c)!Deliver(ds), retries' \in SUBSET retries
  PROVE  StillCounts(c)
  <1>0. /\ IsFiniteSet(out) /\ (\A d \in out : IsDelivery(c, d)) /\ Apiece(out) /\ Strangers(out, retries)
        /\ IsFiniteSet(retries) /\ (\A x \in retries : IsRetry(c, x)) /\ Apiece(retries) /\ Sequenced(retries)
        /\ inflight = Cardinality(out) + leaked /\ leaked \in Nat /\ Cardinality(out) <= c.Concurrency
    BY DEF CountInv, InHands
  <1>1. /\ inflight' = inflight + Cardinality(ds)
        /\ \/ out' = out \cup ds /\ leaked' = leaked
           \/ out' = out /\ leaked' = leaked + Cardinality(ds)
    BY ScheduleCardinality DEF Schedule!Deliver
  <1>2. out \cap ds = {}
    BY DEF IsNew, Strangers, Same
  <1>3. IsFiniteSet(ds) /\ Cardinality(ds) \in Nat /\ Cardinality(out) \in Nat
    BY <1>0, FS_CardinalityType DEF IsNew
  <1>6. IsFiniteSet(retries') /\ (\A x \in retries' : IsRetry(c, x)) /\ Apiece(retries') /\ Sequenced(retries')
    <2>1. IsFiniteSet(retries')
      BY <1>0, FS_Subset
    <2> QED BY <1>0, <2>1 DEF Apiece, Sequenced
  <1>7. CASE out' = out \cup ds /\ leaked' = leaked
    <2>1. IsFiniteSet(out') /\ Cardinality(out') = Cardinality(out) + Cardinality(ds)
      <3>1. IsFiniteSet(out \cup ds) /\ Cardinality(out \cup ds) = Cardinality(out) + Cardinality(ds) - Cardinality(out \cap ds)
        BY <1>0, <1>3, FS_Union
      <3>2. Cardinality(out \cap ds) = 0
        BY <1>2, FS_EmptySet
      <3> QED BY <1>3, <1>7, <3>1, <3>2
    <2>2. (\A d \in out' : IsDelivery(c, d)) /\ Apiece(out') /\ Strangers(out', retries')
      BY <1>0, <1>7 DEF IsNew, Apiece, Strangers, Same
    <2>3. inflight' = Cardinality(out') + leaked' /\ Cardinality(out') <= c.Concurrency /\ leaked' \in Nat /\ leaked' >= leaked
      BY <1>0, <1>1, <1>3, <1>7, <2>1 DEF ScheduleConfig
    <2> QED BY <1>6, <2>1, <2>2, <2>3 DEF StillCounts, CountInv, InHands
  <1>8. CASE out' = out /\ leaked' = leaked + Cardinality(ds)
    <2>1. Strangers(out', retries')
      BY <1>0, <1>8 DEF Strangers
    <2>2. inflight' = Cardinality(out') + leaked' /\ Cardinality(out') <= c.Concurrency /\ leaked' \in Nat /\ leaked' >= leaked
      BY <1>0, <1>1, <1>3, <1>8
    <2> QED BY <1>0, <1>6, <1>8, <2>1, <2>2 DEF StillCounts, CountInv, InHands
  <1> QED BY <1>1, <1>7, <1>8

(* The first runs of a sequence of slots, delivered. *)
LEMMA FreshOnes ==
  ASSUME NEW c, ScheduleConfig(c), CountInv(c), NEW runs \in Seq(Nat), NEW m \in 0..Len(runs)
  PROVE  /\ IsNew(c, {Schedule(c)!Fresh(runs[i]) : i \in 1..m}, retries)
         /\ Cardinality({Schedule(c)!Fresh(runs[i]) : i \in 1..m}) <= m
  <1> DEFINE F(t) == Schedule(c)!Fresh(t)
             ds == {Schedule(c)!Fresh(runs[i]) : i \in 1..m}
             f == [i \in 1..m |-> Schedule(c)!Fresh(runs[i])]
  <1>1. \A t \in Nat : /\ IsDelivery(c, F(t)) /\ F(t).slot = t
                       /\ \A x \in out \cup retries : F(t).id # x.id
    BY FreshIs
  <1>2. m \in Nat /\ \A i \in 1..m : runs[i] \in Nat
    OBVIOUS
  <1>3. f \in Surjection(1..m, ds)
    BY DEF Surjection
  <1>4. IsFiniteSet(1..m) /\ Cardinality(1..m) = m
    BY <1>2, FS_Interval
  <1>5. IsFiniteSet(ds) /\ Cardinality(ds) <= m
    BY <1>3, <1>4, FS_Surjection
  <1>6. \A d \in ds : \E t \in Nat : d = F(t)
    BY <1>2
  <1> HIDE DEF ds, F
  <1>7. Apiece(ds)
    BY <1>1, <1>6 DEF Apiece, Same
  <1>8. Strangers(ds, out) /\ Strangers(ds, retries)
    BY <1>1, <1>6 DEF Strangers, Same
  <1>9. \A d \in ds : IsDelivery(c, d)
    BY <1>1, <1>6
  <1>10. IsNew(c, ds, retries) /\ Cardinality(ds) <= m
    BY <1>5, <1>7, <1>8, <1>9 DEF IsNew
  <1> QED BY <1>10 DEF ds

LEMMA FreshOne ==
  ASSUME NEW c, ScheduleConfig(c), CountInv(c), NEW t \in Nat
  PROVE  IsNew(c, {Schedule(c)!Fresh(t)}, retries) /\ Cardinality({Schedule(c)!Fresh(t)}) = 1
  <1> DEFINE d == Schedule(c)!Fresh(t)
  <1>1. IsDelivery(c, d) /\ \A x \in out \cup retries : d.id # x.id
    BY FreshIs
  <1> HIDE DEF d
  <1>2. IsFiniteSet({d}) /\ Cardinality({d}) = 1
    BY FS_Singleton
  <1>3. IsNew(c, {d}, retries) /\ Cardinality({d}) = 1
    BY <1>1, <1>2 DEF IsNew, Apiece, Strangers, Same
  <1> QED BY <1>3 DEF d

(* What a policy does with runs: it delivers the first of them, the last of them, or none. *)
LEMMA HandleCounts ==
  ASSUME NEW c, ScheduleConfig(c), CountInv(c), NEW runs \in Seq(Nat), Len(runs) >= 1,
         NEW limit \in Nat, limit > 0, limit = c.Concurrency - Cardinality(out),
         Schedule(c)!HandleDueRuns(runs, limit), retries' = retries
  PROVE  StillCounts(c)
  <1>0. Len(runs) \in Nat /\ runs[Len(runs)] \in Nat /\ Head(runs) \in Nat
    OBVIOUS
  <1>1. ASSUME NEW ds, Schedule(c)!Deliver(ds), IsNew(c, ds, retries), Cardinality(ds) <= limit
        PROVE  StillCounts(c)
    BY <1>1, Delivered
  <1>2. ASSUME NEW t \in Nat, Schedule(c)!Deliver({Schedule(c)!Fresh(t)})
        PROVE  StillCounts(c)
    BY <1>1, <1>2, FreshOne
  <1>3. ASSUME UNCHANGED <<out, inflight, leaked>> PROVE StillCounts(c)
    BY <1>3 DEF StillCounts, CountInv, InHands
  <1>4. CASE c.Overlap = "allow"
    <2> DEFINE m == Schedule(c)!Least({Len(runs), limit})
    <2>1. Schedule(c)!Deliver({Schedule(c)!Fresh(runs[i]) : i \in 1..m})
      BY <1>4 DEF Schedule!HandleDueRuns
    <2>2. m \in 0..Len(runs) /\ m <= limit
      BY <1>0, LeastOfTwo
    <2> HIDE DEF m
    <2> DEFINE ds == {Schedule(c)!Fresh(runs[i]) : i \in 1..m}
    <2>3. IsNew(c, ds, retries) /\ Cardinality(ds) <= m
      BY <2>2, FreshOnes
    <2>4. Cardinality(ds) \in Nat
      BY <2>3, FS_CardinalityType DEF IsNew
    <2> HIDE DEF ds
    <2>5. Cardinality(ds) <= limit
      BY <1>0, <2>2, <2>3, <2>4
    <2> QED BY <1>1, <2>1, <2>3, <2>5 DEF ds
  <1>5. CASE c.Overlap = "skip"
    <2>1. Schedule(c)!Deliver({Schedule(c)!Fresh(runs[Len(runs)])}) \/ UNCHANGED <<out, inflight, leaked>>
      BY <1>5 DEF Schedule!HandleDueRuns
    <2> QED BY <1>0, <1>2, <1>3, <2>1
  <1>6. CASE c.Overlap = "queue"
    <2>1. Schedule(c)!Deliver({Schedule(c)!Fresh(Head(runs))}) \/ UNCHANGED <<out, inflight, leaked>>
      BY <1>6 DEF Schedule!HandleDueRuns
    <2> QED BY <1>0, <1>2, <1>3, <2>1
  <1> QED BY <1>4, <1>5, <1>6 DEF ScheduleConfig

(* The retries that are ready, delivered again. *)
Redelivery(r) == [slot |-> r.slot, attempts |-> r.attempts, id |-> r.id]
LEMMA RetriesCount ==
  ASSUME NEW c, ScheduleConfig(c), CountInv(c), NEW F \in SUBSET retries,
         Cardinality(F) <= c.Concurrency - Cardinality(out),
         Schedule(c)!Deliver({Redelivery(r) : r \in F}), retries' = retries \ F
  PROVE  StillCounts(c)
  <1> DEFINE ds == {Redelivery(r) : r \in F}
             f == [r \in F |-> Redelivery(r)]
  <1>0. /\ IsFiniteSet(retries) /\ (\A x \in retries : IsRetry(c, x)) /\ Apiece(retries) /\ Strangers(out, retries)
        /\ IsFiniteSet(out)
    BY DEF CountInv, InHands
  <1>1. IsFiniteSet(F) /\ Cardinality(F) \in Nat /\ Cardinality(out) \in Nat
    BY <1>0, FS_Subset, FS_CardinalityType
  <1>2. f \in Surjection(F, ds)
    BY DEF Surjection
  <1>3. IsFiniteSet(ds) /\ Cardinality(ds) <= Cardinality(F) /\ Cardinality(ds) \in Nat
    BY <1>1, <1>2, FS_Surjection, FS_CardinalityType
  <1>4. ASSUME NEW r \in F PROVE IsDelivery(c, Redelivery(r)) /\ Redelivery(r).slot = r.slot /\ Redelivery(r).id = r.id
    <2>1. r.slot \in Nat /\ r.attempts \in 0..c.MaxAttempts /\ r.id \in Nat
      BY <1>0 DEF IsRetry, ScheduleConfig
    <2> QED BY <2>1 DEF IsDelivery, Delivery, Redelivery
  <1>5. \A d \in ds : \E r \in F : d = Redelivery(r)
    OBVIOUS
  <1> HIDE DEF ds
  <1>6. \A d \in ds : IsDelivery(c, d) /\ \E r \in F : d = Redelivery(r) /\ d.slot = r.slot /\ d.id = r.id
    BY <1>4, <1>5
  <1>7. Apiece(ds)
    BY <1>0, <1>6 DEF Apiece, Same
  <1>8. Strangers(ds, out)
    BY <1>0, <1>6 DEF Strangers, Same
  <1>9. Strangers(ds, retries')
    BY <1>0, <1>6 DEF Strangers, Apiece, Same
  <1>10. IsNew(c, ds, retries') /\ retries' \in SUBSET retries
    BY <1>3, <1>6, <1>7, <1>8, <1>9 DEF IsNew
  <1>11. Cardinality(ds) <= c.Concurrency - Cardinality(out)
    BY <1>1, <1>3 DEF ScheduleConfig
  <1>12. Schedule(c)!Deliver(ds)
    BY DEF ds
  <1> QED BY <1>10, <1>11, <1>12, Delivered

LEMMA FetchCounts ==
  ASSUME NEW c, ScheduleConfig(c), ClockInv(c), CountInv(c), Schedule(c)!Fetch
  PROVE  StillCounts(c)
  <1> DEFINE limit == c.Concurrency - Cardinality(out)
  <1>0. /\ IsFiniteSet(out) /\ Cardinality(out) \in Nat /\ IsFiniteSet(retries) /\ Sequenced(retries)
        /\ inflight = Cardinality(out) + leaked
    BY FS_CardinalityType DEF CountInv, InHands
  <1>1. Schedule(c)!Cardinality(out) = Cardinality(out) /\ limit \in Nat /\ limit > 0
    <2>1. Schedule(c)!Cardinality(out) = Cardinality(out)
      BY ScheduleCardinality
    <2>2. c.Concurrency - Schedule(c)!Cardinality(out) > 0
      BY DEF Schedule!Fetch
    <2> QED BY <1>0, <2>1, <2>2 DEF ScheduleConfig
  <1>a. now \in Nat /\ queued \in Seq(Nat)
    BY DEF ClockInv
  <1>2. ASSUME NEW F, F = {r \in Schedule(c)!ReadyRetries :
                  Schedule(c)!Cardinality({s \in Schedule(c)!ReadyRetries : Schedule(c)!Before(s, r)}) < c.Concurrency - Schedule(c)!Cardinality(out)},
               retries' = retries \ F,
               Schedule(c)!Deliver({[slot |-> r.slot, attempts |-> r.attempts, id |-> r.id] : r \in F})
        PROVE  StillCounts(c)
    <2> DEFINE R == Schedule(c)!ReadyRetries
    <2>1. R \in SUBSET retries
      BY DEF Schedule!ReadyRetries
    <2>2. IsFiniteSet(R) /\ Sequenced(R)
      BY <1>0, <2>1, FS_Subset DEF Sequenced
    <2>3. F = FirstOf(c, R, limit)
      BY <1>1, <1>2, ScheduleCardinality DEF FirstOf
    <2> HIDE DEF R
    <2>4. Cardinality(F) <= limit
      BY <1>1, <2>2, <2>3, FirstFit
    <2>5. F \in SUBSET retries
      BY <2>1, <2>3 DEF FirstOf
    <2>6. Schedule(c)!Deliver({Redelivery(r) : r \in F})
      BY <1>2 DEF Redelivery
    <2> QED BY <1>2, <2>4, <2>5, <2>6, RetriesCount
  <1>3. ASSUME Schedule(c)!HandleDueRuns(<<now>>, limit), retries' = retries PROVE StillCounts(c)
    <2> DEFINE runs == <<now>>
    <2>1. runs \in Seq(Nat) /\ Len(runs) >= 1
      BY <1>a
    <2>2. Schedule(c)!HandleDueRuns(runs, limit) /\ retries' = retries
      BY <1>3
    <2> HIDE DEF runs
    <2> QED BY <1>1, <2>1, <2>2, HandleCounts
  <1>4. ASSUME Schedule(c)!QueueReady, Schedule(c)!Deliver({Schedule(c)!Fresh(Head(queued))}), retries' = retries
        PROVE  StillCounts(c)
    <2>1. Head(queued) \in Nat
      BY <1>a, <1>4 DEF Schedule!QueueReady
    <2> DEFINE ds == {Schedule(c)!Fresh(Head(queued))}
    <2>2. IsNew(c, ds, retries') /\ Cardinality(ds) = 1
      BY <1>4, <2>1, FreshOne
    <2>3. Schedule(c)!Deliver(ds) /\ retries' \in SUBSET retries
      BY <1>4
    <2> HIDE DEF ds
    <2>4. Cardinality(ds) <= c.Concurrency - Cardinality(out)
      BY <1>1, <2>2
    <2> QED BY <2>2, <2>3, <2>4, Delivered
  <1>5. ASSUME nextFire <= now, Schedule(c)!HandleDueRuns(Schedule(c)!DueRuns, limit), retries' = retries
        PROVE  StillCounts(c)
    <2>1. Schedule(c)!DueRuns \in Seq(Nat) /\ Len(Schedule(c)!DueRuns) >= 1
      BY <1>5, DueRunsAre DEF IsDue
    <2> QED BY <1>1, <1>5, <2>1, HandleCounts
  <1> HIDE DEF limit
  <1>6. limit = c.Concurrency - Schedule(c)!Cardinality(out)
    BY <1>1 DEF limit
  <1> QED BY <1>2, <1>3, <1>4, <1>5, <1>6 DEF Schedule!Fetch
--------------------------------------------------------------------------------
(* The largest number of a finite set of numbers. *)
LEMMA GreatestIs ==
  ASSUME NEW c, NEW S \in SUBSET Nat, IsFiniteSet(S), S # {}
  PROVE  Schedule(c)!Greatest(S) \in S /\ \A y \in S : Schedule(c)!Greatest(S) >= y
  <1> DEFINE n == Cardinality(S)
  <1>1. n \in Nat /\ n # 0
    BY FS_CardinalityType, FS_EmptySet
  <1>2. IsSorted(Ordered(S), S)
    BY OrderedIsSorted
  <1> DEFINE r == Ordered(S)
  <1> HIDE DEF r, n
  <1>3. /\ Len(r) = n /\ (\A i \in 1..n : r[i] \in S) /\ (\A i, j \in 1..n : i < j => r[i] < r[j])
        /\ \A s \in S : \E i \in 1..n : r[i] = s
    BY <1>2 DEF IsSorted, n, r
  <1>4. n \in 1..n /\ r[n] \in S
    BY <1>1, <1>3
  <1>5. ASSUME NEW y \in S PROVE r[n] >= y
    <2>1. PICK i \in 1..n : r[i] = y
      BY <1>3
    <2>2. r[n] \in Nat /\ y \in Nat
      BY <1>4
    <2>3. i = n \/ i < n
      BY <1>1
    <2> QED BY <1>3, <1>4, <2>1, <2>2, <2>3
  <1> QED BY <1>4, <1>5 DEF Schedule!Greatest

(* A delivery leaves the runner's hands, and the count goes down by one. *)
LEMMA HandsDown ==
  ASSUME NEW c, ScheduleConfig(c), CountInv(c), NEW d \in out
  PROVE  /\ IsFiniteSet(out \ {d}) /\ Cardinality(out \ {d}) \in Nat
         /\ Schedule(c)!Greatest({0, inflight - 1}) = Cardinality(out \ {d}) + leaked /\ leaked \in Nat
         /\ Cardinality(out \ {d}) <= c.Concurrency
  <1>1. /\ IsFiniteSet(out) /\ Cardinality(out) <= c.Concurrency
        /\ leaked \in Nat /\ inflight = Cardinality(out) + leaked
    BY DEF CountInv, InHands
  <1>2. IsFiniteSet(out \ {d}) /\ Cardinality(out \ {d}) = Cardinality(out) - 1
    BY <1>1, FS_RemoveElement
  <1>3. Cardinality(out \ {d}) \in Nat /\ Cardinality(out) \in Nat
    BY <1>1, <1>2, FS_CardinalityType
  <1>4. Schedule(c)!Greatest({0, inflight - 1}) = inflight - 1
    BY <1>1, <1>2, <1>3, GreatestOfTwo
  <1> QED BY <1>1, <1>2, <1>3, <1>4 DEF ScheduleConfig

LEMMA FinishCounts ==
  ASSUME NEW c, ScheduleConfig(c), CountInv(c), NEW d \in out, Schedule(c)!Finish(d)
  PROVE  CountInv(c)'
  <1>1. out' = out \ {d} /\ inflight' = Schedule(c)!Greatest({0, inflight - 1}) /\ UNCHANGED <<retries, leaked>>
    BY DEF Schedule!Finish
  <1>2. /\ IsFiniteSet(out') /\ Cardinality(out') <= c.Concurrency
        /\ leaked' \in Nat /\ inflight' = Cardinality(out') + leaked'
    BY <1>1, HandsDown
  <1>3. InHands(c, out, retries)
    BY DEF CountInv
  <1>4. (\A x \in out' : IsDelivery(c, x)) /\ Apiece(out') /\ Strangers(out', retries')
    BY <1>1, <1>3 DEF InHands, Apiece, Strangers
  <1> QED BY <1>1, <1>2, <1>3, <1>4 DEF CountInv, InHands

LEMMA RetryCounts ==
  ASSUME NEW c, ScheduleConfig(c), CountInv(c), ClockInv(c), NEW d \in out, NEW wait \in 0..1, Schedule(c)!Retry(d, wait)
  PROVE  CountInv(c)'
  <1> DEFINE S == {0} \cup {r.seq : r \in retries}
             x == [slot |-> d.slot, attempts |-> d.attempts + 1, id |-> d.id,
                   at |-> now + wait, seq |-> 1 + Schedule(c)!Greatest(S)]
  <1>1. /\ out' = out \ {d} /\ inflight' = Schedule(c)!Greatest({0, inflight - 1})
        /\ retries' = retries \cup {x} /\ d.attempts < c.MaxAttempts /\ leaked' = leaked
    BY DEF Schedule!Retry
  <1>2. /\ IsFiniteSet(out') /\ Cardinality(out') <= c.Concurrency
        /\ leaked' \in Nat /\ inflight' = Cardinality(out') + leaked'
    BY <1>1, HandsDown
  <1>3. InHands(c, out, retries)
    BY DEF CountInv
  <1>4. Schedule(c)!Greatest(S) \in Nat /\ \A r \in retries : r.seq <= Schedule(c)!Greatest(S)
    <2>1. S \in SUBSET Nat /\ S # {}
      BY <1>3 DEF InHands, IsRetry
    <2>2. IsFiniteSet(S)
      <3> DEFINE T == {r.seq : r \in retries}
                 f == [r \in retries |-> r.seq]
      <3>1. f \in Surjection(retries, T)
        BY DEF Surjection
      <3>2. IsFiniteSet(T)
        BY <1>3, <3>1, FS_Surjection DEF InHands
      <3>3. IsFiniteSet({0})
        BY FS_Singleton
      <3> QED BY <3>2, <3>3, FS_Union
    <2>3. Schedule(c)!Greatest(S) \in S /\ \A y \in S : Schedule(c)!Greatest(S) >= y
      BY <2>1, <2>2, GreatestIs
    <2> QED BY <1>3, <2>1, <2>3 DEF InHands, IsRetry
  <1> DEFINE g == Schedule(c)!Greatest(S)
  <1> HIDE DEF g, S
  <1>5. IsRetry(c, x) /\ Same(x, d) /\ \A r \in retries : r.seq < x.seq
    <2>1. d.slot \in Nat /\ d.attempts \in 0..c.MaxAttempts /\ d.id \in Nat /\ now \in Nat /\ c.MaxAttempts \in Nat
      BY <1>3 DEF InHands, IsDelivery, ClockInv, ScheduleConfig
    <2>2. g \in Nat /\ \A r \in retries : r.seq <= g /\ r.seq \in Nat
      BY <1>3, <1>4 DEF g, InHands, IsRetry
    <2>3. x = [slot |-> d.slot, attempts |-> d.attempts + 1, id |-> d.id, at |-> now + wait, seq |-> 1 + g]
      BY DEF g
    <2> HIDE DEF x
    <2>4. d.attempts + 1 \in 1..c.MaxAttempts /\ now + wait \in Nat /\ 1 + g \in Nat
      BY <1>1, <2>1, <2>2
    <2>5. x.slot = d.slot /\ x.attempts = d.attempts + 1 /\ x.id = d.id /\ x.at = now + wait /\ x.seq = 1 + g
      BY <2>3
    <2>6. \A r \in retries : r.seq < x.seq
      BY <2>2, <2>5
    <2> QED BY <2>1, <2>4, <2>5, <2>6 DEF IsRetry, Same
  <1> HIDE DEF x
  <1>6. IsFiniteSet(retries') /\ \A r \in retries' : IsRetry(c, r)
    <2>1. IsFiniteSet(retries \cup {x})
      BY <1>3, FS_AddElement DEF InHands
    <2> QED BY <1>1, <1>3, <1>5, <2>1 DEF InHands
  <1>7. \A r \in retries : ~Same(r, x) /\ ~Same(x, r)
    BY <1>3, <1>5 DEF InHands, Strangers, Same
  <1>8. Apiece(retries')
    BY <1>1, <1>3, <1>7 DEF InHands, Apiece
  <1>9. Sequenced(retries')
    BY <1>1, <1>3, <1>5 DEF InHands, Sequenced, IsRetry
  <1>10. (\A o \in out' : IsDelivery(c, o)) /\ Apiece(out')
    BY <1>1, <1>3 DEF InHands, Apiece
  <1>11. \A o \in out' : ~Same(o, x)
    BY <1>1, <1>3, <1>5 DEF InHands, Apiece, Same
  <1>12. Strangers(out', retries')
    BY <1>1, <1>3, <1>11 DEF InHands, Strangers
  <1> QED BY <1>2, <1>6, <1>8, <1>9, <1>10, <1>12 DEF CountInv, InHands

LEMMA CountInvStep ==
  ASSUME NEW c, ScheduleConfig(c), ClockInv(c), CountInv(c), Schedule(c)!Next
  PROVE  CountInv(c)'
  <1>1. CASE Schedule(c)!Fetch
    BY <1>1, FetchCounts DEF StillCounts
  <1>2. CASE Schedule(c)!Tick \/ Schedule(c)!Resume
    <2>1. UNCHANGED <<out, retries, inflight, leaked>>
      BY <1>2 DEF Schedule!Tick, Schedule!Resume
    <2> QED BY <2>1 DEF CountInv, InHands
  <1>3. CASE Schedule(c)!NewLoop
    <2>1. out = {} /\ out' = out /\ retries' = {} /\ inflight' = 0 /\ leaked' = 0
      BY <1>3 DEF Schedule!NewLoop
    <2>2. IsFiniteSet({}) /\ Cardinality({}) = 0
      BY FS_EmptySet
    <2> QED BY <2>1, <2>2 DEF CountInv, InHands, Apiece, Strangers, Sequenced, ScheduleConfig
  <1>4. CASE \E d \in out : Schedule(c)!Settle(d)
    BY <1>4, FinishCounts, RetryCounts DEF Schedule!Settle
  <1> QED BY <1>1, <1>2, <1>3, <1>4 DEF Schedule!Next

(* What the backlog keeps: the last runs, up to its bound. *)
IsKept(c, new, q, m) ==
  /\ new \in Seq(Nat) /\ Len(new) <= c.MaxQueued /\ m \in 0..Len(q) /\ Len(new) = Len(q) - m
  /\ \A i \in 1..Len(new) : new[i] = q[i + m]
LEMMA EnqueueIs ==
  ASSUME NEW c, ScheduleConfig(c), queued \in Seq(Nat), NEW rest \in Seq(Nat)
  PROVE  \E m \in Nat : IsKept(c, Schedule(c)!Enqueue(rest), queued \o rest, m)
  <1> DEFINE q == queued \o rest
             k == Schedule(c)!Least({Len(q), c.MaxQueued})
             new == Schedule(c)!Enqueue(rest)
  <1>1. q \in Seq(Nat) /\ Len(q) \in Nat
    OBVIOUS
  <1>2. new = SubSeq(q, Len(q) - k + 1, Len(q))
    BY DEF Schedule!Enqueue
  <1> HIDE DEF q, new
  <1>3. k \in Nat /\ k <= Len(q) /\ k <= c.MaxQueued
    <2>1. Len(q) \in Int /\ c.MaxQueued \in Int /\ c.MaxQueued \in Nat
      BY <1>1 DEF ScheduleConfig
    <2>2. k = IF Len(q) <= c.MaxQueued THEN Len(q) ELSE c.MaxQueued
      BY <2>1, LeastOfTwo
    <2> HIDE DEF k
    <2> QED BY <1>1, <2>1, <2>2
  <1> HIDE DEF k
  <1> DEFINE m == Len(q) - k
  <1>4. m \in Nat /\ m \in 0..Len(q) /\ Len(q) - m = k /\ m + 1 \in Int
    BY <1>1, <1>3
  <1>5. new = SubSeq(q, m + 1, Len(q))
    BY <1>2
  <1> HIDE DEF m
  <1>6. new = [i \in 1..k |-> q[i + m]]
    BY <1>1, <1>3, <1>4, <1>5
  <1>7. \A i \in 1..k : i + m \in 1..Len(q) /\ q[i + m] \in Nat
    BY <1>1, <1>3, <1>4
  <1>8. new \in Seq(Nat) /\ Len(new) = k /\ \A i \in 1..k : new[i] = q[i + m]
    BY <1>3, <1>6, <1>7
  <1>9. IsKept(c, new, q, m)
    BY <1>3, <1>4, <1>8 DEF IsKept
  <1> QED BY <1>4, <1>9 DEF q, new
--------------------------------------------------------------------------------
(* Runs in order, and runs that all are before others. *)
Rising(q) == \A i, j \in 1..Len(q) : i < j => q[i] < q[j]
Older(S, q) == \A x \in S : \A i \in 1..Len(q) : x < q[i]

(* A schedule that is never paused, or whose task runs one delivery at a time. *)
Steady(c) == c.MaxPauses = 0 \/ c.Concurrency = 1

(* The backlog q of a schedule: in order, of slots that are past, and newer than what was *)
(* dropped; n is the time and f the next time to fire. *)
Backlog(c, q, gone, n, f) ==
  /\ Rising(q) /\ Older(gone, q)
  /\ \A i \in 1..Len(q) : q[i] <= n /\ q[i] < f
  /\ \A x \in gone : x \in Nat /\ x <= n /\ x <= f /\ (c.MaxPauses = 0 => x < f)
(* Every slot before the next one was started, waits or was dropped. *)
Accounted(c, q, gone, begun, f) ==
  \A s \in c.CronSlots : 1 <= s /\ s < f => s \in begun \cup Schedule(c)!Runs(q) \cup gone
(* No stop or pause took a delivery from it, or it is never resumed. *)
Whole(c) == c.MaxPauses = 0 \/ leaked = 0
BacklogInv(c) ==
  c.Overlap = "queue" /\ Steady(c) /\ Whole(c) =>
    /\ Backlog(c, queued, dropped, now, nextFire)
    /\ c.MaxPauses = 0 /\ c.Kind = "cron" =>
         lastSlot \in Nat /\ lastSlot < nextFire /\ Accounted(c, queued, dropped, started, nextFire)

(* What a policy leaves in the backlog is within its bound. *)
LEMMA HandleQueues ==
  ASSUME NEW c, ScheduleConfig(c), queued \in Seq(Nat), Len(queued) <= c.MaxQueued,
         NEW runs \in Seq(Nat), Len(runs) >= 1, NEW limit, Schedule(c)!HandleDueRuns(runs, limit)
  PROVE  queued' \in Seq(Nat) /\ Len(queued') <= c.MaxQueued
  <1>1. ASSUME NEW rest \in Seq(Nat), queued' = Schedule(c)!Enqueue(rest)
        PROVE  queued' \in Seq(Nat) /\ Len(queued') <= c.MaxQueued
    <2>1. PICK m \in Nat : IsKept(c, Schedule(c)!Enqueue(rest), queued \o rest, m)
      BY EnqueueIs
    <2> QED BY <1>1, <2>1 DEF IsKept
  <1>2. runs # <<>> /\ Tail(runs) \in Seq(Nat)
    OBVIOUS
  <1>3. queued' = queued \/ queued' = Schedule(c)!Enqueue(runs) \/ queued' = Schedule(c)!Enqueue(Tail(runs))
    BY DEF Schedule!HandleDueRuns
  <1> QED BY <1>1, <1>2, <1>3

LEMMA ClockInvInit ==
  ASSUME NEW c, ScheduleConfig(c), Schedule(c)!Init
  PROVE  ClockInv(c) /\ CountInv(c) /\ BacklogInv(c)
  <1>1. /\ now = 1 /\ nextFire = Schedule(c)!InitialFireAt(1) /\ immediate = c.Immediate /\ inflight = 0
        /\ queued = <<>> /\ retries = {} /\ out = {} /\ leaked = 0 /\ started = {} /\ dropped = {} /\ lastSlot = 0 /\ pauses = 0
    BY DEF Schedule!Init
  <1>2. IsFirst(c, 1, nextFire)
    BY <1>1, InitialFireIs DEF ScheduleConfig
  <1>3. IsFiniteSet({}) /\ Cardinality({}) = 0
    BY FS_EmptySet
  <1>4. CountInv(c)
    BY <1>1, <1>3 DEF CountInv, InHands, Apiece, Strangers, Sequenced, ScheduleConfig
  <1>5. nextFire \in Nat /\ nextFire >= 1 /\ (c.Kind = "cron" /\ nextFire <= c.MaxNow => nextFire \in c.CronSlots)
    BY <1>2 DEF IsFirst
  <1>6. queued \in Seq(Nat) /\ Len(queued) = 0
    BY <1>1
  <1>7. ClockInv(c)
    BY <1>1, <1>5, <1>6 DEF ClockInv, ScheduleConfig
  <1>8. Backlog(c, queued, dropped, now, nextFire)
    BY <1>1, <1>6 DEF Backlog, Rising, Older
  <1>9. c.Kind = "cron" => Accounted(c, queued, dropped, started, nextFire)
    <2> SUFFICES ASSUME c.Kind = "cron", NEW s \in c.CronSlots, 1 <= s, s < nextFire PROVE FALSE
      BY DEF Accounted
    <2>1. (s < 1 \/ nextFire <= s) /\ s \in Nat
      BY <1>2 DEF IsFirst, ScheduleConfig
    <2> QED BY <1>5, <2>1
  <1>10. BacklogInv(c)
    BY <1>1, <1>5, <1>8, <1>9 DEF BacklogInv
  <1> QED BY <1>4, <1>7, <1>10

(* The branches of a fetch. *)
Again(c) == /\ retries # {} /\ UNCHANGED <<nextFire, immediate, queued, dropped, lastSlot>>
            /\ started \subseteq started'
AtOnce(c) == /\ immediate /\ immediate' = FALSE /\ UNCHANGED <<nextFire, retries, lastSlot>>
             /\ \E limit : Schedule(c)!HandleDueRuns(<<now>>, limit)
FromQueue(c) == /\ ~immediate /\ queued # <<>> /\ queued' = Tail(queued)
                /\ started \cup {Head(queued)} \subseteq started'
                /\ UNCHANGED <<nextFire, immediate, retries, dropped, lastSlot>>
FromClock(c) == /\ ~immediate /\ ~Schedule(c)!QueueReady /\ nextFire <= now
                /\ \E limit : Schedule(c)!HandleDueRuns(Schedule(c)!DueRuns, limit)
                /\ nextFire' = Schedule(c)!NextFireAfter(Schedule(c)!DueRuns[Len(Schedule(c)!DueRuns)])
                /\ lastSlot' = Schedule(c)!DueRuns[Len(Schedule(c)!DueRuns)]
                /\ UNCHANGED <<immediate, retries>>
LEMMA FetchIs ==
  ASSUME NEW c, ScheduleConfig(c), ClockInv(c), CountInv(c), Schedule(c)!Fetch
  PROVE  /\ Again(c) \/ AtOnce(c) \/ FromQueue(c) \/ FromClock(c)
         /\ UNCHANGED <<now, pauses>> /\ Cardinality(out) < c.Concurrency
  <1>1. UNCHANGED <<now, pauses>> /\ c.Concurrency - Cardinality(out) > 0
    BY ScheduleCardinality DEF Schedule!Fetch
  <1>2. Cardinality(out) < c.Concurrency
    <2>1. Cardinality(out) \in Nat
      BY FS_CardinalityType DEF CountInv, InHands
    <2> QED BY <1>1, <2>1 DEF ScheduleConfig
  <1>3. ASSUME NEW ds, Schedule(c)!Deliver(ds) PROVE started \subseteq started'
    BY <1>3 DEF Schedule!Deliver
  <1>4. ASSUME queued # <<>>, Schedule(c)!Deliver({Schedule(c)!Fresh(Head(queued))}) PROVE Head(queued) \in started'
    <2>1. Head(queued) \in Nat
      BY <1>4 DEF ClockInv
    <2>2. Schedule(c)!Fresh(Head(queued)).slot = Head(queued) /\ Schedule(c)!Fresh(Head(queued)).attempts = 0
      BY <2>1, FreshIs
    <2> QED BY <1>4, <2>2 DEF Schedule!Deliver
  <1>5. Again(c) \/ AtOnce(c) \/ FromQueue(c) \/ FromClock(c)
    <2> DEFINE limit == c.Concurrency - Schedule(c)!Cardinality(out)
               ready == Schedule(c)!ReadyRetries
    <2>1. \/ /\ ready # {} /\ UNCHANGED <<nextFire, immediate, queued, dropped, lastSlot>>
             /\ \E ds : Schedule(c)!Deliver(ds)
          \/ /\ immediate /\ immediate' = FALSE /\ UNCHANGED <<nextFire, retries, lastSlot>>
             /\ Schedule(c)!HandleDueRuns(<<now>>, limit)
          \/ /\ ~immediate /\ Schedule(c)!QueueReady /\ queued' = Tail(queued)
             /\ Schedule(c)!Deliver({Schedule(c)!Fresh(Head(queued))})
             /\ UNCHANGED <<nextFire, immediate, retries, dropped, lastSlot>>
          \/ /\ ~immediate /\ ~Schedule(c)!QueueReady /\ nextFire <= now
             /\ Schedule(c)!HandleDueRuns(Schedule(c)!DueRuns, limit)
             /\ nextFire' = Schedule(c)!NextFireAfter(Schedule(c)!DueRuns[Len(Schedule(c)!DueRuns)])
             /\ lastSlot' = Schedule(c)!DueRuns[Len(Schedule(c)!DueRuns)]
             /\ UNCHANGED <<immediate, retries>>
      BY DEF Schedule!Fetch
    <2>2. ready # {} => retries # {}
      BY DEF Schedule!ReadyRetries
    <2>3. Schedule(c)!QueueReady => queued # <<>>
      BY DEF Schedule!QueueReady
    <2> HIDE DEF limit, ready
    <2> QED BY <1>3, <1>4, <2>1, <2>2, <2>3 DEF Again, AtOnce, FromQueue, FromClock
  <1> QED BY <1>1, <1>2, <1>5
--------------------------------------------------------------------------------
(* The last run that is due is the newest, and the next time to fire comes after it. *)
LEMMA LastDue ==
  ASSUME NEW c, ScheduleConfig(c), ClockInv(c), FromClock(c)
  PROVE  LET runs == Schedule(c)!DueRuns
             newest == runs[Len(runs)]
         IN  /\ IsDue(c, runs) /\ IsNext(c, newest, nextFire') /\ lastSlot' = newest /\ newest \in Nat
             /\ nextFire <= newest /\ newest <= now
             /\ \A i \in 1..Len(runs) : runs[i] <= newest
  <1> DEFINE runs == Schedule(c)!DueRuns
             newest == runs[Len(runs)]
  <1>1. IsDue(c, runs) /\ nextFire' = Schedule(c)!NextFireAfter(newest) /\ lastSlot' = newest
    BY DueRunsAre DEF FromClock
  <1> HIDE DEF runs
  <1>2. Len(runs) \in Nat /\ Len(runs) \in 1..Len(runs) /\ \A i \in 1..Len(runs) : runs[i] \in Nat
    BY <1>1 DEF IsDue
  <1>3. newest \in Nat /\ nextFire <= newest /\ newest <= now
    BY <1>1, <1>2 DEF IsDue
  <1>4. ASSUME NEW i \in 1..Len(runs) PROVE runs[i] <= newest
    <2>1. i = Len(runs) \/ i < Len(runs)
      BY <1>2
    <2>2. i < Len(runs) => runs[i] < newest
      BY <1>1, <1>2 DEF IsDue
    <2> QED BY <1>2, <2>1, <2>2
  <1>5. newest \in 0..c.MaxNow
    <2>1. now \in Nat /\ now <= c.MaxNow /\ c.MaxNow \in Nat
      BY DEF ClockInv, ScheduleConfig
    <2> HIDE DEF newest
    <2> QED BY <1>3, <2>1
  <1>6. IsNext(c, newest, nextFire')
    BY <1>1, <1>5, NextFireIs
  <1> QED BY <1>1, <1>3, <1>4, <1>6 DEF runs

LEMMA ClockInvStep ==
  ASSUME NEW c, ScheduleConfig(c), ClockInv(c), CountInv(c), Schedule(c)!Next
  PROVE  ClockInv(c)'
  <1>0. /\ now \in 1..c.MaxNow /\ now \in Nat /\ nextFire \in Nat /\ nextFire >= 1 /\ immediate \in BOOLEAN /\ c.MaxNow \in Nat
        /\ c.Kind = "cron" /\ nextFire <= c.MaxNow => nextFire \in c.CronSlots
        /\ immediate => queued = <<>> /\ out = {} /\ retries = {} /\ leaked = 0
        /\ queued \in Seq(Nat) /\ Len(queued) \in Nat /\ Len(queued) <= c.MaxQueued /\ pauses \in 0..c.MaxPauses
    BY DEF ClockInv, ScheduleConfig
  <1>a. <<>> \in Seq(Nat) /\ Len(<<>>) = 0 /\ c.MaxQueued \in Nat /\ c.MaxPauses \in Nat
    BY DEF ScheduleConfig
  <1>1. CASE Schedule(c)!Fetch
    <2>1. UNCHANGED <<now, pauses>>
      BY <1>1, FetchIs
    <2>2. CASE Again(c)
      <3>1. UNCHANGED <<nextFire, immediate, queued>> /\ ~immediate
        BY <1>0, <2>2 DEF Again
      <3> QED BY <1>0, <2>1, <3>1 DEF ClockInv
    <2>3. CASE AtOnce(c)
      <3> DEFINE runs == <<now>>
      <3>1. PICK limit : Schedule(c)!HandleDueRuns(runs, limit)
        BY <2>3 DEF AtOnce
      <3>2. runs \in Seq(Nat) /\ Len(runs) >= 1
        BY <1>0
      <3> HIDE DEF runs
      <3>3. queued' \in Seq(Nat) /\ Len(queued') <= c.MaxQueued
        BY <1>0, <3>1, <3>2, HandleQueues
      <3>4. immediate' = FALSE /\ nextFire' = nextFire
        BY <2>3 DEF AtOnce
      <3> QED BY <1>0, <2>1, <3>3, <3>4 DEF ClockInv
    <2>4. CASE FromQueue(c)
      <3>1. UNCHANGED <<nextFire, immediate>> /\ ~immediate /\ queued # <<>> /\ queued' = Tail(queued)
        BY <2>4 DEF FromQueue
      <3>2. queued' \in Seq(Nat) /\ Len(queued') = Len(queued) - 1
        BY <1>0, <3>1
      <3>3. Len(queued') <= c.MaxQueued
        BY <1>0, <1>a, <3>2
      <3> QED BY <1>0, <2>1, <3>1, <3>2, <3>3 DEF ClockInv
    <2>5. CASE FromClock(c)
      <3> DEFINE runs == Schedule(c)!DueRuns
                 newest == runs[Len(runs)]
      <3>1. IsDue(c, runs) /\ IsNext(c, newest, nextFire') /\ newest \in Nat /\ nextFire <= newest
        BY <2>5, LastDue
      <3>2. immediate' = immediate /\ ~immediate
        BY <2>5 DEF FromClock
      <3>3. PICK limit : Schedule(c)!HandleDueRuns(runs, limit)
        BY <2>5 DEF FromClock
      <3> HIDE DEF runs, newest
      <3>4. runs \in Seq(Nat) /\ Len(runs) >= 1
        BY <3>1 DEF IsDue
      <3>5. queued' \in Seq(Nat) /\ Len(queued') <= c.MaxQueued
        BY <1>0, <3>3, <3>4, HandleQueues
      <3>6. nextFire' \in Nat /\ nextFire' >= 1 /\ (c.Kind = "cron" /\ nextFire' <= c.MaxNow => nextFire' \in c.CronSlots)
        BY <1>0, <3>1 DEF IsNext
      <3> QED BY <1>0, <2>1, <3>2, <3>5, <3>6 DEF ClockInv
    <2> QED BY <1>1, <2>2, <2>3, <2>4, <2>5, FetchIs
  <1>2. CASE Schedule(c)!Tick
    <2>1. now < c.MaxNow /\ now' = now + 1 /\ UNCHANGED <<nextFire, immediate, queued, retries, out, leaked, pauses>>
      BY <1>2 DEF Schedule!Tick
    <2> QED BY <1>0, <2>1 DEF ClockInv
  <1>3. IsFirst(c, now, Schedule(c)!InitialFireAt(now))
    BY <1>0, InitialFireIs
  <1>4. CASE Schedule(c)!Resume
    <2>1. /\ pauses < c.MaxPauses /\ pauses' = pauses + 1 /\ immediate' = FALSE /\ queued' = <<>>
          /\ nextFire' = Schedule(c)!InitialFireAt(now) /\ now' = now
      BY <1>4 DEF Schedule!Resume
    <2>2. nextFire' \in Nat /\ nextFire' >= 1 /\ (c.Kind = "cron" /\ nextFire' <= c.MaxNow => nextFire' \in c.CronSlots)
      BY <1>0, <1>3, <2>1 DEF IsFirst
    <2>3. queued' \in Seq(Nat) /\ Len(queued') <= c.MaxQueued
      BY <1>a, <2>1
    <2>4. pauses' \in 0..c.MaxPauses
      <3>1. pauses \in 0..c.MaxPauses /\ pauses < c.MaxPauses /\ pauses' = pauses + 1
        BY <1>0, <2>1
      <3> QED BY <1>a, <3>1
    <2>5. now' \in 1..c.MaxNow /\ immediate' \in BOOLEAN /\ ~immediate'
      BY <1>0, <2>1, Zenon
    <2> QED BY <2>2, <2>3, <2>4, <2>5 DEF ClockInv
  <1>5. CASE Schedule(c)!NewLoop
    <2>1. /\ pauses < c.MaxPauses /\ pauses' = pauses + 1 /\ immediate' = c.Immediate /\ queued' = <<>>
          /\ nextFire' = Schedule(c)!InitialFireAt(now) /\ now' = now /\ out = {} /\ out' = out /\ retries' = {} /\ leaked' = 0
      BY <1>5 DEF Schedule!NewLoop
    <2>2. nextFire' \in Nat /\ nextFire' >= 1 /\ (c.Kind = "cron" /\ nextFire' <= c.MaxNow => nextFire' \in c.CronSlots)
      BY <1>0, <1>3, <2>1 DEF IsFirst
    <2>3. immediate' \in BOOLEAN
      BY <2>1 DEF ScheduleConfig
    <2> QED BY <1>0, <1>a, <2>1, <2>2, <2>3 DEF ClockInv
  <1>6. CASE \E d \in out : Schedule(c)!Settle(d)
    <2>1. UNCHANGED <<now, nextFire, immediate, queued, pauses>> /\ ~immediate
      BY <1>0, <1>6 DEF Schedule!Settle, Schedule!Finish, Schedule!Retry
    <2> QED BY <1>0, <2>1 DEF ClockInv
  <1> QED BY <1>1, <1>2, <1>4, <1>5, <1>6 DEF Schedule!Next

(* Under skip and queue, a run starts only when nothing is in the runner's hands. *)
LEMMA RunsStartAlone ==
  ASSUME NEW c, ScheduleConfig(c), ClockInv(c), CountInv(c), Schedule(c)!Next
  PROVE  Schedule(c)!StartsAlone
  <1> SUFFICES ASSUME c.Overlap # "allow", NEW d \in out' \ out, d.attempts = 0
               PROVE  out = {} /\ out' = {d}
    BY DEF Schedule!StartsAlone
  <1>0. inflight = 0 => out = {}
    <2>1. IsFiniteSet(out) /\ inflight = Cardinality(out) + leaked /\ leaked \in Nat
      BY DEF CountInv, InHands
    <2>2. Cardinality(out) \in Nat
      BY <2>1, FS_CardinalityType
    <2>3. inflight = 0 => Cardinality(out) = 0
      BY <2>1, <2>2
    <2> QED BY <2>1, <2>3, FS_EmptySet
  <1>1. ASSUME NEW t, inflight = 0, Schedule(c)!Deliver({t}) PROVE out = {} /\ out' = {d}
    <2>1. out' \in {out, out \cup {t}}
      BY <1>1 DEF Schedule!Deliver
    <2> QED BY <1>0, <1>1, <2>1
  <1>2. ASSUME NEW runs, NEW limit, Schedule(c)!HandleDueRuns(runs, limit) PROVE out = {} /\ out' = {d}
    <2>1. \/ inflight = 0 /\ Schedule(c)!Deliver({Schedule(c)!Fresh(runs[Len(runs)])})
          \/ out' = out
          \/ ~(inflight > 0) /\ Schedule(c)!Deliver({Schedule(c)!Fresh(Head(runs))})
      BY <1>2 DEF Schedule!HandleDueRuns
    <2>2. ~(inflight > 0) => inflight = 0
      <3>1. inflight \in Nat
        BY FS_CardinalityType DEF CountInv, InHands
      <3> QED BY <3>1
    <2> QED BY <1>1, <2>1, <2>2
  <1>3. CASE Schedule(c)!Fetch
    <2>1. ASSUME NEW F \in SUBSET retries, Schedule(c)!Deliver({[slot |-> r.slot, attempts |-> r.attempts, id |-> r.id] : r \in F})
          PROVE  FALSE
      <3>1. d \in {[slot |-> r.slot, attempts |-> r.attempts, id |-> r.id] : r \in F}
        BY <2>1 DEF Schedule!Deliver
      <3>2. PICK r \in F : d = [slot |-> r.slot, attempts |-> r.attempts, id |-> r.id]
        BY <3>1
      <3>3. d.attempts = r.attempts /\ r.attempts \in 1..c.MaxAttempts
        BY <3>2 DEF CountInv, InHands, IsRetry
      <3> QED BY <3>3 DEF ScheduleConfig
    <2>2. ASSUME Schedule(c)!QueueReady, Schedule(c)!Deliver({Schedule(c)!Fresh(Head(queued))}) PROVE out = {} /\ out' = {d}
      BY <1>1, <2>2 DEF Schedule!QueueReady
    <2>3. Schedule(c)!ReadyRetries \in SUBSET retries
      BY DEF Schedule!ReadyRetries
    <2> QED BY <1>2, <1>3, <2>1, <2>2, <2>3 DEF Schedule!Fetch
  <1>4. CASE Schedule(c)!Tick \/ Schedule(c)!Resume \/ Schedule(c)!NewLoop \/ \E e \in out : Schedule(c)!Settle(e)
    <2>1. out' \in SUBSET out
      BY <1>4 DEF Schedule!Tick, Schedule!Resume, Schedule!NewLoop, Schedule!Settle, Schedule!Finish, Schedule!Retry
    <2> QED BY <2>1
  <1> QED BY <1>3, <1>4 DEF Schedule!Next

LEMMA CountsMean ==
  ASSUME NEW c, ScheduleConfig(c), ClockInv(c), CountInv(c)
  PROVE  Schedule(c)!TypeOK /\ Schedule(c)!Counted
  <1>1. /\ inflight = Cardinality(out) + leaked /\ Cardinality(out) <= c.Concurrency
        /\ Cardinality(out) \in Nat /\ leaked \in Nat
    BY FS_CardinalityType DEF CountInv, InHands
  <1>2. Schedule(c)!Counted
    BY <1>1, ScheduleCardinality DEF Schedule!Counted
  <1>3. \A d \in out : d.attempts \in 0..c.MaxAttempts
    BY DEF CountInv, InHands, IsDelivery
  <1>4. inflight \in Nat /\ Schedule(c)!Cardinality(out) <= c.Concurrency
    BY <1>1, ScheduleCardinality DEF ScheduleConfig
  <1> QED BY <1>1, <1>2, <1>3, <1>4 DEF Schedule!TypeOK, ClockInv
--------------------------------------------------------------------------------
(* The backlog and the runs behind it. *)
LEMMA JoinedRuns ==
  ASSUME NEW q \in Seq(Nat), NEW rest \in Seq(Nat), NEW f \in Nat, Rising(q), Rising(rest),
         \A i \in 1..Len(q) : q[i] < f, \A i \in 1..Len(rest) : f <= rest[i]
  PROVE  Rising(q \o rest)
  <1> DEFINE s == q \o rest
  <1>1. /\ Len(s) = Len(q) + Len(rest) /\ Len(q) \in Nat /\ Len(rest) \in Nat
        /\ \A i \in 1..Len(q) : s[i] = q[i] /\ q[i] \in Nat
    OBVIOUS
  <1>2. \A i \in (Len(q) + 1)..(Len(q) + Len(rest)) : s[i] = rest[i - Len(q)] /\ i - Len(q) \in 1..Len(rest)
    OBVIOUS
  <1>3. \A i \in 1..Len(rest) : rest[i] \in Nat
    OBVIOUS
  <1> HIDE DEF s
  <1> SUFFICES ASSUME NEW i \in 1..Len(s), NEW j \in 1..Len(s), i < j PROVE s[i] < s[j]
    BY DEF Rising, s
  <1>4. CASE j <= Len(q)
    BY <1>1, <1>4, SMTT(40) DEF Rising
  <1>5. CASE i <= Len(q) /\ j > Len(q)
    <2>1. s[i] = q[i] /\ q[i] < f /\ q[i] \in Nat
      BY <1>1, <1>5
    <2>2. s[j] = rest[j - Len(q)] /\ j - Len(q) \in 1..Len(rest)
      BY <1>1, <1>2, <1>5
    <2>3. f <= s[j] /\ s[j] \in Nat
      BY <1>3, <2>2
    <2> QED BY <2>1, <2>3
  <1>6. CASE i > Len(q)
    <2>1. s[i] = rest[i - Len(q)] /\ i - Len(q) \in 1..Len(rest)
      BY <1>1, <1>2, <1>6
    <2>2. s[j] = rest[j - Len(q)] /\ j - Len(q) \in 1..Len(rest) /\ i - Len(q) < j - Len(q)
      BY <1>1, <1>2, <1>6
    <2> QED BY <2>1, <2>2 DEF Rising
  <1> QED BY <1>1, <1>4, <1>5, <1>6

(* Every run of the joined sequence is of one of the two. *)
LEMMA RunsJoined ==
  ASSUME NEW q \in Seq(Nat), NEW rest \in Seq(Nat), NEW i \in 1..Len(q \o rest)
  PROVE  \/ i \in 1..Len(q) /\ (q \o rest)[i] = q[i]
         \/ \E k \in 1..Len(rest) : (q \o rest)[i] = rest[k]
  <1>1. Len(q \o rest) = Len(q) + Len(rest) /\ Len(q) \in Nat /\ Len(rest) \in Nat
    OBVIOUS
  <1>2. CASE i <= Len(q)
    BY <1>1, <1>2
  <1>3. CASE i > Len(q)
    <2>1. i - Len(q) \in 1..Len(rest) /\ (q \o rest)[i] = rest[i - Len(q)]
      BY <1>1, <1>3
    <2> QED BY <2>1
  <1> QED BY <1>1, <1>2, <1>3
LEMMA JoinedHas ==
  ASSUME NEW q \in Seq(Nat), NEW rest \in Seq(Nat), NEW k \in 1..Len(rest)
  PROVE  \E i \in 1..Len(q \o rest) : (q \o rest)[i] = rest[k]
  <1>1. Len(q) + k \in 1..Len(q \o rest) /\ (q \o rest)[Len(q) + k] = rest[k]
    OBVIOUS
  <1> QED BY <1>1

(* The backlog keeps its newest runs; those that give way are older. *)
Given(c, q, new) == Schedule(c)!Runs(q) \ Schedule(c)!Runs(new)
IsTrimmed(c, gone, q, new) ==
  /\ Rising(new) /\ Older(gone \cup Given(c, q, new), new)
  /\ \A i \in 1..Len(new) : \E j \in 1..Len(q) : new[i] = q[j]
  /\ \A x \in Given(c, q, new) : \E j \in 1..Len(q) : x = q[j]
LEMMA KeptBacklog ==
  ASSUME NEW c, NEW q \in Seq(Nat), NEW new, NEW m \in Nat, IsKept(c, new, q, m), Rising(q), NEW gone, Older(gone, q)
  PROVE  IsTrimmed(c, gone, q, new)
  <1>1. /\ new \in Seq(Nat) /\ m <= Len(q) /\ Len(new) = Len(q) - m /\ Len(q) \in Nat /\ Len(new) \in Nat
        /\ \A i \in 1..Len(new) : new[i] = q[i + m]
    <2>1. new \in Seq(Nat) /\ m \in 0..Len(q) /\ Len(new) = Len(q) - m /\ \A i \in 1..Len(new) : new[i] = q[i + m]
      BY DEF IsKept
    <2>2. Len(q) \in Nat
      OBVIOUS
    <2>3. m <= Len(q) /\ Len(q) - m \in Nat
      BY <2>1, <2>2
    <2> QED BY <2>1, <2>2, <2>3
  <1>2. \A i \in 1..Len(new) : i + m \in 1..Len(q) /\ new[i] = q[i + m]
    <2>1. \A i \in 1..(Len(q) - m) : i + m \in 1..Len(q)
      BY <1>1
    <2> QED BY <1>1, <2>1
  <1>3. Rising(new)
    <2> SUFFICES ASSUME NEW i \in 1..Len(new), NEW j \in 1..Len(new), i < j PROVE new[i] < new[j]
      BY DEF Rising
    <2>1. i + m < j + m
      BY <1>1
    <2> QED BY <1>2, <2>1 DEF Rising
  <1>4. ASSUME NEW x \in Given(c, q, new) PROVE \E j \in 1..Len(q) : x = q[j] /\ \A i \in 1..Len(new) : x < new[i]
    <2>1. PICK j \in 1..Len(q) : x = q[j]
      BY <1>4 DEF Given, Schedule!Runs
    <2>2. ASSUME j > m PROVE FALSE
      <3>1. j - m \in 1..Len(new) /\ (j - m) + m = j
        BY <1>1, <2>2
      <3>2. new[j - m] = x
        BY <1>2, <2>1, <3>1
      <3>3. j - m \in DOMAIN new
        BY <1>1, <3>1
      <3> QED BY <1>4, <3>2, <3>3 DEF Given, Schedule!Runs
    <2>3. ASSUME NEW i \in 1..Len(new) PROVE x < new[i]
      <3>0. i \in Nat /\ i >= 1 /\ j \in Nat /\ j <= m
        BY <1>1, <2>2, SMTT(40)
      <3>1. j < i + m /\ i + m \in 1..Len(q) /\ new[i] = q[i + m]
        BY <1>2, <3>0
      <3> QED BY <2>1, <3>1 DEF Rising
    <2> QED BY <2>1, <2>3
  <1>5. Older(gone, new)
    BY <1>2 DEF Older
  <1>6. Older(gone \cup Given(c, q, new), new)
    BY <1>4, <1>5 DEF Older
  <1> QED BY <1>2, <1>3, <1>4, <1>6 DEF IsTrimmed

(* Runs that come due behind the backlog: those the policy does not start wait or give way. *)
LEMMA BacklogGrows ==
  ASSUME NEW c, ScheduleConfig(c), ClockInv(c), Backlog(c, queued, dropped, now, nextFire),
         NEW rest \in Seq(Nat), Rising(rest), Older(dropped, rest), NEW f \in Nat,
         nextFire <= f, \A i \in 1..Len(rest) : nextFire <= rest[i] /\ rest[i] <= now /\ rest[i] < f,
         queued' = Schedule(c)!Enqueue(rest),
         dropped' = dropped \cup (Schedule(c)!Runs(queued \o rest) \ Schedule(c)!Runs(Schedule(c)!Enqueue(rest)))
  PROVE  /\ Backlog(c, queued', dropped', now, f)
         /\ Schedule(c)!Runs(queued) \cup Schedule(c)!Runs(rest) \subseteq Schedule(c)!Runs(queued') \cup dropped'
  <1> DEFINE q == queued \o rest
  <1>0. queued \in Seq(Nat) /\ q \in Seq(Nat) /\ nextFire \in Nat /\ now \in Nat
    BY DEF ClockInv
  <1>1. PICK m \in Nat : IsKept(c, queued', q, m)
    BY <1>0, EnqueueIs
  <1>2. dropped' = dropped \cup Given(c, q, queued')
    BY DEF Given
  <1>3. Rising(q)
    BY <1>0, JoinedRuns DEF Backlog
  <1>4. \A i \in 1..Len(q) : q[i] \in Nat /\ q[i] <= now /\ q[i] < f /\ \A x \in dropped : x < q[i]
    <2> SUFFICES ASSUME NEW i \in 1..Len(q) PROVE q[i] \in Nat /\ q[i] <= now /\ q[i] < f /\ \A x \in dropped : x < q[i]
      OBVIOUS
    <2>0. q[i] \in Nat
      BY <1>0
    <2>1. CASE i \in 1..Len(queued) /\ q[i] = queued[i]
      BY <1>0, <2>0, <2>1 DEF Backlog, Older
    <2>2. CASE \E k \in 1..Len(rest) : q[i] = rest[k]
      BY <1>0, <2>0, <2>2 DEF Older
    <2> QED BY <1>0, <2>1, <2>2, RunsJoined
  <1>a. \A x \in Schedule(c)!Runs(queued) \cup Schedule(c)!Runs(rest) : x \in Schedule(c)!Runs(q)
    <2>1. \A i \in 1..Len(queued) : i \in 1..Len(q) /\ q[i] = queued[i]
      BY <1>0
    <2>2. \A k \in 1..Len(rest) : \E i \in 1..Len(q) : q[i] = rest[k]
      BY <1>0, JoinedHas
    <2>3. DOMAIN queued = 1..Len(queued) /\ DOMAIN rest = 1..Len(rest) /\ DOMAIN q = 1..Len(q)
      BY <1>0
    <2> HIDE DEF q
    <2> QED BY <2>1, <2>2, <2>3 DEF Schedule!Runs
  <1> HIDE DEF q
  <1>5. Older(dropped, q)
    BY <1>4 DEF Older
  <1>6. /\ Rising(queued') /\ Older(dropped', queued')
        /\ \A i \in 1..Len(queued') : \E j \in 1..Len(q) : queued'[i] = q[j]
        /\ \A x \in Given(c, q, queued') : \E j \in 1..Len(q) : x = q[j]
    <2> DEFINE new == queued'
    <2>1. IsKept(c, new, q, m) /\ q \in Seq(Nat)
      BY <1>0, <1>1
    <2> HIDE DEF new
    <2>2. IsTrimmed(c, dropped, q, new)
      BY <1>3, <1>5, <2>1, KeptBacklog
    <2> QED BY <1>2, <2>2 DEF new, IsTrimmed
  <1>7. \A i \in 1..Len(queued') : queued'[i] <= now /\ queued'[i] < f
    BY <1>4, <1>6
  <1>8. \A x \in dropped' : x \in Nat /\ x <= now /\ x <= f /\ (c.MaxPauses = 0 => x < f)
    <2> SUFFICES ASSUME NEW x \in dropped' PROVE x \in Nat /\ x <= now /\ x <= f /\ (c.MaxPauses = 0 => x < f)
      OBVIOUS
    <2>1. CASE x \in dropped
      BY <1>0, <2>1 DEF Backlog
    <2>2. CASE x \in Given(c, q, queued')
      BY <1>4, <1>6, <2>2
    <2> QED BY <1>2, <2>1, <2>2
  <1>9. Backlog(c, queued', dropped', now, f)
    BY <1>6, <1>7, <1>8 DEF Backlog
  <1>10. Schedule(c)!Runs(q) \subseteq Schedule(c)!Runs(queued') \cup dropped'
    BY <1>2 DEF Given
  <1> QED BY <1>a, <1>9, <1>10
--------------------------------------------------------------------------------
(* Under queue, the oldest run is started when nothing runs; the others join the backlog. *)
Behind(runs) == IF inflight > 0 THEN runs ELSE Tail(runs)
IsHandled(c, runs, rest) ==
  /\ queued' = Schedule(c)!Enqueue(rest)
  /\ dropped' = dropped \cup (Schedule(c)!Runs(queued \o rest) \ Schedule(c)!Runs(Schedule(c)!Enqueue(rest)))
  /\ started \subseteq started' /\ (inflight = 0 => Head(runs) \in started')
LEMMA QueueHandles ==
  ASSUME NEW c, ScheduleConfig(c), CountInv(c), c.Overlap = "queue", NEW runs \in Seq(Nat), Len(runs) >= 1,
         NEW limit, Schedule(c)!HandleDueRuns(runs, limit)
  PROVE  IsHandled(c, runs, Behind(runs))
  <1>1. /\ queued' = Schedule(c)!Enqueue(Behind(runs))
        /\ dropped' = dropped \cup (Schedule(c)!Runs(queued \o Behind(runs)) \ Schedule(c)!Runs(Schedule(c)!Enqueue(Behind(runs))))
        /\ IF inflight > 0 THEN UNCHANGED <<out, inflight, leaked, started>> ELSE Schedule(c)!Deliver({Schedule(c)!Fresh(Head(runs))})
    BY DEF Schedule!HandleDueRuns, Behind
  <1>2. started \subseteq started'
    BY <1>1 DEF Schedule!Deliver
  <1>3. ASSUME inflight = 0 PROVE Head(runs) \in started'
    <2>1. Head(runs) \in Nat
      OBVIOUS
    <2>2. Schedule(c)!Fresh(Head(runs)).slot = Head(runs) /\ Schedule(c)!Fresh(Head(runs)).attempts = 0
      BY <2>1, FreshIs
    <2>3. Schedule(c)!Deliver({Schedule(c)!Fresh(Head(runs))})
      BY <1>1, <1>3
    <2> QED BY <2>2, <2>3 DEF Schedule!Deliver
  <1> QED BY <1>1, <1>2, <1>3 DEF IsHandled

LEMMA BacklogFromClock ==
  ASSUME NEW c, ScheduleConfig(c), ClockInv(c), CountInv(c), c.Overlap = "queue", Steady(c), Whole(c), BacklogInv(c),
         FromClock(c), now' = now, Cardinality(out) < c.Concurrency
  PROVE  BacklogInv(c)'
  <1> DEFINE runs == Schedule(c)!DueRuns
             newest == runs[Len(runs)]
             rest == Behind(runs)
  <1>1. /\ IsDue(c, runs) /\ IsNext(c, newest, nextFire') /\ lastSlot' = newest /\ newest \in Nat
        /\ nextFire <= newest /\ newest <= now /\ \A i \in 1..Len(runs) : runs[i] <= newest
    BY LastDue
  <1>2. PICK limit : Schedule(c)!HandleDueRuns(runs, limit)
    BY DEF FromClock
  <1>a. ~Schedule(c)!QueueReady
    BY DEF FromClock
  <1> HIDE DEF runs
  <1>3. /\ runs \in Seq(Nat) /\ Len(runs) >= 1 /\ Len(runs) \in Nat /\ Rising(runs)
        /\ \A i \in 1..Len(runs) : nextFire <= runs[i] /\ runs[i] <= now /\ runs[i] \in Nat
    BY <1>1 DEF IsDue, Rising
  <1>4. IsHandled(c, runs, rest)
    BY <1>2, <1>3, QueueHandles
  <1>5. nextFire' \in Nat /\ nextFire' > newest /\ nextFire \in Nat /\ now \in Nat
    BY <1>1 DEF IsNext, ClockInv
  <1> HIDE DEF newest
  <1>6. nextFire <= nextFire' /\ nextFire < nextFire' /\ \A i \in 1..Len(runs) : runs[i] < nextFire'
    BY <1>1, <1>3, <1>5
  <1>7. Backlog(c, queued, dropped, now, nextFire)
    BY DEF BacklogInv
  <1>8. inflight \in Nat /\ (inflight > 0 => c.MaxPauses = 0)
    <2>1. inflight = Cardinality(out) + leaked /\ inflight \in Nat /\ leaked \in Nat /\ Cardinality(out) \in Nat
      BY FS_CardinalityType DEF CountInv, InHands
    <2> QED BY <2>1 DEF Steady, Whole, ScheduleConfig
  <1>9. /\ rest \in Seq(Nat) /\ Rising(rest) /\ Older(dropped, rest)
        /\ \A i \in 1..Len(rest) : nextFire <= rest[i] /\ rest[i] <= now /\ rest[i] < nextFire'
    <2>1. CASE inflight > 0
      <3>1. rest = runs /\ c.MaxPauses = 0
        BY <1>8, <2>1 DEF Behind
      <3>2. Older(dropped, runs)
        <4>1. \A x \in dropped : x \in Nat /\ x < nextFire
          BY <1>7, <3>1 DEF Backlog
        <4> QED BY <1>3, <1>5, <4>1 DEF Older
      <3> QED BY <1>3, <1>6, <3>1, <3>2
    <2>2. CASE ~(inflight > 0)
      <3>1. rest = Tail(runs)
        BY <2>2 DEF Behind
      <3>2. rest \in Seq(Nat) /\ Len(rest) = Len(runs) - 1 /\ \A i \in 1..Len(rest) : rest[i] = runs[i + 1]
        BY <1>3, <3>1
      <3> HIDE DEF rest
      <3>3. \A i \in 1..Len(rest) : i + 1 \in 1..Len(runs) /\ rest[i] = runs[i + 1] /\ 1 < i + 1
        BY <1>3, <3>2
      <3>4. Rising(rest)
        <4> SUFFICES ASSUME NEW i \in 1..Len(rest), NEW j \in 1..Len(rest), i < j PROVE rest[i] < rest[j]
          BY DEF Rising
        <4>1. i + 1 < j + 1
          BY <1>3, <3>2
        <4> QED BY <1>3, <3>3, <4>1 DEF Rising
      <3>5. Older(dropped, rest)
        <4> SUFFICES ASSUME NEW x \in dropped, NEW i \in 1..Len(rest) PROVE x < rest[i]
          BY DEF Older
        <4>1. x \in Nat /\ x <= nextFire
          BY <1>7 DEF Backlog
        <4>2. 1 \in 1..Len(runs) /\ nextFire <= runs[1] /\ runs[1] \in Nat
          BY <1>3
        <4>3. runs[1] < rest[i] /\ rest[i] \in Nat
          BY <1>3, <3>3, <4>2 DEF Rising
        <4> QED BY <1>5, <4>1, <4>2, <4>3
      <3> QED BY <1>3, <1>6, <3>2, <3>3, <3>4, <3>5
    <2> QED BY <2>1, <2>2
  <1> HIDE DEF rest
  <1>10. /\ Backlog(c, queued', dropped', now, nextFire')
         /\ Schedule(c)!Runs(queued) \cup Schedule(c)!Runs(rest) \subseteq Schedule(c)!Runs(queued') \cup dropped'
    <2>1. /\ queued' = Schedule(c)!Enqueue(rest)
          /\ dropped' = dropped \cup (Schedule(c)!Runs(queued \o rest) \ Schedule(c)!Runs(Schedule(c)!Enqueue(rest)))
      BY <1>4 DEF IsHandled
    <2> QED BY <1>5, <1>6, <1>7, <1>9, <2>1, BacklogGrows
  <1>11. ASSUME c.MaxPauses = 0, c.Kind = "cron" PROVE Accounted(c, queued', dropped', started', nextFire')
    <2> SUFFICES ASSUME NEW s \in c.CronSlots, 1 <= s, s < nextFire'
                 PROVE  s \in started' \cup Schedule(c)!Runs(queued') \cup dropped'
      BY DEF Accounted
    <2>0. s \in Nat /\ started \subseteq started' /\ dropped \subseteq dropped'
      BY <1>4 DEF ScheduleConfig, IsHandled
    <2>1. CASE s < nextFire
      <3>1. s \in started \cup Schedule(c)!Runs(queued) \cup dropped
        BY <1>11, <2>1 DEF BacklogInv, Accounted
      <3> QED BY <1>10, <2>0, <3>1
    <2>2. CASE nextFire <= s
      <3>1. s <= newest
        BY <1>1, <1>11, <2>0, <1>5 DEF IsNext
      <3>2. s <= now
        BY <1>1, <1>5, <2>0, <3>1
      <3>3. PICK i \in 1..Len(runs) : runs[i] = s
        BY <1>1, <1>11, <2>2, <3>1 DEF IsDue, newest
      <3>4. CASE inflight > 0
        <4>1. rest = runs
          BY <3>4 DEF rest, Behind
        <4>2. i \in DOMAIN runs
          BY <1>3
        <4>3. s \in Schedule(c)!Runs(rest)
          BY <3>3, <4>1, <4>2 DEF Schedule!Runs
        <4> QED BY <1>10, <4>3
      <3>5. CASE ~(inflight > 0) /\ i = 1
        <4>1. Head(runs) = s
          BY <1>3, <3>3, <3>5
        <4>2. inflight = 0
          BY <1>8, <3>5
        <4> QED BY <1>4, <4>1, <4>2 DEF IsHandled
      <3>6. CASE ~(inflight > 0) /\ i # 1
        <4>1. rest = Tail(runs)
          BY <3>6 DEF rest, Behind
        <4>2. i - 1 \in 1..(Len(runs) - 1) /\ (i - 1) + 1 = i
          BY <1>3, <3>6
        <4>3. DOMAIN rest = 1..(Len(runs) - 1) /\ \A k \in 1..(Len(runs) - 1) : rest[k] = runs[k + 1]
          BY <1>3, <4>1
        <4>4. s \in Schedule(c)!Runs(rest)
          BY <3>3, <4>2, <4>3 DEF Schedule!Runs
        <4> QED BY <1>10, <4>4
      <3> QED BY <3>4, <3>5, <3>6
    <2> QED BY <1>5, <2>0, <2>1, <2>2
  <1> QED BY <1>1, <1>5, <1>10, <1>11 DEF BacklogInv

LEMMA BacklogGoesOn ==
  ASSUME NEW c, ScheduleConfig(c), ClockInv(c), CountInv(c), BacklogInv(c), Schedule(c)!Next,
         c.Overlap = "queue", Steady(c), Whole(c)
  PROVE  BacklogInv(c)'
  <1>0. /\ Backlog(c, queued, dropped, now, nextFire) /\ now \in Nat /\ nextFire \in Nat /\ queued \in Seq(Nat)
        /\ now \in 0..c.MaxNow /\ pauses \in 0..c.MaxPauses /\ c.MaxPauses \in Nat /\ nextFire >= 1
    BY DEF BacklogInv, ClockInv, ScheduleConfig
  <1>a. c.MaxPauses = 0 /\ c.Kind = "cron" =>
          lastSlot \in Nat /\ lastSlot < nextFire /\ Accounted(c, queued, dropped, started, nextFire)
    BY DEF BacklogInv
  <1>1. ASSUME UNCHANGED <<queued, dropped, nextFire, lastSlot>>, started \subseteq started', now' \in Nat, now <= now'
        PROVE  BacklogInv(c)'
    <2>1. Backlog(c, queued', dropped', now', nextFire')
      <3>1. \A i \in 1..Len(queued) : queued[i] \in Nat
        BY <1>0
      <3>2. \A i \in 1..Len(queued) : queued[i] <= now'
        BY <1>0, <1>1, <3>1 DEF Backlog
      <3>3. \A x \in dropped : x <= now'
        BY <1>0, <1>1 DEF Backlog
      <3> QED BY <1>0, <1>1, <3>2, <3>3 DEF Backlog
    <2>2. Accounted(c, queued, dropped, started, nextFire) => Accounted(c, queued', dropped', started', nextFire')
      BY <1>1 DEF Accounted
    <2> QED BY <1>a, <1>1, <2>1, <2>2 DEF BacklogInv
  <1>2. CASE Schedule(c)!Fetch
    <2>1. UNCHANGED <<now, pauses>> /\ Cardinality(out) < c.Concurrency
      BY <1>2, FetchIs
    <2>2. CASE Again(c)
      BY <1>0, <1>1, <2>1, <2>2 DEF Again
    <2>3. CASE AtOnce(c)
      <3> DEFINE runs == <<now>>
      <3>1. PICK limit : Schedule(c)!HandleDueRuns(runs, limit)
        BY <2>3 DEF AtOnce
      <3>2. runs \in Seq(Nat) /\ Len(runs) >= 1 /\ Tail(runs) = <<>>
        BY <1>0
      <3>3. UNCHANGED <<nextFire, lastSlot>> /\ queued = <<>> /\ ~(inflight > 0)
        <4>1. immediate /\ UNCHANGED <<nextFire, lastSlot>>
          BY <2>3 DEF AtOnce
        <4>2. queued = <<>> /\ out = {}
          BY <4>1 DEF ClockInv
        <4>3. inflight = 0
          <5>1. leaked = 0 /\ inflight = Cardinality(out) + leaked
            BY <4>1 DEF ClockInv, CountInv
          <5> QED BY <4>2, <5>1, FS_EmptySet
        <4> QED BY <4>1, <4>2, <4>3
      <3> HIDE DEF runs
      <3>4. IsHandled(c, runs, Behind(runs))
        BY <3>1, <3>2, QueueHandles
      <3>5. Behind(runs) = <<>> /\ queued \o <<>> = <<>>
        BY <3>2, <3>3 DEF Behind
      <3>6. queued' = Schedule(c)!Enqueue(<<>>)
            /\ dropped' = dropped \cup (Schedule(c)!Runs(<<>>) \ Schedule(c)!Runs(Schedule(c)!Enqueue(<<>>)))
            /\ started \subseteq started'
        BY <3>4, <3>5 DEF IsHandled
      <3>7. dropped' = dropped
        <4>1. Schedule(c)!Runs(<<>>) = {}
          BY DEF Schedule!Runs
        <4> QED BY <3>6, <4>1
      <3>8. queued' = queued
        <4>1. <<>> \in Seq(Nat)
          OBVIOUS
        <4>2. PICK m \in Nat : IsKept(c, Schedule(c)!Enqueue(<<>>), queued \o <<>>, m)
          BY <1>0, <4>1, EnqueueIs
        <4>3. IsKept(c, queued', <<>>, m)
          BY <3>5, <3>6, <4>2
        <4>4. queued' \in Seq(Nat) /\ m \in 0..0 /\ Len(queued') = 0 - m
          BY <4>3 DEF IsKept
        <4>a. m = 0
          BY <4>4
        <4>5. Len(queued') = 0
          BY <4>4, <4>a
        <4> QED BY <3>3, <4>4, <4>5
      <3> QED BY <1>0, <1>1, <2>1, <3>3, <3>6, <3>7, <3>8
    <2>4. CASE FromQueue(c)
      <3>1. /\ queued # <<>> /\ queued' = Tail(queued) /\ started \cup {Head(queued)} \subseteq started'
            /\ UNCHANGED <<nextFire, dropped, lastSlot>>
        BY <2>4 DEF FromQueue
      <3>2. /\ Len(queued) \in Nat /\ Len(queued) >= 1 /\ Len(queued') = Len(queued) - 1 /\ Head(queued) = queued[1]
            /\ DOMAIN queued = 1..Len(queued) /\ DOMAIN queued' = 1..(Len(queued) - 1)
            /\ \A i \in 1..(Len(queued) - 1) : queued'[i] = queued[i + 1]
        BY <1>0, <3>1
      <3>3. \A i \in 1..Len(queued') : i + 1 \in 1..Len(queued) /\ queued'[i] = queued[i + 1]
        BY <3>2
      <3>4. Rising(queued') /\ Older(dropped, queued')
        <4>1. ASSUME NEW i \in 1..Len(queued'), NEW j \in 1..Len(queued'), i < j PROVE queued'[i] < queued'[j]
          <5>1. i + 1 < j + 1
            BY <3>2, <4>1
          <5> QED BY <1>0, <3>3, <5>1 DEF Backlog, Rising
        <4> QED BY <1>0, <3>3, <4>1 DEF Backlog, Rising, Older
      <3>5. Backlog(c, queued', dropped', now', nextFire')
        BY <1>0, <2>1, <3>1, <3>3, <3>4 DEF Backlog
      <3>6. Schedule(c)!Runs(queued) \subseteq {Head(queued)} \cup Schedule(c)!Runs(queued')
        <4> SUFFICES ASSUME NEW i \in 1..Len(queued), i # 1 PROVE queued[i] \in Schedule(c)!Runs(queued')
          BY <3>2 DEF Schedule!Runs
        <4>1. i - 1 \in 1..(Len(queued) - 1) /\ (i - 1) + 1 = i
          BY <3>2
        <4> QED BY <3>2, <4>1 DEF Schedule!Runs
      <3>7. Accounted(c, queued, dropped, started, nextFire) => Accounted(c, queued', dropped', started', nextFire')
        BY <3>1, <3>6 DEF Accounted
      <3> QED BY <1>a, <3>1, <3>5, <3>7 DEF BacklogInv
    <2>5. CASE FromClock(c)
      BY <2>1, <2>5, BacklogFromClock
    <2> QED BY <1>2, <2>2, <2>3, <2>4, <2>5, FetchIs
  <1>3. CASE Schedule(c)!Tick
    <2>1. now' = now + 1 /\ UNCHANGED <<queued, dropped, nextFire, lastSlot, started>>
      BY <1>3 DEF Schedule!Tick
    <2> QED BY <1>0, <1>1, <2>1
  <1>4. IsFirst(c, now, Schedule(c)!InitialFireAt(now))
    BY <1>0, InitialFireIs
  <1>5. CASE Schedule(c)!Resume
    <2>1. /\ pauses < c.MaxPauses /\ queued' = <<>> /\ nextFire' = Schedule(c)!InitialFireAt(now) /\ now' = now
          /\ dropped' = dropped \cup Schedule(c)!Runs(queued)
      BY <1>5 DEF Schedule!Resume
    <2>2. c.MaxPauses # 0 /\ nextFire' \in Nat /\ nextFire' >= now
      BY <1>0, <1>4, <2>1 DEF IsFirst
    <2>3. \A x \in dropped' : x \in Nat /\ x <= now
      <3>1. \A x \in Schedule(c)!Runs(queued) : x \in Nat /\ x <= now
        <4>1. \A i \in DOMAIN queued : i \in 1..Len(queued) /\ queued[i] \in Nat
          BY <1>0
        <4>2. \A i \in 1..Len(queued) : queued[i] <= now
          BY <1>0 DEF Backlog
        <4> QED BY <4>1, <4>2 DEF Schedule!Runs
      <3> QED BY <1>0, <2>1, <3>1 DEF Backlog
    <2>4. \A x \in dropped' : x <= nextFire'
      BY <1>0, <2>2, <2>3
    <2>5. Len(queued') = 0
      BY <2>1
    <2>6. Backlog(c, queued', dropped', now', nextFire')
      BY <2>1, <2>2, <2>3, <2>4, <2>5 DEF Backlog, Rising, Older
    <2> QED BY <2>2, <2>6 DEF BacklogInv
  <1>6. CASE Schedule(c)!NewLoop
    <2>1. pauses < c.MaxPauses /\ queued' = <<>> /\ dropped' = {}
      BY <1>6 DEF Schedule!NewLoop
    <2>2. c.MaxPauses # 0 /\ Len(queued') = 0
      BY <1>0, <2>1
    <2>3. Backlog(c, queued', dropped', now', nextFire')
      BY <2>1, <2>2 DEF Backlog, Rising, Older
    <2> QED BY <2>2, <2>3 DEF BacklogInv
  <1>7. CASE \E d \in out : Schedule(c)!Settle(d)
    <2>1. UNCHANGED <<now, queued, dropped, nextFire, lastSlot, started>>
      BY <1>7 DEF Schedule!Settle, Schedule!Finish, Schedule!Retry
    <2> QED BY <1>0, <1>1, <2>1
  <1> QED BY <1>2, <1>3, <1>5, <1>6, <1>7 DEF Schedule!Next

LEMMA BacklogInvStep ==
  ASSUME NEW c, ScheduleConfig(c), ClockInv(c), CountInv(c), BacklogInv(c), Schedule(c)!Next
  PROVE  BacklogInv(c)'
  <1> SUFFICES ASSUME c.Overlap = "queue", Steady(c), Whole(c)' PROVE BacklogInv(c)'
    BY DEF BacklogInv, Steady
  <1>1. CASE Schedule(c)!NewLoop
    <2>1. pauses < c.MaxPauses /\ queued' = <<>> /\ dropped' = {}
      BY <1>1 DEF Schedule!NewLoop
    <2>2. c.MaxPauses # 0 /\ Len(queued') = 0
      BY <2>1 DEF ClockInv, ScheduleConfig
    <2>3. Backlog(c, queued', dropped', now', nextFire')
      BY <2>1, <2>2 DEF Backlog, Rising, Older
    <2> QED BY <2>2, <2>3 DEF BacklogInv
  <1>2. CASE ~Schedule(c)!NewLoop
    <2>1. CASE Schedule(c)!Fetch
      <3>1. leaked' >= leaked /\ leaked \in Nat
        BY <2>1, FetchCounts DEF StillCounts, CountInv
      <3>2. leaked' = 0 => leaked = 0
        BY <3>1
      <3>3. Whole(c)
        BY <3>2 DEF Whole
      <3> QED BY <3>3, BacklogGoesOn
    <2>2. CASE ~Schedule(c)!Fetch
      <3>1. leaked' = leaked
        BY <1>2, <2>2 DEF Schedule!Next, Schedule!Tick, Schedule!Resume, Schedule!Settle, Schedule!Finish, Schedule!Retry
      <3>2. Whole(c)
        BY <3>1 DEF Whole
      <3> QED BY <3>2, BacklogGoesOn
    <2> QED BY <2>1, <2>2
  <1> QED BY <1>1, <1>2

LEMMA BacklogMeans ==
  ASSUME NEW c, ScheduleConfig(c), ClockInv(c), BacklogInv(c)
  PROVE  /\ Steady(c) => Schedule(c)!DropsOldest
         /\ c.MaxPauses = 0 => Schedule(c)!QueueKeeps
  <1>0. queued \in Seq(Nat) /\ nextFire \in Nat
    BY DEF ClockInv
  <1>1. ASSUME Steady(c) PROVE Schedule(c)!DropsOldest
    BY <1>1 DEF BacklogInv, Whole, Backlog, Older, Schedule!DropsOldest
  <1>2. ASSUME c.MaxPauses = 0 PROVE Schedule(c)!QueueKeeps
    <2> SUFFICES ASSUME c.Overlap = "queue"
                 PROVE  /\ lastSlot > 0 => \A s \in 1..lastSlot :
                             (c.Kind = "cron" /\ s \in c.CronSlots) => s \in started \cup Schedule(c)!Runs(queued) \cup dropped
                        /\ \A i, j \in 1..Len(queued) : i < j => queued[i] < queued[j]
      BY DEF Schedule!QueueKeeps
    <2>0. Steady(c) /\ Whole(c)
      BY <1>2 DEF Steady, Whole
    <2>1. Rising(queued)
      BY <2>0 DEF BacklogInv, Backlog
    <2>2. ASSUME NEW s \in 1..lastSlot, c.Kind = "cron", s \in c.CronSlots
          PROVE  s \in started \cup Schedule(c)!Runs(queued) \cup dropped
      <3>1. lastSlot \in Nat /\ lastSlot < nextFire /\ Accounted(c, queued, dropped, started, nextFire)
        BY <1>2, <2>0, <2>2 DEF BacklogInv
      <3>2. 1 <= s /\ s < nextFire
        BY <1>0, <3>1
      <3> QED BY <2>2, <3>1, <3>2 DEF Accounted
    <2> QED BY <2>1, <2>2 DEF Rising
  <1> QED BY <1>1, <1>2
--------------------------------------------------------------------------------
(* A step of a component, or one that leaves it alone, keeps its invariant. *)
LEMMA MongoKept ==
  ASSUME NEW c, MongoConfig(c), MongoInv(c), [Mongo(c)!Next]_(Mongo(c)!vars)
  PROVE  MongoInv(c)'
  <1>1. CASE UNCHANGED Mongo(c)!vars
    BY <1>1 DEF Mongo!vars, Mongo!tracker, MongoInv, Cursors
  <1>2. CASE Mongo(c)!Next
    BY <1>2, MongoInvStep
  <1> QED BY <1>1, <1>2

LEMMA OrderKept ==
  ASSUME NEW c, OrderedConfig(c), MongoInv(c), OrderInv(c), [Mongo(c)!Next]_(Mongo(c)!vars)
  PROVE  OrderInv(c)' /\ Mongo(c)!CursorMonotone
  <1>1. raced => raced'
    BY DEF Mongo!Next, Mongo!vars, Mongo!Publish, Mongo!FetchStart, Mongo!PollReturns, Mongo!StreamReturns,
           Mongo!FetchFails, Mongo!FetchBreaks, Mongo!Crash, Mongo!Settle, Mongo!SaveFails, Mongo!Retry,
           Mongo!Retried, Mongo!RetryFails
  <1> SUFFICES ASSUME ~raced', OrderHeld(c)
               PROVE  OrderHeld(c)' /\ store' >= store
    BY <1>1 DEF OrderInv, Mongo!CursorMonotone
  <1>2. CASE UNCHANGED Mongo(c)!vars
    <2>1. UNCHANGED <<head, store, committed, scan, stream, log, popped, generation, invalidated, fetching, alive, settled, origin, faults>>
      BY <1>2 DEF Mongo!vars, Mongo!tracker
    <2>2. OrderHeld(c)'
      BY <2>1 DEF OrderHeld, Covered
    <2>3. store \in Nat
      BY OrderFacts DEF OrderHeld
    <2> QED BY <2>1, <2>2, <2>3
  <1>3. CASE Mongo(c)!Next
    BY <1>3, OrderInvStep
  <1> QED BY <1>2, <1>3

LEMMA HooksKept ==
  ASSUME NEW c, HooksConfig(c), HooksInv(c), [Hooks(c)!Next]_(Hooks(c)!vars)
  PROVE  HooksInv(c)'
  <1>1. CASE UNCHANGED Hooks(c)!vars
    <2>1. UNCHANGED <<life, server, lock, routes, req, status, queue, hand, putting, done, dropped>>
      BY <1>1 DEF Hooks!vars, Hooks!server_vars, Hooks!queue_vars
    <2>2. ServerInv(c)'
      BY <2>1 DEF HooksInv, ServerInv, OpenOn, Hooks!Paths, Hooks!RouteOf
    <2>3. RequestTypes(c)' /\ \A x \in c.Requests : Hooks(c)!Accepted(x)' <=> Hooks(c)!Accepted(x)
      BY <2>1 DEF HooksInv, QueueInv, RequestTypes, Hooks!Accepted, Hooks!Paths, Hooks!RouteOf
    <2>4. QueueInv(c)'
      BY <2>1, <2>3, Answered DEF HooksInv
    <2> QED BY <2>2, <2>4 DEF HooksInv
  <1>2. CASE Hooks(c)!Next
    BY <1>2, HooksInvStep
  <1> QED BY <1>1, <1>2

(* The invariant of a schedule. *)
ScheduleInv(c) == ClockInv(c) /\ CountInv(c) /\ BacklogInv(c)

LEMMA ScheduleKept ==
  ASSUME NEW c, ScheduleConfig(c), ScheduleInv(c), [Schedule(c)!Next]_(Schedule(c)!vars)
  PROVE  ScheduleInv(c)' /\ Schedule(c)!StartsAlone
  <1>1. CASE UNCHANGED Schedule(c)!vars
    <2>1. UNCHANGED <<now, nextFire, immediate, inflight, queued, retries, out, leaked, started, dropped, lastSlot, pauses>>
      BY <1>1 DEF Schedule!vars
    <2>2. ClockInv(c)'
      BY <2>1 DEF ScheduleInv, ClockInv
    <2>3. CountInv(c)'
      BY <2>1 DEF ScheduleInv, CountInv
    <2>4. BacklogInv(c)'
      BY <2>1 DEF ScheduleInv, BacklogInv, Accounted, Whole
    <2>5. Schedule(c)!StartsAlone
      BY <2>1 DEF Schedule!StartsAlone
    <2> QED BY <2>2, <2>3, <2>4, <2>5 DEF ScheduleInv
  <1>2. CASE Schedule(c)!Next
    BY <1>2, ClockInvStep, CountInvStep, BacklogInvStep, RunsStartAlone DEF ScheduleInv
  <1> QED BY <1>1, <1>2

\* Whatever settles late, in whatever order and after whatever failure: no acknowledgement of
\* a generation of deliveries that the MongoDB source gave up moves its cursor.
THEOREM StaleMovesNothing ==
  ASSUME NEW c, MongoConfig(c)
  PROVE  Mongo(c)!Spec => [](Mongo(c)!TypeOK /\ Mongo(c)!StaleNeverAdvances)
  <1>1. Mongo(c)!Init => MongoInv(c)
    BY MongoInvInit
  <1>2. MongoInv(c) /\ [Mongo(c)!Next]_(Mongo(c)!vars) => MongoInv(c)'
    BY MongoKept
  <1>3. MongoInv(c) => Mongo(c)!TypeOK /\ Mongo(c)!StaleNeverAdvances
    BY StaleDoNotAdvance
  <1> QED BY <1>1, <1>2, <1>3, PTL DEF Mongo!Spec

\* The saved cursor of the MongoDB source passes no document whose handler has not finished,
\* and two handlers never work on one document, for any number of documents, batch size and
\* concurrency, with settlements at any time of a fetch, across failed saves, given-up batches
\* and restarts, until the current generation is given up while a fetch is awaited.
THEOREM CursorPassesNothing ==
  ASSUME NEW c, OrderedConfig(c)
  PROVE  Mongo(c)!Spec => [](Mongo(c)!NothingSkipped /\ Mongo(c)!OneHandler)
  <1>1. Mongo(c)!Init => MongoInv(c) /\ OrderInv(c)
    BY MongoInvInit, OrderInvInit DEF OrderedConfig
  <1>2. MongoInv(c) /\ OrderInv(c) /\ [Mongo(c)!Next]_(Mongo(c)!vars) => MongoInv(c)' /\ OrderInv(c)'
    BY MongoKept, OrderKept DEF OrderedConfig
  <1>3. MongoInv(c) /\ OrderInv(c) => Mongo(c)!NothingSkipped /\ Mongo(c)!OneHandler
    BY OrderMeansOneHandler
  <1> QED BY <1>1, <1>2, <1>3, PTL DEF Mongo!Spec

\* A save of the MongoDB source never moves its stored cursor back, until the current
\* generation is given up while a fetch is awaited.
THEOREM CursorNeverMovesBack ==
  ASSUME NEW c, OrderedConfig(c)
  PROVE  Mongo(c)!Spec => [][Mongo(c)!CursorMonotone]_(Mongo(c)!vars)
  <1>1. Mongo(c)!Init => MongoInv(c) /\ OrderInv(c)
    BY MongoInvInit, OrderInvInit DEF OrderedConfig
  <1>2. MongoInv(c) /\ OrderInv(c) /\ [Mongo(c)!Next]_(Mongo(c)!vars) => MongoInv(c)' /\ OrderInv(c)'
    BY MongoKept, OrderKept DEF OrderedConfig
  <1>3. MongoInv(c) /\ OrderInv(c) /\ [Mongo(c)!Next]_(Mongo(c)!vars) => [Mongo(c)!CursorMonotone]_(Mongo(c)!vars)
    BY OrderKept
  <1> QED BY <1>1, <1>2, <1>3, PTL DEF Mongo!Spec

\* Whoever opens and closes the sources that share a webhook server, and whatever fails to
\* start: an open source is the one its route leads to, on a server that listens; and an
\* accepted request is queued, in a handler's hands, waiting to be put back, done, or among the
\* fetched ones that the runner dropped because its task was stopped or paused meanwhile, and in
\* one of these places only, for any number of sources and requests.
THEOREM RequestsInOnePlace ==
  ASSUME NEW c, HooksConfig(c)
  PROVE  Hooks(c)!Spec => [](Hooks(c)!TypeOK /\ Hooks(c)!OnePlace /\ Hooks(c)!OpenIsServed)
  <1>1. Hooks(c)!Init => HooksInv(c)
    BY ServerInvInit, QueueInvInit DEF HooksInv
  <1>2. HooksInv(c) /\ [Hooks(c)!Next]_(Hooks(c)!vars) => HooksInv(c)'
    BY HooksKept
  <1>3. HooksInv(c) => Hooks(c)!TypeOK /\ Hooks(c)!OnePlace /\ Hooks(c)!OpenIsServed
    BY QueueMeansOnePlace, ServerMeansServed DEF HooksInv
  <1> QED BY <1>1, <1>2, <1>3, PTL DEF Hooks!Spec

\* The _inflight counter of a schedule is the number of its deliveries in hand and of those that
\* the runner dropped as its task was stopped or paused, whatever the policy on overlaps,
\* through retries, pauses and late handlers: nothing else leaks, and nothing makes up for a
\* dropped one.
THEOREM RunsInHandCounted ==
  ASSUME NEW c, ScheduleConfig(c)
  PROVE  Schedule(c)!Spec => [](Schedule(c)!TypeOK /\ Schedule(c)!Counted)
  <1>1. Schedule(c)!Init => ScheduleInv(c)
    BY ClockInvInit DEF ScheduleInv
  <1>2. ScheduleInv(c) /\ [Schedule(c)!Next]_(Schedule(c)!vars) => ScheduleInv(c)'
    BY ScheduleKept
  <1>3. ScheduleInv(c) => Schedule(c)!TypeOK /\ Schedule(c)!Counted
    BY CountsMean DEF ScheduleInv
  <1> QED BY <1>1, <1>2, <1>3, PTL DEF Schedule!Spec

\* With the policies "skip" and "queue" a scheduled run starts only while no delivery of the
\* schedule is in hand.
THEOREM RunsNeverOverlap ==
  ASSUME NEW c, ScheduleConfig(c)
  PROVE  Schedule(c)!Spec => [][Schedule(c)!StartsAlone]_(Schedule(c)!vars)
  <1>1. Schedule(c)!Init => ScheduleInv(c)
    BY ClockInvInit DEF ScheduleInv
  <1>2. ScheduleInv(c) /\ [Schedule(c)!Next]_(Schedule(c)!vars) => ScheduleInv(c)'
    BY ScheduleKept
  <1>3. ScheduleInv(c) /\ [Schedule(c)!Next]_(Schedule(c)!vars) => [Schedule(c)!StartsAlone]_(Schedule(c)!vars)
    BY ScheduleKept
  <1> QED BY <1>1, <1>2, <1>3, PTL DEF Schedule!Spec

\* With the policy "queue" a schedule that is not paused misses no slot: each one was started,
\* waits in the backlog or was dropped from it at its limit, and the slots start in order.
THEOREM BacklogMissesNothing ==
  ASSUME NEW c, ScheduleConfig(c), c.MaxPauses = 0
  PROVE  Schedule(c)!Spec => []Schedule(c)!QueueKeeps
  <1>1. Schedule(c)!Init => ScheduleInv(c)
    BY ClockInvInit DEF ScheduleInv
  <1>2. ScheduleInv(c) /\ [Schedule(c)!Next]_(Schedule(c)!vars) => ScheduleInv(c)'
    BY ScheduleKept
  <1>3. ScheduleInv(c) => Schedule(c)!QueueKeeps
    BY BacklogMeans DEF ScheduleInv
  <1> QED BY <1>1, <1>2, <1>3, PTL DEF Schedule!Spec

\* What a backlog at its limit drops is older than all it keeps, in a schedule that no stop or
\* pause took a delivery from; with pauses, while one delivery is in hand at a time.
THEOREM OldestDroppedFirst ==
  ASSUME NEW c, ScheduleConfig(c), Steady(c)
  PROVE  Schedule(c)!Spec => []Schedule(c)!DropsOldest
  <1>1. Schedule(c)!Init => ScheduleInv(c)
    BY ClockInvInit DEF ScheduleInv
  <1>2. ScheduleInv(c) /\ [Schedule(c)!Next]_(Schedule(c)!vars) => ScheduleInv(c)'
    BY ScheduleKept
  <1>3. ScheduleInv(c) => Schedule(c)!DropsOldest
    BY BacklogMeans DEF ScheduleInv
  <1> QED BY <1>1, <1>2, <1>3, PTL DEF Schedule!Spec
--------------------------------------------------------------------------------
(* The checked configurations are among those the results above are about. *)
LEMMA Configured ==
  /\ OrderedConfig(Poll) /\ OrderedConfig(Changes)
  /\ HooksConfig(Webhook) /\ HooksConfig(Events)
  /\ ScheduleConfig(Cron) /\ ScheduleConfig(Every) /\ ScheduleConfig(Paused) /\ ScheduleConfig(Beside)
  /\ Cron.MaxPauses = 0 /\ Steady(Cron) /\ Steady(Paused)
  <1>1. OrderedConfig(Poll) /\ OrderedConfig(Changes)
    BY DEF OrderedConfig, MongoConfig, Poll, Changes
  <1>2. IsFiniteSet({"r1", "r2"}) /\ IsFiniteSet({"r1", "r2", "r3"})
    <2>1. IsFiniteSet({})
      BY FS_EmptySet
    <2>2. IsFiniteSet({} \cup {"r1"})
      BY <2>1, FS_AddElement
    <2>3. IsFiniteSet(({} \cup {"r1"}) \cup {"r2"})
      BY <2>2, FS_AddElement
    <2>4. IsFiniteSet((({} \cup {"r1"}) \cup {"r2"}) \cup {"r3"})
      BY <2>3, FS_AddElement
    <2>5. ({} \cup {"r1"}) \cup {"r2"} = {"r1", "r2"} /\ (({} \cup {"r1"}) \cup {"r2"}) \cup {"r3"} = {"r1", "r2", "r3"}
      OBVIOUS
    <2> QED BY <2>3, <2>4, <2>5
  <1>3. HooksConfig(Webhook) /\ HooksConfig(Events)
    BY <1>2 DEF HooksConfig, Webhook, Events
  <1>4. ScheduleConfig(Cron) /\ ScheduleConfig(Every) /\ ScheduleConfig(Paused) /\ ScheduleConfig(Beside)
    BY DEF ScheduleConfig, Cron, Every, Paused, Beside
  <1>5. Cron.MaxPauses = 0 /\ Steady(Cron) /\ Steady(Paused)
    BY DEF Steady, Cron, Paused
  <1> QED BY <1>1, <1>3, <1>4, <1>5

(* The invariant of the sources, whichever a behaviour is about. *)
FamilyInv ==
  /\ part = "poll" => MongoInv(Poll) /\ OrderInv(Poll)
  /\ part = "stream" => MongoInv(Changes) /\ OrderInv(Changes)
  /\ part = "webhook" => HooksInv(Webhook)
  /\ part = "events" => HooksInv(Events)
  /\ part = "cron" => ScheduleInv(Cron)
  /\ part = "every" => ScheduleInv(Every)
  /\ part = "paused" => ScheduleInv(Paused)
  /\ part = "beside" => ScheduleInv(Beside)

LEMMA FamilyInit ==
  Init => FamilyInv
  <1> SUFFICES ASSUME Init
               PROVE  FamilyInv
    OBVIOUS
  <1>1. /\ part = "poll" => Mongo(Poll)!Init
        /\ part = "stream" => Mongo(Changes)!Init
    BY DEF Init
  <1>2. /\ part = "webhook" => Hooks(Webhook)!Init
        /\ part = "events" => Hooks(Events)!Init
    BY DEF Init
  <1>3. /\ part = "cron" => Schedule(Cron)!Init
        /\ part = "every" => Schedule(Every)!Init
        /\ part = "paused" => Schedule(Paused)!Init
        /\ part = "beside" => Schedule(Beside)!Init
    BY DEF Init
  <1>4. /\ part = "poll" => MongoInv(Poll) /\ OrderInv(Poll)
        /\ part = "stream" => MongoInv(Changes) /\ OrderInv(Changes)
          BY <1>1, Configured, MongoInvInit, OrderInvInit DEF OrderedConfig
  <1>5. /\ part = "webhook" => HooksInv(Webhook)
        /\ part = "events" => HooksInv(Events)
    BY <1>2, Configured, ServerInvInit, QueueInvInit DEF HooksInv
  <1>6. /\ part = "cron" => ScheduleInv(Cron)
        /\ part = "every" => ScheduleInv(Every)
        /\ part = "paused" => ScheduleInv(Paused)
        /\ part = "beside" => ScheduleInv(Beside)
    BY <1>3, Configured, ClockInvInit DEF ScheduleInv
  <1> QED BY <1>4, <1>5, <1>6 DEF FamilyInv

(* A step of a behaviour is a step of its component. *)
LEMMA PartSteps ==
  ASSUME [Next]_vars
  PROVE  /\ part' = part
         /\ part = "poll" => [Mongo(Poll)!Next]_(Mongo(Poll)!vars)
         /\ part = "stream" => [Mongo(Changes)!Next]_(Mongo(Changes)!vars)
         /\ part = "webhook" => [Hooks(Webhook)!Next]_(Hooks(Webhook)!vars)
         /\ part = "events" => [Hooks(Events)!Next]_(Hooks(Events)!vars)
         /\ part = "cron" => [Schedule(Cron)!Next]_(Schedule(Cron)!vars)
         /\ part = "every" => [Schedule(Every)!Next]_(Schedule(Every)!vars)
         /\ part = "paused" => [Schedule(Paused)!Next]_(Schedule(Paused)!vars)
         /\ part = "beside" => [Schedule(Beside)!Next]_(Schedule(Beside)!vars)
  <1>1. CASE UNCHANGED vars
    BY <1>1, SMTT(40) DEF vars, Mongo!vars, Mongo!tracker, Hooks!vars, Hooks!server_vars, Hooks!queue_vars, Hooks!bounds, Schedule!vars
  <1>2. CASE Next
    BY <1>2 DEF Next, NotResilience, NotBulkSink, NotMongoSource, NotFeishuIndexedSink, NotWebhookSource, NotScheduleSource
  <1> QED BY <1>1, <1>2

LEMMA FamilyStep ==
  FamilyInv /\ [Next]_vars => FamilyInv'
  <1> SUFFICES ASSUME FamilyInv, [Next]_vars
               PROVE  FamilyInv'
    OBVIOUS
  <1>1. part = "poll" => MongoInv(Poll)' /\ OrderInv(Poll)'
    BY Configured, PartSteps, MongoKept, OrderKept DEF FamilyInv, OrderedConfig
  <1>2. part = "stream" => MongoInv(Changes)' /\ OrderInv(Changes)'
    BY Configured, PartSteps, MongoKept, OrderKept DEF FamilyInv, OrderedConfig
  <1>4. part = "webhook" => HooksInv(Webhook)'
    BY Configured, PartSteps, HooksKept DEF FamilyInv
  <1>5. part = "events" => HooksInv(Events)'
    BY Configured, PartSteps, HooksKept DEF FamilyInv
  <1>6. part = "cron" => ScheduleInv(Cron)'
    BY Configured, PartSteps, ScheduleKept DEF FamilyInv
  <1>7. part = "every" => ScheduleInv(Every)'
    BY Configured, PartSteps, ScheduleKept DEF FamilyInv
  <1>8. part = "paused" => ScheduleInv(Paused)'
    BY Configured, PartSteps, ScheduleKept DEF FamilyInv
  <1>9. part = "beside" => ScheduleInv(Beside)'
    BY Configured, PartSteps, ScheduleKept DEF FamilyInv
  <1> QED BY PartSteps, <1>1, <1>2, <1>4, <1>5, <1>6, <1>7, <1>8, <1>9 DEF FamilyInv

\* A source loses and doubles nothing: not a document behind the saved cursor, an accepted
\* request or a scheduled slot, in every run of every checked configuration.
THEOREM SourcesLoseNothingHolds ==
  Spec => []SourcesLoseNothing
  <1>1. FamilyInv => SourcesLoseNothing
    <2> SUFFICES ASSUME FamilyInv
                 PROVE  SourcesLoseNothing
      OBVIOUS
    <2>1. part = "poll" => /\ Mongo(Poll)!TypeOK /\ Mongo(Poll)!NothingSkipped /\ Mongo(Poll)!OneHandler
                           /\ Mongo(Poll)!StaleNeverAdvances
      BY Configured, StaleDoNotAdvance, OrderMeansOneHandler DEF FamilyInv, OrderedConfig
    <2>2. part = "stream" => /\ Mongo(Changes)!NothingSkipped /\ Mongo(Changes)!OneHandler
                             /\ Mongo(Changes)!StaleNeverAdvances
      BY Configured, StaleDoNotAdvance, OrderMeansOneHandler DEF FamilyInv, OrderedConfig
    <2>4. part = "webhook" => Hooks(Webhook)!TypeOK /\ Hooks(Webhook)!OnePlace /\ Hooks(Webhook)!OpenIsServed
      BY Configured, QueueMeansOnePlace, ServerMeansServed DEF FamilyInv, HooksInv
    <2>5. part = "events" => Hooks(Events)!OnePlace
      BY Configured, QueueMeansOnePlace DEF FamilyInv
    <2>6. part = "cron" => Schedule(Cron)!TypeOK /\ Schedule(Cron)!Counted /\ Schedule(Cron)!QueueKeeps /\ Schedule(Cron)!DropsOldest
      BY Configured, CountsMean, BacklogMeans DEF FamilyInv, ScheduleInv
    <2>7. (part = "every" => Schedule(Every)!Counted) /\ (part = "beside" => Schedule(Beside)!Counted)
      BY Configured, CountsMean DEF FamilyInv, ScheduleInv
    <2>8. part = "paused" => Schedule(Paused)!DropsOldest
      BY Configured, BacklogMeans DEF FamilyInv, ScheduleInv
    <2> QED BY <2>1, <2>2, <2>4, <2>5, <2>6, <2>7, <2>8 DEF SourcesLoseNothing
  <1> QED BY <1>1, FamilyInit, FamilyStep, PTL DEF Spec

\* The stored cursor never moves back, and a scheduled run that may not overlap never starts
\* beside another delivery, in every run of every checked configuration.
THEOREM OrderedStepsHolds ==
  Spec => OrderedSteps
  <1>1. FamilyInv /\ [Next]_vars =>
          [/\ part = "poll" => Mongo(Poll)!CursorMonotone
           /\ part = "cron" => Schedule(Cron)!StartsAlone
           /\ part = "every" => Schedule(Every)!StartsAlone]_vars
    BY Configured, PartSteps, OrderKept, ScheduleKept DEF FamilyInv
  <1> QED BY <1>1, FamilyInit, FamilyStep, PTL DEF Spec, OrderedSteps
==============================================================================
