------------------------------ MODULE MCBrokers ------------------------------
(*****************************************************************************)
(* The message brokers, one at a time: a Kafka topic, a RabbitMQ queue, a    *)
(* Redis stream, an SQS queue and a Cloudflare queue.                        *)
(*****************************************************************************)
EXTENDS Integers, Sequences

VARIABLES part,  \* the component a behaviour is about; it never changes
          broker, position, next, fetched, started, completed, fresh, hand, commit,
          done, retries, stops, faults, crashes, conn, refs, pc, orphan, opened,
          live, ready, buffer, stale, stopped, added, floor, cursor, start, pel, me,
          state, dead, pending, lock, handled, answer, acks, rets, flushing

vars == <<part, broker, position, next, fetched, started, completed, fresh, hand,
          commit, done, retries, stops, faults, crashes, conn, refs, pc, orphan,
          opened, live, ready, buffer, stale, stopped, added, floor, cursor, start,
          pel, me, state, dead, pending, lock, handled, answer, acks, rets, flushing>>

(* The components, each for any configuration c that gives its constants. *)
Kafka(c) == INSTANCE KafkaTopic WITH
  LastOffset <- c.LastOffset, Gaps <- c.Gaps, Batch <- c.Batch,
  OneByOne <- c.OneByOne, Rebalances <- c.Rebalances, MaxRetries <- c.MaxRetries,
  MaxStops <- c.MaxStops, MaxFaults <- c.MaxFaults, MaxCrashes <- c.MaxCrashes
Rabbit(c) == INSTANCE RabbitQueue WITH
  Msgs <- c.Msgs, SourceSenders <- c.SourceSenders, SinkSenders <- c.SinkSenders,
  Prefetch <- c.Prefetch, CancelEarly <- c.CancelEarly, MaxFaults <- c.MaxFaults,
  MaxStops <- c.MaxStops, MaxRetries <- c.MaxRetries
Redis(c) == INSTANCE RedisStream WITH
  MaxAdded <- c.MaxAdded, Bad <- c.Bad, Batch <- c.Batch, MaxLen <- c.MaxLen,
  Named <- c.Named, Concurrency <- c.Concurrency, MaxRetries <- c.MaxRetries,
  MaxCrashes <- c.MaxCrashes, MaxFaults <- c.MaxFaults
Sqs(c) == INSTANCE SqsQueue WITH
  Msgs <- c.Msgs, BatchLimit <- c.BatchLimit, MaxPending <- c.MaxPending,
  Fifo <- c.Fifo, OnFail <- c.OnFail, Heartbeat <- c.Heartbeat,
  MayExpire <- c.MayExpire, MaxFaults <- c.MaxFaults, MaxRetries <- c.MaxRetries,
  MaxCrashes <- c.MaxCrashes
Cloudflare(c) == INSTANCE CfQueue WITH
  Msgs <- c.Msgs, BatchLimit <- c.BatchLimit, MaxStaged <- c.MaxStaged,
  OnFail <- c.OnFail, Expiry <- c.Expiry, MaxFaults <- c.MaxFaults,
  MaxRetries <- c.MaxRetries, MaxStops <- c.MaxStops, MaxCrashes <- c.MaxCrashes

(* The configurations that are checked. *)
Topic ==
  [LastOffset |-> 3, Gaps |-> {}, Batch |-> 2, OneByOne |-> FALSE,
   Rebalances |-> TRUE, MaxRetries |-> 2, MaxStops |-> 1, MaxFaults |-> 1,
   MaxCrashes |-> 1]
Partition ==
  [LastOffset |-> 5, Gaps |-> {}, Batch |-> 1, OneByOne |-> TRUE,
   Rebalances |-> FALSE, MaxRetries |-> 2, MaxStops |-> 0, MaxFaults |-> 0,
   MaxCrashes |-> 1]
OneSender ==
  [Msgs |-> {"m1", "m2"}, SourceSenders |-> {}, SinkSenders |-> {"w1"},
   Prefetch |-> 2, CancelEarly |-> FALSE, MaxFaults |-> 2, MaxStops |-> 1,
   MaxRetries |-> 1]
TwoSenders ==
  [Msgs |-> {"m1"}, SourceSenders |-> {}, SinkSenders |-> {"w1", "w2"},
   Prefetch |-> 1, CancelEarly |-> FALSE, MaxFaults |-> 2, MaxStops |-> 0,
   MaxRetries |-> 0]
Trimmed ==
  [MaxAdded |-> 4, Bad |-> {2}, Batch |-> 2, MaxLen |-> 3, Named |-> FALSE,
   Concurrency |-> 3, MaxRetries |-> 2, MaxCrashes |-> 1, MaxFaults |-> 2]
Consumer ==
  [MaxAdded |-> 3, Bad |-> {}, Batch |-> 2, MaxLen |-> 0, Named |-> TRUE,
   Concurrency |-> 1, MaxRetries |-> 2, MaxCrashes |-> 1, MaxFaults |-> 1]
Standard ==
  [Msgs |-> {"m1", "m2"}, BatchLimit |-> 2, MaxPending |-> 3, Fifo |-> FALSE,
   OnFail |-> "release", Heartbeat |-> FALSE, MayExpire |-> TRUE, MaxFaults |-> 1,
   MaxRetries |-> 1, MaxCrashes |-> 1]
InGroups ==
  [Msgs |-> {"m1", "m2"}, BatchLimit |-> 2, MaxPending |-> 3, Fifo |-> TRUE,
   OnFail |-> "delete", Heartbeat |-> TRUE, MayExpire |-> TRUE, MaxFaults |-> 1,
   MaxRetries |-> 1, MaxCrashes |-> 1]
Deletes ==
  [Msgs |-> {"m1", "m2", "m3"}, BatchLimit |-> 2, MaxPending |-> 4, Fifo |-> FALSE,
   OnFail |-> "leave", Heartbeat |-> TRUE, MayExpire |-> FALSE, MaxFaults |-> 2,
   MaxRetries |-> 0, MaxCrashes |-> 0]
Leased ==
  [Msgs |-> {"m1", "m2"}, BatchLimit |-> 2, MaxPending |-> 3, Fifo |-> FALSE,
   OnFail |-> "leave", Heartbeat |-> TRUE, MayExpire |-> TRUE, MaxFaults |-> 0,
   MaxRetries |-> 1, MaxCrashes |-> 1]
Expiring ==
  [Msgs |-> {"m1", "m2"}, BatchLimit |-> 2, MaxStaged |-> 3, OnFail |-> "leave",
   Expiry |-> "any", MaxFaults |-> 1, MaxRetries |-> 1, MaxStops |-> 1,
   MaxCrashes |-> 1]
Acking ==
  [Msgs |-> {"m1", "m2"}, BatchLimit |-> 1, MaxStaged |-> 3, OnFail |-> "ack",
   Expiry |-> "any", MaxFaults |-> 1, MaxRetries |-> 1, MaxStops |-> 0,
   MaxCrashes |-> 0]
Kept ==
  [Msgs |-> {"m1", "m2", "m3"}, BatchLimit |-> 2, MaxStaged |-> 4,
   OnFail |-> "retry", Expiry |-> "never", MaxFaults |-> 2, MaxRetries |-> 1,
   MaxStops |-> 0, MaxCrashes |-> 0]
Unheld ==
  [Msgs |-> {"m1", "m2"}, BatchLimit |-> 2, MaxStaged |-> 3, OnFail |-> "leave",
   Expiry |-> "unheld", MaxFaults |-> 1, MaxRetries |-> 1, MaxStops |-> 1,
   MaxCrashes |-> 1]

(* What a component does not have is switched off. *)
Off == "off"
NotKafkaTopic == <<part, conn, refs, pc, orphan, opened, live, ready, buffer, stale,
  stopped, added, floor, cursor, start, pel, me, state, dead, pending, lock,
  handled, answer, acks, rets, flushing>>
NotRabbitQueue == <<part, broker, position, next, fetched, started, completed,
  fresh, commit, crashes, added, floor, cursor, start, pel, me, state, dead,
  pending, lock, handled, answer, acks, rets, flushing>>
NotRedisStream == <<part, broker, position, next, fetched, started, completed,
  fresh, commit, stops, conn, pc, orphan, live, ready, buffer, stale, stopped,
  state, dead, pending, lock, handled, answer, acks, rets, flushing>>
NotSqsQueue == <<part, broker, position, next, fetched, started, completed, fresh,
  commit, done, stops, conn, refs, pc, orphan, opened, live, ready, buffer, stale,
  stopped, added, floor, cursor, start, pel, me, answer, acks, rets, flushing>>
NotCfQueue == <<part, broker, position, next, fetched, started, completed, fresh,
  commit, done, conn, refs, pc, orphan, opened, live, ready, buffer, stale, stopped,
  added, floor, cursor, start, pel, me, dead, pending, lock>>

Init ==
  \/ /\ \/ part = "kafka" /\ Kafka(Topic)!Init
        \/ part = "partition" /\ Kafka(Partition)!Init
     /\ conn = Off /\ refs = Off /\ pc = Off /\ orphan = Off /\ opened = Off
     /\ live = Off /\ ready = Off /\ buffer = Off /\ stale = Off /\ stopped = Off
     /\ added = Off /\ floor = Off /\ cursor = Off /\ start = Off /\ pel = Off
     /\ me = Off /\ state = Off /\ dead = Off /\ pending = Off /\ lock = Off
     /\ handled = Off /\ answer = Off /\ acks = Off /\ rets = Off /\ flushing = Off
  \/ /\ \/ part = "rabbit" /\ Rabbit(OneSender)!Init
        \/ part = "senders" /\ Rabbit(TwoSenders)!Init
     /\ broker = Off /\ position = Off /\ next = Off /\ fetched = Off
     /\ started = Off /\ completed = Off /\ fresh = Off /\ commit = Off
     /\ crashes = Off /\ added = Off /\ floor = Off /\ cursor = Off
     /\ start = Off /\ pel = Off /\ me = Off /\ state = Off /\ dead = Off
     /\ pending = Off /\ lock = Off /\ handled = Off /\ answer = Off
     /\ acks = Off /\ rets = Off /\ flushing = Off
  \/ /\ \/ part = "redis" /\ Redis(Trimmed)!Init
        \/ part = "consumer" /\ Redis(Consumer)!Init
     /\ broker = Off /\ position = Off /\ next = Off /\ fetched = Off
     /\ started = Off /\ completed = Off /\ fresh = Off /\ commit = Off
     /\ stops = Off /\ conn = Off /\ pc = Off /\ orphan = Off /\ live = Off
     /\ ready = Off /\ buffer = Off /\ stale = Off /\ stopped = Off
     /\ state = Off /\ dead = Off /\ pending = Off /\ lock = Off /\ handled = Off
     /\ answer = Off /\ acks = Off /\ rets = Off /\ flushing = Off
  \/ /\ \/ part = "sqs" /\ Sqs(Standard)!Init
        \/ part = "fifo" /\ Sqs(InGroups)!Init
        \/ part = "deletes" /\ Sqs(Deletes)!Init
        \/ part = "leased" /\ Sqs(Leased)!Init
     /\ broker = Off /\ position = Off /\ next = Off /\ fetched = Off
     /\ started = Off /\ completed = Off /\ fresh = Off /\ commit = Off
     /\ done = Off /\ stops = Off /\ conn = Off /\ refs = Off /\ pc = Off
     /\ orphan = Off /\ opened = Off /\ live = Off /\ ready = Off /\ buffer = Off
     /\ stale = Off /\ stopped = Off /\ added = Off /\ floor = Off
     /\ cursor = Off /\ start = Off /\ pel = Off /\ me = Off /\ answer = Off
     /\ acks = Off /\ rets = Off /\ flushing = Off
  \/ /\ \/ part = "cloudflare" /\ Cloudflare(Expiring)!Init
        \/ part = "acking" /\ Cloudflare(Acking)!Init
        \/ part = "kept" /\ Cloudflare(Kept)!Init
        \/ part = "unheld" /\ Cloudflare(Unheld)!Init
     /\ broker = Off /\ position = Off /\ next = Off /\ fetched = Off
     /\ started = Off /\ completed = Off /\ fresh = Off /\ commit = Off
     /\ done = Off /\ conn = Off /\ refs = Off /\ pc = Off /\ orphan = Off
     /\ opened = Off /\ live = Off /\ ready = Off /\ buffer = Off /\ stale = Off
     /\ stopped = Off /\ added = Off /\ floor = Off /\ cursor = Off
     /\ start = Off /\ pel = Off /\ me = Off /\ dead = Off /\ pending = Off
     /\ lock = Off

Next ==
  \/ /\ \/ part = "kafka" /\ Kafka(Topic)!Next
        \/ part = "partition" /\ Kafka(Partition)!Next
     /\ UNCHANGED NotKafkaTopic
  \/ /\ \/ part = "rabbit" /\ Rabbit(OneSender)!Next
        \/ part = "senders" /\ Rabbit(TwoSenders)!Next
     /\ UNCHANGED NotRabbitQueue
  \/ /\ \/ part = "redis" /\ Redis(Trimmed)!Next
        \/ part = "consumer" /\ Redis(Consumer)!Next
     /\ UNCHANGED NotRedisStream
  \/ /\ \/ part = "sqs" /\ Sqs(Standard)!Next
        \/ part = "fifo" /\ Sqs(InGroups)!Next
        \/ part = "deletes" /\ Sqs(Deletes)!Next
        \/ part = "leased" /\ Sqs(Leased)!Next
     /\ UNCHANGED NotSqsQueue
  \/ /\ \/ part = "cloudflare" /\ Cloudflare(Expiring)!Next
        \/ part = "acking" /\ Cloudflare(Acking)!Next
        \/ part = "kept" /\ Cloudflare(Kept)!Next
        \/ part = "unheld" /\ Cloudflare(Unheld)!Next
     /\ UNCHANGED NotCfQueue

kafka == Kafka(Topic)!vars
rabbit == Rabbit(OneSender)!vars
redis == Redis(Trimmed)!vars
sqs == Sqs(Standard)!vars
cloudflare == Cloudflare(Expiring)!vars

(* Sources fetch, leases run out, timers flush and handlers end. *)
Fairness ==
  /\ WF_kafka(part = "partition" /\ Kafka(Partition)!OpenConsumer)
  /\ WF_kafka(part = "partition" /\ Kafka(Partition)!Fetch(1))
  /\ WF_kafka(part = "partition" /\ Kafka(Partition)!Start)
  /\ WF_kafka(part = "partition" /\ Kafka(Partition)!Committed)
  /\ \A r \in 1..5 : WF_kafka(part = "partition" /\ Kafka(Partition)!Ack(r))
  /\ WF_rabbit(part = "rabbit" /\ Rabbit(OneSender)!Begin("fetch"))
  /\ WF_rabbit(part = "rabbit" /\ \E n \in 1..2 : Rabbit(OneSender)!Fetched(n))
  /\ \A u \in Rabbit(OneSender)!Users : /\ WF_rabbit(part = "rabbit" /\ Rabbit(OneSender)!Acquire(u))
                             /\ WF_rabbit(part = "rabbit" /\ Rabbit(OneSender)!Opens(u))
                             /\ WF_rabbit(part = "rabbit" /\ Rabbit(OneSender)!OpenFails(u) /\ ~conn)
  /\ \A u \in Rabbit(OneSender)!Senders : /\ WF_rabbit(part = "rabbit" /\ Rabbit(OneSender)!Sent(u))
                               /\ WF_rabbit(part = "rabbit" /\ Rabbit(OneSender)!SendFails(u))
  /\ \A m \in {"m1", "m2"} : /\ WF_rabbit(part = "rabbit" /\ Rabbit(OneSender)!OnMessage(m))
                             /\ WF_rabbit(part = "rabbit" /\ Rabbit(OneSender)!Ack(m))
  /\ WF_redis(part = "consumer" /\ Redis(Consumer)!Open)
  /\ WF_redis(part = "consumer" /\ Redis(Consumer)!FetchPending(1))
  /\ WF_redis(part = "consumer" /\ Redis(Consumer)!FetchNew(1))
  /\ \A e \in 1..3 : WF_redis(part = "consumer" /\ Redis(Consumer)!Ack(e))
  /\ \A m \in {"m1", "m2"} : /\ WF_sqs(part = "leased" /\ Sqs(Leased)!Receive(m))
                             /\ WF_sqs(part = "leased" /\ Sqs(Leased)!VisibilityTimeout(m))
  /\ \A d \in {"m1", "m2"} \X BOOLEAN : /\ WF_sqs(part = "leased" /\ Sqs(Leased)!SettleFails(d))
                                        /\ WF_sqs(part = "leased" /\ Sqs(Leased)!Ack(d))
  /\ WF_sqs(part = "leased" /\ Sqs(Leased)!FlushDeletes)
  /\ WF_sqs(part = "leased" /\ Sqs(Leased)!FlushLocked(Sqs(Leased)!MustFail, {}))
  /\ WF_cloudflare(part = "unheld" /\ Cloudflare(Unheld)!Pulled)
  /\ WF_cloudflare(part = "unheld" /\ Cloudflare(Unheld)!FlushAcks)
  /\ WF_cloudflare(part = "unheld" /\ Cloudflare(Unheld)!FlushLocked)
  /\ \A m \in {"m1", "m2"} : /\ WF_cloudflare(part = "unheld" /\ Cloudflare(Unheld)!Pull({m}))
                             /\ WF_cloudflare(part = "unheld" /\ Cloudflare(Unheld)!LeaseExpires(m))
  /\ \A d \in {"m1", "m2"} \X BOOLEAN : WF_cloudflare(part = "unheld" /\ Cloudflare(Unheld)!Ack(d))

Spec == Init /\ [][Next]_vars /\ Fairness
--------------------------------------------------------------------------------
(* A message leaves its broker only when its handler has succeeded or failed for *)
(* good: no committed offset passes a record, no delete or acknowledgement settles a *)
(* message, and no entry of a stream is forgotten before, over records completed in *)
(* any order, old receipts, expired leases, failed requests, rebalances and crashes. *)
HandledBeforeGone ==
  /\ part = "kafka" => Kafka(Topic)!TypeOK /\ Kafka(Topic)!NothingSkipped
  /\ part = "redis" => Redis(Trimmed)!NoneForgotten
  /\ part = "sqs" => Sqs(Standard)!DeletedWhenHandled
  /\ part = "fifo" => Sqs(InGroups)!DeletedWhenHandled
  /\ part = "cloudflare" => Cloudflare(Expiring)!GoneWhenHandled
  /\ part = "acking" => Cloudflare(Acking)!GoneWhenHandled

(* Every message is somewhere and with one handler: in the queue, prefetched, handled *)
(* or staged for its settlement, and a failed batch forgets none of it; an open queue *)
(* is on an open connection, and a stop leaves none behind. *)
MessagesHeld ==
  /\ part = "senders" => Rabbit(TwoSenders)!TypeOK
  /\ part = "rabbit" => Rabbit(OneSender)!TypeOK /\ Rabbit(OneSender)!LinkedWhileOpen /\ Rabbit(OneSender)!ClosedAtStop
  /\ part = "redis" => Redis(Trimmed)!TypeOK
  /\ part = "sqs" => Sqs(Standard)!TypeOK
  /\ part = "deletes" => Sqs(Deletes)!HandledNotForgotten
  /\ part = "leased" => Sqs(Leased)!OneHandler
  /\ part = "kept" => Cloudflare(Kept)!LeasedIsHeld

(* What the broker has is handled and settled, and the offset of the group is at the *)
(* end of the log; a RabbitMQ application may stop before. *)
AllSettled ==
  /\ part = "partition" => 1..5 \subseteq done /\ broker = 6
  /\ part = "rabbit" => stopped \/ {"m1", "m2"} \subseteq done
  /\ part = "consumer" /\ cursor # -1 => \A e \in 1..3 : start < e /\ e <= added => e \in done
  /\ part = "leased" => \A m \in {"m1", "m2"} : state[m] = "deleted"
  /\ part = "unheld" => \A m \in {"m1", "m2"} : state[m] = "gone"

(* Every message is handled and settled in the end, whatever is retried, redelivered *)
(* or lost in a crash. *)
EveryMessageHandled == []<>AllSettled
==============================================================================
