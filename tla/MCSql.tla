------------------------------ MODULE MCSql ------------------------------
(*****************************************************************************)
(* The SQL connectors, one at a time: the incremental source, the table      *)
(* queue, the table sink and the MySQL binlog source, and the queue, sink    *)
(* and source as two tasks in a row.                                         *)
(*****************************************************************************)
EXTENDS Integers, Sequences, FiniteSets, FiniteSetTheorems, SequenceTheorems,
  WellFoundedInduction, TLAPS

VARIABLES part,  \* the component a behaviour is about; it never changes
          rows, store, loaded, committed, fetched, pending, acked, retrying, terminal,
          task, prefix, fetch, result, hand, waiting, unsaved, attempts, done, now, faults,
          crashes, stops, status, lock, tx, refused, sleeping, doubted, lost, nacks, config,
          row, last, outcome, sends, log, saved, stream, buffered, saving, dropped, missed,
          jobs, finished, sent

vars == <<part, rows, store, loaded, committed, fetched, pending, acked, retrying, terminal,
          task, prefix, fetch, result, hand, waiting, unsaved, attempts, done, now, faults,
          crashes, stops, status, lock, tx, refused, sleeping, doubted, lost, nacks, config,
          row, last, outcome, sends, log, saved, stream, buffered, saving, dropped, missed,
          jobs, finished, sent>>

(* The queue, the sink and the binlog source, for any configuration c that gives *)
(* their constants. *)
Queue(c) == INSTANCE TableQueue WITH
  Rows <- c.Rows, Consumers <- c.Consumers, Batch <- c.Batch, Nack <- c.Nack,
  OneStatement <- c.OneStatement, MaxNacks <- c.MaxNacks, MaxCrashes <- c.MaxCrashes
Sink(c) == INSTANCE TableSink WITH
  Cols <- c.Cols, Names <- c.Names, Json <- c.Json, Scalars <- c.Scalars,
  Stored <- c.Stored, MaxSends <- c.MaxSends
Binlog(c) == INSTANCE BinlogSource WITH
  Ends <- c.Ends, Limit <- c.Limit, Retries <- c.Retries, Reopens <- c.Reopens,
  MaxFaults <- c.MaxFaults, MaxCrashes <- c.MaxCrashes

(* The configurations that are checked. *)
Incremental == INSTANCE IncrementalSource WITH
  Keys <- {1, 2}, Times <- {1, 2}, Batch <- 2, LateCommits <- FALSE,
  ReleasesUnstarted <- TRUE, StopRace <- TRUE, Fatal <- FALSE, MaxFaults <- 1,
  MaxCrashes <- 1, MaxRetries <- 0, MaxStops <- 1
Retried == INSTANCE IncrementalSource WITH
  Keys <- {1, 2, 3}, Times <- {1}, Batch <- 2, LateCommits <- FALSE,
  ReleasesUnstarted <- TRUE, StopRace <- FALSE, Fatal <- FALSE, MaxFaults <- 1,
  MaxCrashes <- 0, MaxRetries <- 1, MaxStops <- 1
Mysql ==
  [Rows |-> {1, 2, 3}, Consumers |-> {"a", "b"}, Batch |-> 2, Nack |-> "ready",
   OneStatement |-> FALSE, MaxNacks |-> 2, MaxCrashes |-> 1]
Sqlite ==
  [Rows |-> {1, 2, 3}, Consumers |-> {"a", "b"}, Batch |-> 2, Nack |-> "ready",
   OneStatement |-> TRUE, MaxNacks |-> 2, MaxCrashes |-> 1]
Table ==
  [Cols |-> {"a", "b"}, Names |-> {"a", "b", "id"}, Json |-> {"a"},
   Scalars |-> {"x"}, Stored |-> {"x", "null"}, MaxSends |-> 2]
Partial ==
  [Ends |-> <<2, 2, 5>>, Limit |-> 2, Retries |-> TRUE, Reopens |-> FALSE,
   MaxFaults |-> 1, MaxCrashes |-> 1]
Reopened ==
  [Ends |-> <<1, 3>>, Limit |-> 2, Retries |-> FALSE, Reopens |-> TRUE,
   MaxFaults |-> 2, MaxCrashes |-> 1]
Followed ==
  [Ends |-> <<2, 3, 5>>, Limit |-> 2, Retries |-> TRUE, Reopens |-> FALSE,
   MaxFaults |-> 1, MaxCrashes |-> 1]
Postgres == INSTANCE SqlPipeline WITH
  Keys <- {1, 2}, Times <- {1, 2}, Batch <- 2, Workers <- {"w1"},
  Backend <- "postgres", Fatal <- TRUE, MaxFaults <- 1, MaxCrashes <- 1,
  MaxRetries <- 0, MaxStops <- 1, MaxNacks <- 0
Lite == INSTANCE SqlPipeline WITH
  Keys <- {1, 2}, Times <- {1, 2}, Batch <- 2, Workers <- {"w1"},
  Backend <- "sqlite", Fatal <- TRUE, MaxFaults <- 0, MaxCrashes <- 0,
  MaxRetries <- 0, MaxStops <- 0, MaxNacks <- 1
Synced == INSTANCE SqlPipeline WITH
  Keys <- {1, 2}, Times <- {1, 2}, Batch <- 2, Workers <- {"w1"},
  Backend <- "sqlite", Fatal <- FALSE, MaxFaults <- 0, MaxCrashes <- 1,
  MaxRetries <- 0, MaxStops <- 1, MaxNacks <- 0

(* What a component does not have is switched off. *)
Off == "off"
NotIncrementalSource == <<part, status, lock, tx, refused, sleeping, doubted, lost,
  nacks, config, row, last, outcome, sends, log, saved, stream, buffered, saving,
  dropped, missed, jobs, finished, sent>>
NotTableQueue == <<part, rows, store, loaded, committed, fetched, pending, acked,
  retrying, terminal, task, prefix, fetch, result, waiting, unsaved, attempts, now,
  faults, stops, config, row, last, outcome, sends, log, saved, stream, buffered,
  saving, dropped, missed, jobs, finished, sent>>
NotTableSink == <<part, rows, store, loaded, committed, fetched, pending, acked,
  retrying, terminal, task, prefix, fetch, result, hand, waiting, unsaved, attempts,
  done, now, faults, crashes, stops, status, lock, tx, refused, sleeping, doubted, lost,
  nacks, log, saved, stream, buffered, saving, dropped, missed, jobs, finished, sent>>
NotBinlogSource == <<part, rows, store, fetched, retrying, terminal, task, prefix,
  fetch, result, waiting, unsaved, attempts, now, stops, status, lock, tx, refused,
  sleeping, doubted, lost, nacks, config, row, last, outcome, sends, jobs, finished,
  sent>>
NotSqlPipeline == <<part, config, row, last, outcome, sends, log, saved, stream,
  buffered, saving, dropped, missed>>

Init ==
  \/ /\ \/ part = "incremental" /\ Incremental!Init
        \/ part = "retried" /\ Retried!Init
     /\ status = Off /\ lock = Off /\ tx = Off /\ refused = Off /\ sleeping = Off
     /\ doubted = Off /\ lost = Off /\ nacks = Off /\ config = Off /\ row = Off
     /\ last = Off /\ outcome = Off /\ sends = Off /\ log = Off /\ saved = Off
     /\ stream = Off /\ buffered = Off /\ saving = Off /\ dropped = Off /\ missed = Off
     /\ jobs = Off /\ finished = Off /\ sent = Off
  \/ /\ \/ part = "queue" /\ Queue(Mysql)!Init
        \/ part = "sqlite" /\ Queue(Sqlite)!Init
     /\ rows = Off /\ store = Off /\ loaded = Off /\ committed = Off /\ fetched = Off
     /\ pending = Off /\ acked = Off /\ retrying = Off /\ terminal = Off /\ task = Off
     /\ prefix = Off /\ fetch = Off /\ result = Off /\ waiting = Off /\ unsaved = Off
     /\ attempts = Off /\ now = Off /\ faults = Off /\ stops = Off /\ config = Off
     /\ row = Off /\ last = Off /\ outcome = Off /\ sends = Off /\ log = Off
     /\ saved = Off /\ stream = Off /\ buffered = Off /\ saving = Off /\ dropped = Off
     /\ missed = Off /\ jobs = Off /\ finished = Off /\ sent = Off
  \/ /\ part = "sink" /\ Sink(Table)!Init
     /\ rows = Off /\ store = Off /\ loaded = Off /\ committed = Off /\ fetched = Off
     /\ pending = Off /\ acked = Off /\ retrying = Off /\ terminal = Off /\ task = Off
     /\ prefix = Off /\ fetch = Off /\ result = Off /\ hand = Off /\ waiting = Off
     /\ unsaved = Off /\ attempts = Off /\ done = Off /\ now = Off /\ faults = Off
     /\ crashes = Off /\ stops = Off /\ status = Off /\ lock = Off /\ tx = Off
     /\ refused = Off /\ sleeping = Off /\ doubted = Off /\ lost = Off /\ nacks = Off
     /\ log = Off /\ saved = Off /\ stream = Off /\ buffered = Off /\ saving = Off
     /\ dropped = Off /\ missed = Off /\ jobs = Off /\ finished = Off /\ sent = Off
  \/ /\ \/ part = "binlog" /\ Binlog(Partial)!Init
        \/ part = "reopened" /\ Binlog(Reopened)!Init
        \/ part = "followed" /\ Binlog(Followed)!Init
     /\ rows = Off /\ store = Off /\ fetched = Off /\ retrying = Off /\ terminal = Off
     /\ task = Off /\ prefix = Off /\ fetch = Off /\ result = Off /\ waiting = Off
     /\ unsaved = Off /\ attempts = Off /\ now = Off /\ stops = Off /\ status = Off
     /\ lock = Off /\ tx = Off /\ refused = Off /\ sleeping = Off /\ doubted = Off
     /\ lost = Off /\ nacks = Off /\ config = Off /\ row = Off /\ last = Off
     /\ outcome = Off /\ sends = Off /\ jobs = Off /\ finished = Off /\ sent = Off
  \/ /\ \/ part = "postgres" /\ Postgres!Init
        \/ part = "lite" /\ Lite!Init
        \/ part = "synced" /\ Synced!Init
     /\ config = Off /\ row = Off /\ last = Off /\ outcome = Off /\ sends = Off
     /\ log = Off /\ saved = Off /\ stream = Off /\ buffered = Off /\ saving = Off
     /\ dropped = Off /\ missed = Off

Next ==
  \/ /\ \/ part = "incremental" /\ Incremental!Next
        \/ part = "retried" /\ Retried!Next
     /\ UNCHANGED NotIncrementalSource
  \/ /\ \/ part = "queue" /\ Queue(Mysql)!Next
        \/ part = "sqlite" /\ Queue(Sqlite)!Next
     /\ UNCHANGED NotTableQueue
  \/ part = "sink" /\ Sink(Table)!Next /\ UNCHANGED NotTableSink
  \/ /\ \/ part = "binlog" /\ Binlog(Partial)!Next
        \/ part = "reopened" /\ Binlog(Reopened)!Next
        \/ part = "followed" /\ Binlog(Followed)!Next
     /\ UNCHANGED NotBinlogSource
  \/ /\ \/ part = "postgres" /\ Postgres!Next
        \/ part = "lite" /\ Lite!Next
        \/ part = "synced" /\ Synced!Next
     /\ UNCHANGED NotSqlPipeline

incremental == Incremental!vars
queue == Queue(Mysql)!vars
binlog == Binlog(Partial)!vars
pipeline == Synced!vars

(* Sources poll, commits and timers run, handlers end. *)
Fairness ==
  /\ WF_incremental(part = "retried" /\ Retried!Fetch)
  /\ WF_incremental(part = "retried" /\ Retried!Flush)
  /\ \A t \in {1} \X {1, 2, 3} : /\ WF_incremental(part = "retried" /\ Retried!Ack(t))
                                 /\ WF_incremental(part = "retried" /\ Retried!GiveBack(t))
                                 /\ WF_incremental(part = "retried" /\ Retried!Elapse(t))
  /\ \A c \in {"a", "b"} :
       /\ WF_queue(part = "sqlite" /\ (Queue(Sqlite)!Select(c) \/ Queue(Sqlite)!Claim(c) \/ Queue(Sqlite)!ClaimReturning(c)))
       /\ \A r \in {1, 2, 3} : /\ WF_queue(part = "sqlite" /\ Queue(Sqlite)!Ack(c, r))
                               /\ WF_queue(part = "sqlite" /\ Queue(Sqlite)!GiveBack(c, r))
                               /\ WF_queue(part = "sqlite" /\ Queue(Sqlite)!RetryWakes(c, r))
  /\ WF_binlog(part = "followed" /\ Binlog(Followed)!Open)
  /\ WF_binlog(part = "followed" /\ Binlog(Followed)!Fetch)
  /\ WF_binlog(part = "followed" /\ Binlog(Followed)!Save)
  /\ \A t \in Binlog(Followed)!AllRows : WF_binlog(part = "followed" /\ Binlog(Followed)!Ack(t))
  /\ WF_pipeline(part = "synced" /\ Synced!Fetch)
  /\ WF_pipeline(part = "synced" /\ Synced!Flush)
  /\ \A t \in {1, 2} \X {1, 2} :
       WF_pipeline(part = "synced" /\ (Synced!Pg!Ack(t) \/ Synced!Pg!GiveBack(t) \/ Synced!Pg!Elapse(t))
                   /\ Synced!Reading)

Spec == Init /\ [][Next]_vars /\ Fairness
--------------------------------------------------------------------------------
(* The persisted cursor of an incremental source never passes a row that no *)
(* handler has succeeded on, alone and while the rows are rewritten by another task, *)
(* and the commit task removes the tokens it has saved; a binlog row is held once. *)
CursorSafe ==
  /\ part = "incremental" => Incremental!TypeOK /\ Incremental!NothingSkipped /\ Incremental!OrderKept
  /\ part = "retried" => Retried!NothingSkipped /\ Retried!OrderKept
  /\ part = "postgres" => Postgres!NothingSkipped
  /\ part = "lite" => Lite!NothingSkipped
  /\ part = "binlog" => Binlog(Partial)!TypeOK /\ Binlog(Partial)!HeldOnce

(* Until the answer of a settlement is lost, two consumers never work on the same row *)
(* of a table queue and a row is done just when its ack has returned, whichever updates *)
(* fail; with a sink, a row is done when its result is written; the JSON columns a sink *)
(* writes hold documents. *)
RowsAgree ==
  /\ part = "queue" => Queue(Mysql)!TypeOK /\ Queue(Mysql)!OneWorker /\ Queue(Mysql)!DoneIsDone
  /\ part = "sqlite" => Queue(Sqlite)!OneWorker
  /\ part = "postgres" => Postgres!DoneIsWritten
  /\ part = "lite" => Lite!DoneIsWritten
  /\ part = "sink" => Sink(Table)!TypeOK /\ Sink(Table)!JsonStored

(* Cursors and positions only move forward, a position over rows that are handled or *)
(* that a cancelled fetch has swallowed, no row whose ack has not raised is delivered *)
(* again by the same process, and a sink keeps its update policies and may be sent the *)
(* same payload twice. *)
ForwardOnly ==
  [][/\ part = "incremental" => Incremental!NoRedelivery /\ Incremental!CursorForward
     /\ part = "binlog" => Binlog(Partial)!NothingSkipped /\ Binlog(Partial)!SavedFollows
     /\ part = "reopened" => Binlog(Reopened)!NothingSkipped
     /\ part = "sink" => Sink(Table)!ReplaySafe /\ Sink(Table)!PoliciesKept]_vars

(* What is to be handled has been: the versions of the rows an incremental source *)
(* reads, the rows of a table queue, the rows of the binlog after the position the *)
(* source started from, and the results of one task by the next.  Four losses of the *)
(* code are excepted: a source that the retry of an already saved row holds back, rows *)
(* left claimed, and binlog rows that are dropped or that a cancelled fetch swallowed. *)
AllHandled ==
  /\ part = "retried" => Retried!Present \subseteq done \/ Retried!Blocked
  /\ part = "sqlite" => \A r \in {1, 2, 3} : status[r] = "done" \/ r \in lost
  /\ part = "followed" /\ loaded /\ log = 3 =>
       /\ \A t \in Binlog(Followed)!AllRows :
            t > Binlog(Followed)!Through(committed) => t \in done \cup dropped \cup missed
       /\ dropped = {} => pending = <<>>
  /\ part = "synced" =>
       (\A k \in {1, 2} : status[k] = "done" => \E t \in done : t[2] = k) \/ Synced!Pg!Blocked

(* Every row is handled in the end, but for those, whatever is retried, released or *)
(* lost in a crash. *)
EveryRowHandled == []<>AllHandled

--------------------------------------------------------------------------------
(* Proofs.  The table queue: claims are exclusive for any rows, consumers, batches *)
(* and bounds. *)

(* Nobody is called Free, and nack does not set the value of ack. *)
QueueConfig(cf) == Queue(cf)!Free \notin cf.Consumers /\ cf.Nack \in {"ready", "failed", "none"}

(* What a consumer has of the rows. *)
Owned(c) == hand[c] \cup refused[c] \cup sleeping[c]

Shapes(cf) ==
  /\ status \in [cf.Rows -> {"ready", "claimed", "done", "failed"}]
  /\ lock \in [cf.Rows -> cf.Consumers \cup {Queue(cf)!Free}]
  /\ tx \in [cf.Consumers -> SUBSET cf.Rows] /\ hand \in [cf.Consumers -> SUBSET cf.Rows]
  /\ refused \in [cf.Consumers -> SUBSET cf.Rows] /\ sleeping \in [cf.Consumers -> SUBSET cf.Rows]
  /\ done \cup doubted \cup lost \subseteq cf.Rows

(* The rows of a claiming transaction are locked and ready; SQLite has none.   *)
Locked(cf) ==
  \A c \in cf.Consumers, r \in cf.Rows :
    /\ r \in tx[c] <=> lock[r] = c
    /\ lock[r] = c => status[r] = "ready"
    /\ cf.OneStatement => lock[r] # c

(* Nothing but the value "claimed" keeps consumers apart: whoever settles a row *)
(* writes it by its key.  It does so as long as no answer about the row was lost. *)
ClaimedApart(cf) ==
  /\ \A c \in cf.Consumers :
       /\ \A r \in Owned(c) \ doubted : status[r] = "claimed"
       /\ hand[c] \cap refused[c] \subseteq doubted /\ hand[c] \cap sleeping[c] \subseteq doubted
       /\ refused[c] \cap sleeping[c] \subseteq doubted
  /\ \A c, d \in cf.Consumers : c # d => Owned(c) \cap Owned(d) \subseteq doubted

(* The inductive invariant. *)
QueueInv(cf) == Shapes(cf) /\ Locked(cf) /\ ClaimedApart(cf) /\ Queue(cf)!DoneIsDone

(* The queue starts with its invariant. *)
LEMMA QueueInit ==
  ASSUME NEW cf, QueueConfig(cf), Queue(cf)!Init
  PROVE  QueueInv(cf)
  <1>1. Shapes(cf) /\ ClaimedApart(cf)
    BY DEF QueueConfig, Queue!Init, Shapes, ClaimedApart, Owned
  <1>2. Locked(cf) /\ Queue(cf)!DoneIsDone
    BY DEF QueueConfig, Queue!Init, Locked, Queue!DoneIsDone
  <1> QED BY <1>1, <1>2 DEF QueueInv

(* Claims take rows that are ready and that nobody has. *)
LEMMA ClaimKeeps ==
  ASSUME NEW cf, QueueConfig(cf), QueueInv(cf), NEW c \in cf.Consumers,
         \/ Queue(cf)!Select(c) \/ Queue(cf)!Claim(c)
         \/ Queue(cf)!ClaimReturning(c) \/ Queue(cf)!ClaimUnanswered(c) \/ Queue(cf)!Rollback(c)
  PROVE  QueueInv(cf)'
  <1>1. CASE Queue(cf)!Select(c)
    <2>1. PICK ids \in SUBSET cf.Rows :
             /\ \A r \in ids : status[r] = "ready" /\ lock[r] = Queue(cf)!Free
             /\ ~cf.OneStatement /\ tx[c] = {} /\ tx' = [tx EXCEPT ![c] = ids]
             /\ lock' = [r \in cf.Rows |-> IF r \in ids THEN c ELSE lock[r]]
      BY <1>1 DEF Queue!Select, Queue!First, Queue!Matching
    <2>2. UNCHANGED <<status, hand, refused, sleeping, done, doubted>> /\ lost' = lost
      BY <1>1 DEF Queue!Select, Queue!held
    <2>3. Shapes(cf)'
      BY <2>1, <2>2 DEF QueueInv, Shapes
    <2>4. Locked(cf)'
      <3>1. SUFFICES ASSUME NEW d \in cf.Consumers, NEW q \in cf.Rows
                     PROVE  /\ q \in tx'[d] <=> lock'[q] = d
                            /\ lock'[q] = d => status[q] = "ready" /\ (cf.OneStatement => FALSE)
        BY <2>2 DEF Locked
      <3>2. /\ tx'[d] = (IF d = c THEN ids ELSE tx[d])
            /\ lock'[q] = (IF q \in ids THEN c ELSE lock[q])
        BY <2>1 DEF QueueInv, Shapes
      <3>3. /\ q \in tx[d] <=> lock[q] = d
            /\ lock[q] = d => status[q] = "ready" /\ (cf.OneStatement => FALSE)
        BY DEF QueueInv, Locked
      <3> QED BY <2>1, <3>2, <3>3 DEF QueueConfig
    <2> QED BY <2>2, <2>3, <2>4 DEF QueueInv, ClaimedApart, Owned, Queue!DoneIsDone
  <1>2. CASE Queue(cf)!Claim(c)
    <2>1. /\ status' = [r \in cf.Rows |-> IF r \in tx[c] THEN "claimed" ELSE status[r]]
          /\ lock' = [r \in cf.Rows |-> IF lock[r] = c THEN Queue(cf)!Free ELSE lock[r]]
          /\ hand' = [hand EXCEPT ![c] = @ \cup tx[c]] /\ tx' = [tx EXCEPT ![c] = {}]
          /\ UNCHANGED <<refused, sleeping, done, doubted, lost>>
      BY <1>2 DEF Queue!Claim
    <2>2. Shapes(cf)'
      BY <2>1 DEF QueueInv, Shapes
    <2>3. Locked(cf)'
      <3>1. SUFFICES ASSUME NEW d \in cf.Consumers, NEW q \in cf.Rows
                     PROVE  /\ q \in tx'[d] <=> lock'[q] = d
                            /\ lock'[q] = d => status'[q] = "ready" /\ (cf.OneStatement => FALSE)
        BY DEF Locked
      <3>2. /\ tx'[d] = (IF d = c THEN {} ELSE tx[d])
            /\ lock'[q] = (IF lock[q] = c THEN Queue(cf)!Free ELSE lock[q])
            /\ status'[q] = (IF q \in tx[c] THEN "claimed" ELSE status[q])
        BY <2>1 DEF QueueInv, Shapes
      <3>3. /\ q \in tx[d] <=> lock[q] = d
            /\ q \in tx[c] <=> lock[q] = c
            /\ lock[q] = d => status[q] = "ready" /\ (cf.OneStatement => FALSE)
        BY DEF QueueInv, Locked
      <3> QED BY <3>2, <3>3 DEF QueueConfig
    <2>4. \A r \in tx[c] : /\ status[r] = "ready"
                           /\ r \notin doubted => \A d \in cf.Consumers : r \notin Owned(d)
      BY DEF QueueInv, Shapes, Locked, ClaimedApart
    <2>5. ClaimedApart(cf)'
      BY <2>1, <2>4 DEF QueueInv, Shapes, ClaimedApart, Owned
    <2>6. Queue(cf)!DoneIsDone'
      BY <2>1, <2>4 DEF QueueInv, Shapes, Queue!DoneIsDone
    <2> QED BY <2>2, <2>3, <2>5, <2>6 DEF QueueInv
  <1>3. CASE Queue(cf)!ClaimReturning(c)
    <2>1. PICK ids \in SUBSET cf.Rows :
             /\ \A r \in ids : status[r] = "ready"
             /\ cf.OneStatement /\ hand' = [hand EXCEPT ![c] = @ \cup ids]
             /\ status' = [r \in cf.Rows |-> IF r \in ids THEN "claimed" ELSE status[r]]
      BY <1>3 DEF Queue!ClaimReturning, Queue!First, Queue!Matching
    <2>2. UNCHANGED <<lock, tx, refused, sleeping, done, doubted, lost>>
      BY <1>3 DEF Queue!ClaimReturning
    <2>3. Shapes(cf)'
      BY <2>1, <2>2 DEF QueueInv, Shapes
    <2>4. Locked(cf)'
      BY <2>1, <2>2 DEF QueueInv, Shapes, Locked
    <2>5. ClaimedApart(cf)'
      BY <2>1, <2>2 DEF QueueInv, Shapes, ClaimedApart, Owned
    <2>6. Queue(cf)!DoneIsDone'
      BY <2>1, <2>2 DEF QueueInv, Shapes, Queue!DoneIsDone
    <2> QED BY <2>3, <2>4, <2>5, <2>6 DEF QueueInv
  <1>4. CASE Queue(cf)!Rollback(c)
    <2>1. /\ lock' = [r \in cf.Rows |-> IF lock[r] = c THEN Queue(cf)!Free ELSE lock[r]]
          /\ tx' = [tx EXCEPT ![c] = {}] /\ UNCHANGED <<status, hand, refused, sleeping, done, doubted>> /\ lost' = lost
      BY <1>4 DEF Queue!Rollback, Queue!held
    <2>2. Shapes(cf)'
      BY <2>1 DEF QueueInv, Shapes
    <2>3. Locked(cf)'
      <3>1. SUFFICES ASSUME NEW d \in cf.Consumers, NEW q \in cf.Rows
                     PROVE  /\ q \in tx'[d] <=> lock'[q] = d
                            /\ lock'[q] = d => status'[q] = "ready" /\ (cf.OneStatement => FALSE)
        BY DEF Locked
      <3>2. /\ tx'[d] = (IF d = c THEN {} ELSE tx[d])
            /\ lock'[q] = (IF lock[q] = c THEN Queue(cf)!Free ELSE lock[q]) /\ status' = status
        BY <2>1 DEF QueueInv, Shapes
      <3>3. /\ q \in tx[d] <=> lock[q] = d
            /\ lock[q] = d => status[q] = "ready" /\ (cf.OneStatement => FALSE)
        BY DEF QueueInv, Locked
      <3> QED BY <3>2, <3>3 DEF QueueConfig
    <2> QED BY <2>1, <2>2, <2>3 DEF QueueInv, ClaimedApart, Owned, Queue!DoneIsDone
  <1>5. CASE Queue(cf)!ClaimUnanswered(c)
    <2>1. PICK ids \in SUBSET cf.Rows :
             /\ ids = tx[c] \/ (cf.OneStatement /\ \A r \in ids : status[r] = "ready")
             /\ status' = [r \in cf.Rows |-> IF r \in ids THEN "claimed" ELSE status[r]]
             /\ lost' = lost \cup ids
      BY <1>5 DEF Queue!ClaimUnanswered, Queue!First, Queue!Matching, QueueInv, Shapes
    <2>2. /\ lock' = [r \in cf.Rows |-> IF lock[r] = c THEN Queue(cf)!Free ELSE lock[r]]
          /\ tx' = [tx EXCEPT ![c] = {}]
          /\ UNCHANGED <<hand, refused, sleeping, done, doubted>>
      BY <1>5 DEF Queue!ClaimUnanswered, Queue!held
    <2>3. Shapes(cf)'
      BY <2>1, <2>2 DEF QueueInv, Shapes
    <2>4. \A r \in ids : status[r] = "ready" /\ \A d \in cf.Consumers : lock[r] = d => d = c
      BY <2>1 DEF QueueInv, Shapes, Locked
    <2>5. Locked(cf)'
      <3>1. SUFFICES ASSUME NEW d \in cf.Consumers, NEW q \in cf.Rows
                     PROVE  /\ q \in tx'[d] <=> lock'[q] = d
                            /\ lock'[q] = d => status'[q] = "ready" /\ (cf.OneStatement => FALSE)
        BY DEF Locked
      <3>2. /\ tx'[d] = (IF d = c THEN {} ELSE tx[d])
            /\ lock'[q] = (IF lock[q] = c THEN Queue(cf)!Free ELSE lock[q])
            /\ status'[q] = (IF q \in ids THEN "claimed" ELSE status[q])
        BY <2>1, <2>2 DEF QueueInv, Shapes
      <3>3. /\ q \in tx[d] <=> lock[q] = d
            /\ lock[q] = d => status[q] = "ready" /\ (cf.OneStatement => FALSE)
        BY DEF QueueInv, Locked
      <3> QED BY <2>4, <3>2, <3>3 DEF QueueConfig
    <2>6. ClaimedApart(cf)'
      BY <2>1, <2>2, <2>4 DEF QueueInv, Shapes, ClaimedApart, Owned
    <2>7. Queue(cf)!DoneIsDone'
      BY <2>1, <2>2, <2>4 DEF QueueInv, Shapes, Queue!DoneIsDone
    <2> QED BY <2>3, <2>5, <2>6, <2>7 DEF QueueInv
  <1> QED BY <1>1, <1>2, <1>3, <1>4, <1>5

(* What a settlement of row r does: it takes the row from one of the sets of its *)
(* consumer, may put it in another, and writes it when no transaction holds it.   *)
Moves(cf, c, r) ==
  /\ r \in Owned(c) /\ UNCHANGED <<lock, tx>> /\ lost' \in {lost, lost \cup {r}}
  /\ hand' \in [cf.Consumers -> SUBSET cf.Rows] /\ refused' \in [cf.Consumers -> SUBSET cf.Rows]
  /\ sleeping' \in [cf.Consumers -> SUBSET cf.Rows]
  /\ \A d \in cf.Consumers \ {c} :
       hand'[d] = hand[d] /\ refused'[d] = refused[d] /\ sleeping'[d] = sleeping[d]
  /\ \A q \in cf.Rows \ {r} : /\ q \in hand'[c] <=> q \in hand[c]
                              /\ q \in refused'[c] <=> q \in refused[c]
                              /\ q \in sleeping'[c] <=> q \in sleeping[c]
  /\ r \notin doubted =>
       /\ r \notin hand'[c] /\ (r \notin refused'[c] \/ r \notin sleeping'[c])
       /\ (status' = status \/ r \in doubted' \/ r \notin refused'[c] \cup sleeping'[c])
  /\ doubted' \in {doubted, doubted \cup {r}}
  /\ \/ status' = status /\ done' = done
     \/ lock[r] = Queue(cf)!Free /\ status' = [status EXCEPT ![r] = "done"] /\ done' = done \cup {r}
     \/ /\ lock[r] = Queue(cf)!Free /\ status' = [status EXCEPT ![r] = "done"] /\ done' = done
        /\ doubted' = doubted \cup {r}
     \/ /\ lock[r] = Queue(cf)!Free /\ cf.Nack # "none" /\ status' = [status EXCEPT ![r] = cf.Nack]
        /\ done' = done

(* Whoever settles a row has it. *)
LEMMA SettleMoves ==
  ASSUME NEW cf, QueueConfig(cf), QueueInv(cf), NEW c \in cf.Consumers, NEW r \in cf.Rows,
         \/ Queue(cf)!Ack(c, r) \/ Queue(cf)!Retry(c, r)
         \/ Queue(cf)!RetryWakes(c, r) \/ Queue(cf)!Fail(c, r)
         \/ Queue(cf)!AckFails(c, r) \/ Queue(cf)!FailFails(c, r) \/ Queue(cf)!NackFails(c, r)
  PROVE  Moves(cf, c, r)
  <1>0. /\ hand \in [cf.Consumers -> SUBSET cf.Rows] /\ refused \in [cf.Consumers -> SUBSET cf.Rows]
        /\ sleeping \in [cf.Consumers -> SUBSET cf.Rows]
    BY DEF QueueInv, Shapes
  <1>00. /\ r \in hand[c] /\ r \notin doubted => r \notin refused[c] /\ r \notin sleeping[c]
         /\ r \in refused[c] /\ r \notin doubted => r \notin hand[c] /\ r \notin sleeping[c]
         /\ r \in sleeping[c] /\ r \notin doubted => r \notin hand[c] /\ r \notin refused[c]
    BY DEF QueueInv, ClaimedApart
  <1> DEFINE shape == /\ hand' \in [cf.Consumers -> SUBSET cf.Rows]
                      /\ refused' \in [cf.Consumers -> SUBSET cf.Rows]
                      /\ sleeping' \in [cf.Consumers -> SUBSET cf.Rows]
                      /\ \A d \in cf.Consumers \ {c} :
                           hand'[d] = hand[d] /\ refused'[d] = refused[d] /\ sleeping'[d] = sleeping[d]
  <1> HIDE DEF shape
  <1>1. CASE Queue(cf)!Ack(c, r)
    <2>1. /\ r \in hand[c] /\ hand' = [hand EXCEPT ![c] = hand[c] \ {r}]
          /\ lock[r] = Queue(cf)!Free /\ status' = [status EXCEPT ![r] = "done"] /\ done' = done \cup {r}
          /\ UNCHANGED <<lock, tx, refused, sleeping, doubted, lost>>
      BY <1>1 DEF Queue!Ack, Queue!Takes, Queue!Updates
    <2>8. shape
      BY <1>0, <2>1 DEF shape
    <2>9. hand'[c] = hand[c] \ {r} /\ refused'[c] = refused[c] /\ sleeping'[c] = sleeping[c]
      BY <1>0, <2>1
    <2> QED BY <1>0, <1>00, <2>1, <2>8, <2>9 DEF Moves, Owned, shape
  <1>2. CASE Queue(cf)!AckFails(c, r)
    <2>1. /\ r \in hand[c] /\ hand' = [hand EXCEPT ![c] = hand[c] \ {r}]
          /\ refused' = [refused EXCEPT ![c] = refused[c] \cup {r}]
          /\ UNCHANGED <<lock, tx, sleeping, done, lost>>
      BY <1>2 DEF Queue!AckFails, Queue!Takes, Queue!Adds
    <2>2. \/ UNCHANGED <<status, doubted>>
          \/ /\ lock[r] = Queue(cf)!Free /\ status' = [status EXCEPT ![r] = "done"]
             /\ doubted' = doubted \cup {r}
      BY <1>2 DEF Queue!AckFails, Queue!Unanswered, Queue!Updates
    <2>8. shape
      BY <1>0, <2>1 DEF shape
    <2>9. hand'[c] = hand[c] \ {r} /\ refused'[c] = refused[c] \cup {r} /\ sleeping'[c] = sleeping[c]
      BY <1>0, <2>1
    <2> QED BY <1>0, <1>00, <2>1, <2>2, <2>8, <2>9 DEF Moves, Owned, shape
  <1>3. CASE Queue(cf)!Retry(c, r)
    <2>1. /\ \/ r \in hand[c] /\ hand' = [hand EXCEPT ![c] = hand[c] \ {r}] /\ refused' = refused
             \/ r \in refused[c] /\ refused' = [refused EXCEPT ![c] = refused[c] \ {r}] /\ hand' = hand
          /\ sleeping' = [sleeping EXCEPT ![c] = sleeping[c] \cup {r}]
          /\ UNCHANGED <<status, lock, tx, done, doubted, lost>>
      BY <1>3 DEF Queue!Retry, Queue!Handled, Queue!Takes, Queue!Adds
    <2>8. shape
      BY <1>0, <2>1 DEF shape
    <2>9. /\ \/ r \in hand[c] /\ hand'[c] = hand[c] \ {r} /\ refused'[c] = refused[c]
             \/ r \in refused[c] /\ refused'[c] = refused[c] \ {r} /\ hand'[c] = hand[c]
          /\ sleeping'[c] = sleeping[c] \cup {r}
      BY <1>0, <2>1
    <2> QED BY <1>0, <1>00, <2>1, <2>8, <2>9 DEF Moves, Owned, shape
  <1>4. CASE Queue(cf)!RetryWakes(c, r)
    <2>1. /\ r \in sleeping[c] /\ sleeping' = [sleeping EXCEPT ![c] = sleeping[c] \ {r}]
          /\ UNCHANGED <<lock, tx, hand, refused, done, doubted, lost>>
      BY <1>4 DEF Queue!RetryWakes, Queue!Takes
    <2>2. \/ status' = status
          \/ lock[r] = Queue(cf)!Free /\ cf.Nack # "none" /\ status' = [status EXCEPT ![r] = cf.Nack]
      BY <1>4 DEF Queue!RetryWakes, Queue!Updates
    <2>8. shape
      BY <1>0, <2>1 DEF shape
    <2>9. sleeping'[c] = sleeping[c] \ {r} /\ hand'[c] = hand[c] /\ refused'[c] = refused[c]
      BY <1>0, <2>1
    <2> QED BY <1>0, <1>00, <2>1, <2>2, <2>8, <2>9 DEF Moves, Owned, shape
  <1>5. CASE Queue(cf)!Fail(c, r)
    <2>1. /\ \/ r \in hand[c] /\ hand' = [hand EXCEPT ![c] = hand[c] \ {r}] /\ refused' = refused
             \/ r \in refused[c] /\ refused' = [refused EXCEPT ![c] = refused[c] \ {r}] /\ hand' = hand
          /\ UNCHANGED <<lock, tx, sleeping, done, doubted, lost>>
      BY <1>5 DEF Queue!Fail, Queue!Handled, Queue!Takes
    <2>2. \/ status' = status
          \/ lock[r] = Queue(cf)!Free /\ cf.Nack # "none" /\ status' = [status EXCEPT ![r] = cf.Nack]
      BY <1>5 DEF Queue!Fail, Queue!Updates
    <2>8. shape
      BY <1>0, <2>1 DEF shape
    <2>9. /\ \/ r \in hand[c] /\ hand'[c] = hand[c] \ {r} /\ refused'[c] = refused[c]
             \/ r \in refused[c] /\ refused'[c] = refused[c] \ {r} /\ hand'[c] = hand[c]
          /\ sleeping'[c] = sleeping[c]
      BY <1>0, <2>1
    <2> QED BY <1>0, <1>00, <2>1, <2>2, <2>8, <2>9 DEF Moves, Owned, shape
  <1>6. CASE Queue(cf)!FailFails(c, r)
    <2>1. /\ \/ r \in hand[c] /\ hand' = [hand EXCEPT ![c] = hand[c] \ {r}] /\ refused' = refused
             \/ r \in refused[c] /\ refused' = [refused EXCEPT ![c] = refused[c] \ {r}] /\ hand' = hand
          /\ sleeping' = [sleeping EXCEPT ![c] = sleeping[c] \cup {r}]
          /\ UNCHANGED <<lock, tx, done, lost>>
      BY <1>6 DEF Queue!FailFails, Queue!Takes, Queue!Adds
    <2>2. \/ UNCHANGED <<status, doubted>>
          \/ /\ lock[r] = Queue(cf)!Free /\ cf.Nack # "none" /\ status' = [status EXCEPT ![r] = cf.Nack]
             /\ doubted' = doubted \cup {r}
      BY <1>6 DEF Queue!FailFails, Queue!Unanswered, Queue!Updates
    <2>8. shape
      BY <1>0, <2>1 DEF shape
    <2>9. /\ \/ r \in hand[c] /\ hand'[c] = hand[c] \ {r} /\ refused'[c] = refused[c]
             \/ r \in refused[c] /\ refused'[c] = refused[c] \ {r} /\ hand'[c] = hand[c]
          /\ sleeping'[c] = sleeping[c] \cup {r}
      BY <1>0, <2>1
    <2> QED BY <1>0, <1>00, <2>1, <2>2, <2>8, <2>9 DEF Moves, Owned, shape
  <1>7. CASE Queue(cf)!NackFails(c, r)
    <2>1. /\ \/ r \in hand[c] /\ hand' = [hand EXCEPT ![c] = hand[c] \ {r}] /\ sleeping' = sleeping
             \/ r \in sleeping[c] /\ sleeping' = [sleeping EXCEPT ![c] = sleeping[c] \ {r}] /\ hand' = hand
          /\ UNCHANGED <<lock, tx, refused, done, doubted>>
      BY <1>7 DEF Queue!NackFails, Queue!Takes
    <2>2. \/ status' = status /\ lost' = lost \cup {r}
          \/ /\ lock[r] = Queue(cf)!Free /\ cf.Nack # "none" /\ status' = [status EXCEPT ![r] = cf.Nack]
             /\ lost' = lost
      BY <1>7 DEF Queue!NackFails, Queue!Updates
    <2>8. shape
      BY <1>0, <2>1 DEF shape
    <2>9. /\ \/ r \in hand[c] /\ hand'[c] = hand[c] \ {r} /\ sleeping'[c] = sleeping[c]
             \/ r \in sleeping[c] /\ sleeping'[c] = sleeping[c] \ {r} /\ hand'[c] = hand[c]
          /\ refused'[c] = refused[c]
      BY <1>0, <2>1
    <2> QED BY <1>0, <1>00, <2>1, <2>2, <2>8, <2>9 DEF Moves, Owned, shape
  <1> QED BY <1>1, <1>2, <1>3, <1>4, <1>5, <1>6, <1>7

(* As long as no answer about a row was lost, nobody but its consumer has it. *)
LEMMA SettleKeeps ==
  ASSUME NEW cf, QueueConfig(cf), QueueInv(cf), NEW c \in cf.Consumers, NEW r \in cf.Rows,
         Moves(cf, c, r)
  PROVE  QueueInv(cf)'
  <1>1. /\ r \in Owned(c) /\ UNCHANGED <<lock, tx>> /\ lost' \in {lost, lost \cup {r}}
        /\ doubted' \in {doubted, doubted \cup {r}}
    BY DEF Moves
  <1> DEFINE H == hand'[c]
             F == refused'[c]
             S == sleeping'[c]
  <1>2. /\ hand' \in [cf.Consumers -> SUBSET cf.Rows] /\ refused' \in [cf.Consumers -> SUBSET cf.Rows]
        /\ sleeping' \in [cf.Consumers -> SUBSET cf.Rows]
        /\ \A q \in cf.Rows \ {r} : /\ q \in H <=> q \in hand[c]
                                    /\ q \in F <=> q \in refused[c]
                                    /\ q \in S <=> q \in sleeping[c]
        /\ r \notin doubted => /\ r \notin H /\ (r \notin F \/ r \notin S)
                              /\ (status' = status \/ r \in doubted' \/ r \notin F \cup S)
    BY DEF Moves
  <1>3. \/ status' = status /\ done' = done
        \/ lock[r] = Queue(cf)!Free /\ status' = [status EXCEPT ![r] = "done"] /\ done' = done \cup {r}
        \/ /\ lock[r] = Queue(cf)!Free /\ status' = [status EXCEPT ![r] = "done"] /\ done' = done
           /\ doubted' = doubted \cup {r}
        \/ /\ lock[r] = Queue(cf)!Free /\ cf.Nack # "none" /\ status' = [status EXCEPT ![r] = cf.Nack]
           /\ done' = done
    BY DEF Moves
  <1>4. /\ status' \in [cf.Rows -> {"ready", "claimed", "done", "failed"}]
        /\ \A q \in cf.Rows \ {r} : status'[q] = status[q]
        /\ lock[r] # Queue(cf)!Free => status' = status
    BY <1>3 DEF QueueInv, Shapes, QueueConfig
  <1>5. Shapes(cf)'
    <2>1. done' \cup doubted' \cup lost' \subseteq cf.Rows
      BY <1>1, <1>3 DEF QueueInv, Shapes
    <2> QED BY <1>1, <1>2, <1>4, <2>1 DEF QueueInv, Shapes
  <1>6. Locked(cf)'
    <2>1. SUFFICES ASSUME NEW d \in cf.Consumers, NEW q \in cf.Rows
                   PROVE  /\ q \in tx'[d] <=> lock'[q] = d
                          /\ lock'[q] = d => status'[q] = "ready" /\ (cf.OneStatement => FALSE)
      BY DEF Locked
    <2>2. /\ q \in tx[d] <=> lock[q] = d
          /\ lock[q] = d => status[q] = "ready" /\ (cf.OneStatement => FALSE)
      BY DEF QueueInv, Locked
    <2>3. lock[q] = d => status'[q] = status[q]
      BY <1>4 DEF QueueConfig
    <2> QED BY <1>1, <2>2, <2>3
  <1>7. /\ \A d \in cf.Consumers \ {c} :
             hand'[d] = hand[d] /\ refused'[d] = refused[d] /\ sleeping'[d] = sleeping[d]
        /\ H \subseteq cf.Rows /\ F \subseteq cf.Rows /\ S \subseteq cf.Rows
    BY <1>2 DEF Moves
  <1>8. /\ \A d \in cf.Consumers \ {c} : Owned(d)' = Owned(d)
        /\ Owned(c)' = H \cup F \cup S /\ Owned(c)' \subseteq Owned(c)
    <2>1. \A q \in cf.Rows \ {r} : q \in H \cup F \cup S => q \in Owned(c)
      BY <1>2 DEF Owned
    <2> QED BY <1>1, <1>7, <2>1 DEF Owned
  <1>9. \A d \in cf.Consumers : Owned(d) \subseteq cf.Rows
    BY DEF QueueInv, Shapes, Owned
  <1>10. ClaimedApart(cf)'
    <2>1. ASSUME NEW d \in cf.Consumers, NEW q \in Owned(d)' \ doubted'
          PROVE  status'[q] = "claimed"
      <3>1. q \in Owned(d) /\ q \in cf.Rows /\ q \notin doubted
        BY <1>1, <1>8, <1>9, <2>1
      <3>2. status[q] = "claimed"
        BY <3>1 DEF QueueInv, ClaimedApart
      <3>3. CASE q # r
        BY <1>4, <3>1, <3>2, <3>3
      <3>4. CASE q = r
        <4>1. d = c
          BY <1>1, <3>1, <3>4 DEF QueueInv, ClaimedApart
        <4>2. status' = status
          BY <1>2, <1>8, <2>1, <3>1, <3>4, <4>1
        <4> QED BY <3>2, <4>2
      <3> QED BY <3>3, <3>4
    <2>2. ASSUME NEW d \in cf.Consumers
          PROVE  /\ hand'[d] \cap refused'[d] \subseteq doubted'
                 /\ hand'[d] \cap sleeping'[d] \subseteq doubted'
                 /\ refused'[d] \cap sleeping'[d] \subseteq doubted'
      <3>1. /\ hand[d] \cap refused[d] \subseteq doubted /\ hand[d] \cap sleeping[d] \subseteq doubted
            /\ refused[d] \cap sleeping[d] \subseteq doubted
        BY DEF QueueInv, ClaimedApart
      <3>2. CASE d # c
        BY <1>1, <1>7, <3>1, <3>2
      <3>3. CASE d = c
        <4>1. \A q \in cf.Rows : q \notin doubted =>
                (q \notin H \/ q \notin F) /\ (q \notin H \/ q \notin S) /\ (q \notin F \/ q \notin S)
          BY <1>2, <3>1, <3>3
        <4> QED BY <1>1, <1>7, <3>3, <4>1
      <3> QED BY <3>2, <3>3
    <2>3. \A d, g \in cf.Consumers : d # g => Owned(d)' \cap Owned(g)' \subseteq doubted'
      <3>1. \A d, g \in cf.Consumers : d # g => Owned(d) \cap Owned(g) \subseteq doubted
        BY DEF QueueInv, ClaimedApart
      <3>2. \A d \in cf.Consumers : Owned(d)' \subseteq Owned(d)
        BY <1>8
      <3> QED BY <1>1, <3>1, <3>2
    <2> QED BY <2>1, <2>2, <2>3 DEF ClaimedApart
  <1>11. Queue(cf)!DoneIsDone'
    <2> SUFFICES ASSUME NEW q \in cf.Rows, q \notin doubted'
                 PROVE  status'[q] = "done" <=> q \in done'
      BY DEF Queue!DoneIsDone
    <2>1. q \notin doubted /\ (status[q] = "done" <=> q \in done)
      BY <1>1 DEF QueueInv, Queue!DoneIsDone
    <2>2. CASE q # r
      BY <1>3, <1>4, <2>1, <2>2
    <2>3. CASE q = r
      <3>1. status[r] = "claimed" /\ r \notin done
        BY <1>1, <2>1, <2>3 DEF QueueInv, ClaimedApart
      <3> QED BY <1>3, <2>1, <2>3, <3>1 DEF QueueConfig, QueueInv, Shapes
    <2> QED BY <2>2, <2>3
  <1> QED BY <1>5, <1>6, <1>10, <1>11 DEF QueueInv

(* Every step keeps the invariant. *)
LEMMA QueueStep ==
  ASSUME NEW cf, QueueConfig(cf), QueueInv(cf), [Queue(cf)!Next]_(Queue(cf)!vars)
  PROVE  QueueInv(cf)'
  <1>1. ASSUME NEW c \in cf.Consumers, Queue(cf)!Crash(c) PROVE QueueInv(cf)'
    <2>1. /\ lock' = [r \in cf.Rows |-> IF lock[r] = c THEN Queue(cf)!Free ELSE lock[r]]
          /\ tx' = [tx EXCEPT ![c] = {}] /\ hand' = [hand EXCEPT ![c] = {}]
          /\ refused' = [refused EXCEPT ![c] = {}] /\ sleeping' = [sleeping EXCEPT ![c] = {}]
          /\ lost' = lost \cup hand[c] \cup refused[c] \cup sleeping[c]
          /\ UNCHANGED <<status, done, doubted>>
      BY <1>1 DEF Queue!Crash
    <2>2. Shapes(cf)' /\ Queue(cf)!DoneIsDone'
      BY <2>1 DEF QueueInv, Shapes, Queue!DoneIsDone
    <2>3. ClaimedApart(cf)'
      BY <2>1 DEF QueueInv, Shapes, ClaimedApart, Owned
    <2>4. Locked(cf)'
      <3>1. SUFFICES ASSUME NEW d \in cf.Consumers, NEW q \in cf.Rows
                     PROVE  /\ q \in tx'[d] <=> lock'[q] = d
                            /\ lock'[q] = d => status'[q] = "ready" /\ (cf.OneStatement => FALSE)
        BY DEF Locked
      <3>2. /\ tx'[d] = (IF d = c THEN {} ELSE tx[d])
            /\ lock'[q] = (IF lock[q] = c THEN Queue(cf)!Free ELSE lock[q]) /\ status' = status
        BY <2>1 DEF QueueInv, Shapes
      <3>3. /\ q \in tx[d] <=> lock[q] = d
            /\ lock[q] = d => status[q] = "ready" /\ (cf.OneStatement => FALSE)
        BY DEF QueueInv, Locked
      <3> QED BY <3>2, <3>3 DEF QueueConfig
    <2> QED BY <2>2, <2>3, <2>4 DEF QueueInv
  <1>2. CASE UNCHANGED Queue(cf)!vars
    BY <1>2 DEF Queue!vars, Queue!held, QueueInv, Shapes, Locked, ClaimedApart, Owned, Queue!DoneIsDone
  <1> QED BY <1>1, <1>2, ClaimKeeps, SettleMoves, SettleKeeps DEF Queue!Next

(* What the invariant says of the consumers and of the rows. *)
LEMMA QueueSafe ==
  ASSUME NEW cf, QueueConfig(cf), QueueInv(cf)
  PROVE  Queue(cf)!TypeOK /\ Queue(cf)!OneWorker /\ Queue(cf)!DoneIsDone
  <1>1. Queue(cf)!TypeOK
    <2>1. \A c \in cf.Consumers : tx[c] = {r \in cf.Rows : lock[r] = c}
      BY DEF QueueInv, Shapes, Locked
    <2> QED BY <2>1 DEF QueueInv, Shapes, ClaimedApart, Queue!TypeOK
  <1>2. Queue(cf)!OneWorker
    <2>1. \A c, d \in cf.Consumers : c # d => tx[c] \cap tx[d] = {}
      BY DEF QueueInv, Shapes, Locked
    <2>2. \A c, d \in cf.Consumers : tx[c] \cap Owned(d) \subseteq doubted
      BY DEF QueueInv, Shapes, Locked, ClaimedApart
    <2> QED BY <2>1, <2>2 DEF QueueInv, ClaimedApart, Queue!OneWorker, Owned
  <1> QED BY <1>1, <1>2 DEF QueueInv

(* Two consumers work on the same row only after the answer of a settlement of    *)
(* that row was lost, and of the other rows those marked done are the ones whose  *)
(* ack returned, for any rows, consumers, batch sizes, claims by lock or by one    *)
(* statement, retries, failures, updates that fail or are not answered, and       *)
(* crashes: ack_row and retry_row write a row by its key and find it as claimed.  *)
THEOREM RowsHaveOneWorker ==
  ASSUME NEW cf, QueueConfig(cf)
  PROVE  Queue(cf)!Spec => [](Queue(cf)!TypeOK /\ Queue(cf)!OneWorker /\ Queue(cf)!DoneIsDone)
  <1>1. Queue(cf)!Init => QueueInv(cf)
    BY QueueInit
  <1>2. QueueInv(cf) /\ [Queue(cf)!Next]_(Queue(cf)!vars) => QueueInv(cf)'
    BY QueueStep
  <1>3. QueueInv(cf) => Queue(cf)!TypeOK /\ Queue(cf)!OneWorker /\ Queue(cf)!DoneIsDone
    BY QueueSafe
  <1> QED BY <1>1, <1>2, <1>3, PTL DEF Queue!Spec

--------------------------------------------------------------------------------
(* The table sink *)

(* Rows written by others hold plain values, which are none of the names that stand *)
(* for null, documents and the like; there is a column besides the key. *)
SinkConfig(cf) ==
  /\ cf.Cols # {} /\ cf.Stored \subseteq cf.Scalars \cup {"null"}
  /\ cf.Scalars \cap {"null", "missing", "doc", "text", "expr"} = {}

(* What a column of the row may hold. *)
Cells(cf) == Sink(cf)!Values \cup {Sink(cf)!Text, Sink(cf)!Expr}

(* Sending the last payload again finds the row as it would leave it. *)
Settled(cf) ==
  /\ outcome = "none" => sends = 0
  /\ outcome = "skipped" => Sink(cf)!Updates(config, last) = {}
  /\ outcome = "unmatched" => row = Sink(cf)!Absent /\ config.mode = "update"
  /\ outcome \in {"inserted", "updated"} =>
       /\ row # Sink(cf)!Absent
       /\ config.mode # "insert" /\ config.expr = {} =>
            \A col \in cf.Cols \cap Sink(cf)!Updates(config, last) :
              Sink(cf)!NewValue(config, last, col, row[col]) = row[col]

(* The inductive invariant. *)
SinkInv(cf) ==
  /\ config \in Sink(cf)!Configs /\ last \in [cf.Cols -> Sink(cf)!Values \cup {Sink(cf)!Missing}]
  /\ row = Sink(cf)!Absent \/ row \in [cf.Cols -> Cells(cf)]
  /\ sends \in Nat
  /\ outcome \in {"none", "inserted", "updated", "unmatched", "skipped", "error"}
  /\ Sink(cf)!JsonStored /\ Settled(cf)

(* What the constructor has checked. *)
LEMMA SinkChecked ==
  ASSUME NEW cf, config \in Sink(cf)!Configs
  PROVE  /\ config.mode \in {"insert", "upsert", "update"} /\ Sink(cf)!ConfigOK(config)
         /\ config.expr \subseteq cf.Cols
  BY DEF Sink!Configs

(* What a payload's entry becomes. *)
LEMMA CoercedCell ==
  ASSUME NEW cf, SinkConfig(cf), NEW p \in Sink(cf)!Payloads, NEW col \in cf.Cols,
         p[col] # Sink(cf)!Missing
  PROVE  /\ Sink(cf)!Coerced(config, p, col) \in Sink(cf)!Values \cup {Sink(cf)!Text}
         /\ p[col] # Sink(cf)!Null => Sink(cf)!Coerced(config, p, col) # Sink(cf)!Null
         /\ config.json = "auto" =>
              /\ Sink(cf)!Coerced(config, p, col) = Sink(cf)!Text => col \notin cf.Json
              /\ Sink(cf)!Coerced(config, p, col) = Sink(cf)!Doc => col \in cf.Json
  <1>1. p[col] \in Sink(cf)!Values
    BY DEF Sink!Payloads
  <1>2. Sink(cf)!Text \notin Sink(cf)!Values /\ Sink(cf)!Text # Sink(cf)!Null
        /\ Sink(cf)!Text # Sink(cf)!Doc
    BY DEF SinkConfig, Sink!Values, Sink!Text, Sink!Null, Sink!Doc
  <1> QED BY <1>1, <1>2 DEF Sink!Coerced

(* What an update may name: a column with an entry, or one that update_expr sets. *)
LEMMA UpdatedColumn ==
  ASSUME NEW cf, NEW p, NEW col \in cf.Cols, col \in Sink(cf)!Updates(config, p)
  PROVE  \/ col \in config.expr
         \/ p[col] # Sink(cf)!Missing /\ col \notin Sink(cf)!Skipped(config, p)
  BY DEF Sink!Updates, Sink!Candidates

(* The outcomes of a statement. *)
LEMMA SinkOutcome ==
  ASSUME NEW cf, config.mode \in {"insert", "upsert", "update"}, NEW p
  PROVE  LET o == Sink(cf)!Outcome(config, p) IN
         /\ o \in {"inserted", "updated", "unmatched", "skipped", "error"}
         /\ o = "inserted" => row = Sink(cf)!Absent
         /\ o = "updated" => row # Sink(cf)!Absent
         /\ o = "unmatched" => row = Sink(cf)!Absent /\ config.mode = "update"
         /\ o = "skipped" => Sink(cf)!Updates(config, p) = {}
         /\ config.mode # "insert" /\ Sink(cf)!Updates(config, p) = {} => o \in {"skipped", "error"}
         /\ config.mode = "update" => o # "inserted"
  <1>1. CASE config.mode = "insert"
    BY <1>1 DEF Sink!Outcome
  <1>2. CASE config.mode = "update"
    BY <1>2 DEF Sink!Outcome
  <1>3. CASE config.mode = "upsert"
    BY <1>3 DEF Sink!Outcome
  <1> QED BY <1>1, <1>2, <1>3

(* What is inserted, and what is left of a row that is updated. *)
LEMMA WrittenCells ==
  ASSUME NEW cf, SinkConfig(cf), SinkInv(cf), NEW p \in Sink(cf)!Payloads,
         NEW r \in [cf.Cols -> Cells(cf)],
         \/ r = Sink(cf)!Inserted(config, p)
         \/ /\ row \in [cf.Cols -> Cells(cf)] /\ row # Sink(cf)!Absent
            /\ r = Sink(cf)!Applied(config, p, row)
  PROVE  config.json = "auto" =>
           \A col \in cf.Cols : /\ r[col] = Sink(cf)!Text => col \notin cf.Json
                                /\ r[col] = Sink(cf)!Doc => col \in cf.Json
  <1>1. SUFFICES ASSUME config.json = "auto", NEW col \in cf.Cols
                 PROVE  /\ r[col] = Sink(cf)!Text => col \notin cf.Json
                        /\ r[col] = Sink(cf)!Doc => col \in cf.Json
    OBVIOUS
  <1>2. Sink(cf)!Null # Sink(cf)!Text /\ Sink(cf)!Null # Sink(cf)!Doc
        /\ Sink(cf)!Expr # Sink(cf)!Text /\ Sink(cf)!Expr # Sink(cf)!Doc
    BY DEF Sink!Null, Sink!Text, Sink!Doc, Sink!Expr
  <1>3. CASE r = Sink(cf)!Inserted(config, p)
    <2>1. r[col] = Sink(cf)!Null
          \/ (p[col] # Sink(cf)!Missing /\ r[col] = Sink(cf)!Coerced(config, p, col))
      BY <1>3 DEF Sink!Inserted
    <2> QED BY <1>1, <1>2, <2>1, CoercedCell
  <1>4. CASE /\ row \in [cf.Cols -> Cells(cf)] /\ row # Sink(cf)!Absent
             /\ r = Sink(cf)!Applied(config, p, row)
    <2>1. \/ r[col] = row[col] \/ r[col] = Sink(cf)!Expr
          \/ p[col] # Sink(cf)!Missing /\ r[col] = Sink(cf)!Coerced(config, p, col)
      BY <1>4, UpdatedColumn DEF Sink!Applied, Sink!NewValue
    <2>2. /\ row[col] = Sink(cf)!Text => col \notin cf.Json
          /\ row[col] = Sink(cf)!Doc => col \in cf.Json
      BY <1>1, <1>4 DEF SinkInv, Sink!JsonStored
    <2> QED BY <1>1, <1>2, <2>1, <2>2, CoercedCell
  <1> QED BY <1>3, <1>4

(* The sink starts with its invariant. *)
LEMMA SinkInit ==
  ASSUME NEW cf, SinkConfig(cf), Sink(cf)!Init
  PROVE  SinkInv(cf)
  <1>1. cf.Stored \subseteq Cells(cf) /\ Sink(cf)!Text \notin cf.Stored /\ Sink(cf)!Doc \notin cf.Stored
    BY DEF SinkConfig, Cells, Sink!Values, Sink!Null, Sink!Text, Sink!Doc
  <1>2. row = Sink(cf)!Absent \/ row \in [cf.Cols -> cf.Stored]
    BY DEF Sink!Init
  <1>3. row = Sink(cf)!Absent \/ row \in [cf.Cols -> Cells(cf)]
    BY <1>1, <1>2
  <1>4. Sink(cf)!JsonStored
    BY <1>1, <1>2 DEF Sink!JsonStored
  <1> QED BY <1>3, <1>4 DEF Sink!Init, SinkInv, Settled

(* Every statement keeps the invariant. *)
LEMMA SinkStep ==
  ASSUME NEW cf, SinkConfig(cf), SinkInv(cf), [Sink(cf)!Next]_(Sink(cf)!vars)
  PROVE  SinkInv(cf)'
  <1>1. CASE UNCHANGED Sink(cf)!vars
    BY <1>1 DEF Sink!vars, SinkInv, Settled, Sink!JsonStored
  <1>2. ASSUME NEW p \in Sink(cf)!Payloads, Sink(cf)!Send(p)
        PROVE  SinkInv(cf)'
    <2> DEFINE o == Sink(cf)!Outcome(config, p)
    <2>1. /\ sends' = sends + 1 /\ outcome' = o /\ last' = p /\ config' = config
          /\ row' = CASE o = "inserted" -> Sink(cf)!Inserted(config, p)
                      [] o = "updated" -> Sink(cf)!Applied(config, p, row)
                      [] OTHER -> row
      BY <1>2 DEF Sink!Send
    <2>2. /\ config.mode \in {"insert", "upsert", "update"} /\ Sink(cf)!ConfigOK(config)
          /\ config.expr \subseteq cf.Cols
      BY SinkChecked DEF SinkInv
    <2>3. /\ o \in {"inserted", "updated", "unmatched", "skipped", "error"}
          /\ o = "inserted" => row = Sink(cf)!Absent
          /\ o = "updated" => row # Sink(cf)!Absent
          /\ o = "unmatched" => row = Sink(cf)!Absent /\ config.mode = "update"
          /\ o = "skipped" => Sink(cf)!Updates(config, p) = {}
      BY <2>2, SinkOutcome
    <2> HIDE DEF o
    <2>4. config' \in Sink(cf)!Configs /\ sends' \in Nat /\ sends' # 0
          /\ last' \in [cf.Cols -> Sink(cf)!Values \cup {Sink(cf)!Missing}]
      BY <2>1 DEF SinkInv, Sink!Payloads
    <2>5. Sink(cf)!Inserted(config, p) \in [cf.Cols -> Cells(cf)]
      BY CoercedCell DEF Sink!Inserted, Cells, Sink!Values
    <2>6. o = "updated" => Sink(cf)!Applied(config, p, row) \in [cf.Cols -> Cells(cf)]
                           /\ row \in [cf.Cols -> Cells(cf)]
      <3>1. SUFFICES ASSUME row \in [cf.Cols -> Cells(cf)], NEW col \in cf.Cols,
                            col \in Sink(cf)!Updates(config, p)
                     PROVE  Sink(cf)!NewValue(config, p, col, row[col]) \in Cells(cf)
        BY <2>3 DEF SinkInv, Sink!Applied
      <3> QED BY <3>1, UpdatedColumn, CoercedCell DEF Sink!NewValue, Cells
    <2>7. row' = Sink(cf)!Absent \/ row' \in [cf.Cols -> Cells(cf)]
      BY <2>1, <2>3, <2>5, <2>6 DEF SinkInv
    <2>8. Sink(cf)!JsonStored'
      BY <2>1, <2>3, <2>5, <2>6, WrittenCells DEF SinkInv, Sink!JsonStored
    <2>9. \A f \in [cf.Cols -> Cells(cf)] : f # Sink(cf)!Absent
      BY DEF Sink!Absent, SinkConfig
    <2>10. o \in {"inserted", "updated"} =>
             /\ row' # Sink(cf)!Absent
             /\ config.mode # "insert" /\ config.expr = {} =>
                  \A col \in cf.Cols \cap Sink(cf)!Updates(config, p) :
                    Sink(cf)!NewValue(config, p, col, row'[col]) = row'[col]
      <3>1. CASE o = "inserted"
        <4>1. row' = Sink(cf)!Inserted(config, p)
          BY <2>1, <3>1
        <4> QED BY <2>5, <2>9, <4>1, UpdatedColumn DEF Sink!Inserted, Sink!NewValue
      <3>2. CASE o = "updated"
        <4>1. row' = Sink(cf)!Applied(config, p, row)
          BY <2>1, <3>2
        <4> QED BY <2>6, <2>9, <3>2, <4>1 DEF Sink!Applied, Sink!NewValue
      <3> QED BY <3>1, <3>2
    <2>11. Settled(cf)'
      BY <2>1, <2>3, <2>4, <2>10 DEF Settled
    <2> QED BY <2>1, <2>3, <2>4, <2>7, <2>8, <2>11 DEF SinkInv
  <1> QED BY <1>1, <1>2 DEF Sink!Next

(* A payload that is sent again leaves the row alone. *)
LEMMA SinkReplay ==
  ASSUME NEW cf, SinkConfig(cf), SinkInv(cf), Sink(cf)!Next
  PROVE  Sink(cf)!ReplaySafe
  <1>1. PICK p \in Sink(cf)!Payloads : Sink(cf)!Send(p)
    BY DEF Sink!Next
  <1>2. SUFFICES ASSUME sends > 0, config.mode # "insert", config.expr = {}, last' = last,
                        outcome # "error"
                 PROVE  row' = row
    BY DEF Sink!ReplaySafe
  <1> DEFINE o == Sink(cf)!Outcome(config, p)
  <1>3. last = p /\ row' = CASE o = "inserted" -> Sink(cf)!Inserted(config, p)
                             [] o = "updated" -> Sink(cf)!Applied(config, p, row)
                             [] OTHER -> row
    BY <1>1, <1>2 DEF Sink!Send
  <1>4. config.mode \in {"insert", "upsert", "update"}
    BY SinkChecked DEF SinkInv
  <1>5. /\ o = "inserted" => row = Sink(cf)!Absent /\ config.mode # "update"
        /\ o = "updated" => row # Sink(cf)!Absent
        /\ config.mode # "insert" /\ Sink(cf)!Updates(config, p) = {} => o \in {"skipped", "error"}
    BY <1>4, SinkOutcome
  <1> HIDE DEF o
  <1>6. CASE outcome \in {"skipped", "unmatched"}
    BY <1>2, <1>3, <1>5, <1>6 DEF SinkInv, Settled
  <1>7. CASE outcome \in {"inserted", "updated"}
    <2>1. row # Sink(cf)!Absent /\ row \in [cf.Cols -> Cells(cf)]
          /\ \A col \in cf.Cols \cap Sink(cf)!Updates(config, p) :
               Sink(cf)!NewValue(config, p, col, row[col]) = row[col]
      BY <1>2, <1>3, <1>7 DEF SinkInv, Settled
    <2>2. Sink(cf)!Applied(config, p, row) = row
      BY <2>1 DEF Sink!Applied
    <2> QED BY <1>3, <1>5, <2>1, <2>2
  <1>8. outcome # "none"
    BY <1>2 DEF SinkInv, Settled
  <1> QED BY <1>2, <1>6, <1>7, <1>8 DEF SinkInv

(* The entry of a column decides its policy: no column has two. *)
LEMMA EntryPolicy ==
  ASSUME NEW cf, Sink(cf)!ConfigOK(config), NEW i \in 1..Len(config.entries)
  PROVE  /\ Sink(cf)!Policy(config, config.entries[i].name) = config.entries[i].policy
         /\ config.entries[i].name \notin config.expr
  <1>1. \A j \in 1..Len(config.entries) :
          config.entries[j].name = config.entries[i].name => j = i
    BY DEF Sink!ConfigOK, Sink!NormalizeOK
  <1>2. config.entries[i].name \notin config.expr
    BY DEF Sink!ConfigOK, Sink!NormalizeOK
  <1> QED BY <1>1, <1>2 DEF Sink!Policy

(* A statement keeps the values that the policies protect. *)
LEMMA SinkPolicies ==
  ASSUME NEW cf, SinkConfig(cf), SinkInv(cf), Sink(cf)!Next
  PROVE  Sink(cf)!PoliciesKept
  <1>1. PICK p \in Sink(cf)!Payloads : Sink(cf)!Send(p)
    BY DEF Sink!Next
  <1>2. SUFFICES ASSUME NEW i \in 1..Len(config.entries), NEW col \in cf.Cols,
                        col = config.entries[i].name, row # Sink(cf)!Absent,
                        row[col] # Sink(cf)!Null
                 PROVE  /\ config.entries[i].policy = "skip_null" => row'[col] # Sink(cf)!Null
                        /\ config.entries[i].policy = "backfill" => row'[col] = row[col]
    BY DEF Sink!PoliciesKept
  <1> DEFINE o == Sink(cf)!Outcome(config, p)
  <1>3. row' = CASE o = "inserted" -> Sink(cf)!Inserted(config, p)
                 [] o = "updated" -> Sink(cf)!Applied(config, p, row)
                 [] OTHER -> row
    BY <1>1 DEF Sink!Send
  <1>4. config.mode \in {"insert", "upsert", "update"} /\ Sink(cf)!ConfigOK(config)
    BY SinkChecked DEF SinkInv
  <1>5. o # "inserted"
    BY <1>2, <1>4, SinkOutcome
  <1>6. /\ Sink(cf)!Policy(config, col) = config.entries[i].policy
        /\ col \notin config.expr
    BY <1>2, <1>4, EntryPolicy
  <1> HIDE DEF o
  <1>7. CASE o = "updated" /\ col \in Sink(cf)!Updates(config, p)
    <2>1. row'[col] = Sink(cf)!NewValue(config, p, col, row[col])
      BY <1>3, <1>7 DEF Sink!Applied
    <2>2. p[col] # Sink(cf)!Missing /\ col \notin Sink(cf)!Skipped(config, p)
          /\ col \in Sink(cf)!Candidates(config, p)
      BY <1>6, <1>7 DEF Sink!Updates, Sink!Candidates
    <2>3. config.entries[i].policy = "skip_null" => p[col] # Sink(cf)!Null
      BY <1>6, <2>2 DEF Sink!Skipped
    <2> QED BY <1>2, <1>6, <2>1, <2>2, <2>3, CoercedCell DEF Sink!NewValue
  <1>8. CASE ~(o = "updated" /\ col \in Sink(cf)!Updates(config, p))
    <2>1. row'[col] = row[col]
      BY <1>3, <1>5, <1>8 DEF Sink!Applied
    <2> QED BY <1>2, <2>1
  <1> QED BY <1>7, <1>8

(* What the invariant says of the row. *)
LEMMA SinkSafe ==
  ASSUME NEW cf, SinkInv(cf)
  PROVE  Sink(cf)!TypeOK /\ Sink(cf)!JsonStored
  BY SinkChecked DEF SinkInv, Sink!TypeOK, Cells

(* A sink may be sent the same payload twice, keeps what skip_null and backfill *)
(* protect, and stores documents in JSON columns only: for any columns, values, *)
(* entries of update_columns and number of statements. *)
THEOREM SinkKeepsItsPolicies ==
  ASSUME NEW cf, SinkConfig(cf)
  PROVE  Sink(cf)!Spec => /\ [](Sink(cf)!TypeOK /\ Sink(cf)!JsonStored)
                          /\ [][Sink(cf)!ReplaySafe /\ Sink(cf)!PoliciesKept]_(Sink(cf)!vars)
  <1>1. Sink(cf)!Init => SinkInv(cf)
    BY SinkInit
  <1>2. SinkInv(cf) /\ [Sink(cf)!Next]_(Sink(cf)!vars) => SinkInv(cf)'
    BY SinkStep
  <1>3. SinkInv(cf) => Sink(cf)!TypeOK /\ Sink(cf)!JsonStored
    BY SinkSafe
  <1>4. SinkInv(cf) /\ [Sink(cf)!Next]_(Sink(cf)!vars)
          => [Sink(cf)!ReplaySafe /\ Sink(cf)!PoliciesKept]_(Sink(cf)!vars)
    BY SinkReplay, SinkPolicies
  <1> QED BY <1>1, <1>2, <1>3, <1>4, PTL DEF Sink!Spec

--------------------------------------------------------------------------------
(* The binlog source *)

(* Ends counts rows: it does not fall. *)
BinlogConfig(cf) ==
  /\ cf.Ends \in Seq(Nat) /\ cf.Limit \in Nat
  /\ \A i, j \in 1..Len(cf.Ends) : i <= j => cf.Ends[i] <= cf.Ends[j]

(* r is one of the first k elements of s. *)
Among(r, s, k) == \E i \in 1..k : s[i] = r

(* The rows of the log, the queues that hold some of them, and what a process that *)
(* has not read its position, or is saving one, knows. *)
BinlogTyped(cf) ==
  /\ log \in 0..Len(cf.Ends) /\ saved \in -1..log /\ committed \in -1..log
  /\ stream \in 0..log + 1 /\ saving \in 0..log /\ loaded \in BOOLEAN
  /\ pending \in Seq(1..Binlog(cf)!Through(log)) /\ buffered \in Seq(1..Binlog(cf)!Through(log))
  /\ acked \subseteq done /\ done \subseteq Binlog(cf)!AllRows
  /\ hand \in [Binlog(cf)!AllRows -> Nat]
  /\ loaded => committed >= 0 /\ saved >= 0
  /\ ~loaded => pending = <<>> /\ buffered = <<>> /\ stream = 0 /\ saving = 0
  /\ saving # 0 => loaded /\ saving = committed

(* Rows that are handled, or that a cancelled fetch has swallowed. *)
Gone == done \cup missed

(* No other row after position b is skipped: those up to the positions that are saved *)
(* or committed are gone, and those before a queued row are gone or queued before it, *)
(* the stream's next event following the queue. *)
NoGap(cf, b) ==
  /\ b \in 0..saved /\ (loaded => b <= committed) /\ (stream # 0 => b < stream)
  /\ \A i \in 1..Len(pending) : Binlog(cf)!Through(b) < pending[i]
  /\ \A i \in 1..Len(buffered) : Binlog(cf)!Through(b) < buffered[i]
  /\ \A r \in Binlog(cf)!AllRows : Binlog(cf)!Through(b) < r =>
       /\ r <= Binlog(cf)!Through(saved) => r \in Gone
       /\ loaded /\ r <= Binlog(cf)!Through(committed) => r \in Gone
       /\ \A k \in 1..Len(pending) : r <= pending[k] => r \in Gone \/ Among(r, pending, k)
       /\ \A k \in 1..Len(buffered) : r <= buffered[k] =>
            r \in Gone \/ Among(r, pending, Len(pending)) \/ Among(r, buffered, k)
       /\ stream # 0 /\ r <= Binlog(cf)!Through(stream - 1) =>
            \/ r \in Gone \/ Among(r, pending, Len(pending))
            \/ Among(r, buffered, Len(buffered))

(* While the source stays open its queues rise from the committed position to the *)
(* stream's, and the saved position follows the committed one. *)
InLogOrder(cf) ==
  /\ \A i, j \in 1..Len(pending) : i < j => pending[i] < pending[j]
  /\ \A i, j \in 1..Len(buffered) : i < j => buffered[i] < buffered[j]
  /\ \A i \in 1..Len(pending), j \in 1..Len(buffered) : pending[i] < buffered[j]
  /\ stream = 0 => pending = <<>> /\ buffered = <<>>
  /\ loaded => /\ saved <= committed
               /\ \A i \in 1..Len(pending) : Binlog(cf)!Through(committed) < pending[i]
               /\ \A i \in 1..Len(buffered) : Binlog(cf)!Through(committed) < buffered[i]
  /\ stream # 0 =>
       /\ Binlog(cf)!Through(committed) <= Binlog(cf)!Through(stream - 1)
       /\ \A i \in 1..Len(pending) : pending[i] <= Binlog(cf)!Through(stream - 1)
       /\ \A i \in 1..Len(buffered) : buffered[i] <= Binlog(cf)!Through(stream - 1)

(* The inductive invariant; a source that is closed and opened again may queue a *)
(* row twice and move its position back, but it skips none. *)
BinlogInv(cf) ==
  /\ BinlogTyped(cf)
  /\ saved # -1 => \E b \in Nat : NoGap(cf, b)
  /\ ~cf.Reopens => InLogOrder(cf)

(* Later events end later. *)
LEMMA ThroughGrows ==
  ASSUME NEW cf, BinlogConfig(cf)
  PROVE  /\ \A e \in Int : Binlog(cf)!Through(e) \in Nat
         /\ Binlog(cf)!Through(0) = 0
         /\ \A d, e \in Int : d <= e /\ e <= Len(cf.Ends) =>
              Binlog(cf)!Through(d) <= Binlog(cf)!Through(e)
  <1>1. DOMAIN cf.Ends = 1..Len(cf.Ends) /\ Len(cf.Ends) \in Nat
    BY DEF BinlogConfig
  <1>2. \A e \in Int : Binlog(cf)!Through(e) = IF e \in 1..Len(cf.Ends) THEN cf.Ends[e] ELSE 0
    BY <1>1 DEF Binlog!Through
  <1>3. \A e \in 1..Len(cf.Ends) : cf.Ends[e] \in Nat
    BY DEF BinlogConfig
  <1>4. \A e \in Int : Binlog(cf)!Through(e) \in Nat
    BY ONLY <1>2, <1>3
  <1>5. Binlog(cf)!Through(0) = 0
    <2>1. 0 \notin 1..Len(cf.Ends)
      BY <1>1
    <2> QED BY ONLY <1>2, <2>1
  <1>6. ASSUME NEW d \in Int, NEW e \in Int, d <= e, e <= Len(cf.Ends)
        PROVE  Binlog(cf)!Through(d) <= Binlog(cf)!Through(e)
    <2>1. CASE d \in 1..Len(cf.Ends)
      <3>1. e \in 1..Len(cf.Ends)
        BY <1>1, <1>6, <2>1
      <3>2. cf.Ends[d] <= cf.Ends[e]
        BY <1>6, <2>1, <3>1 DEF BinlogConfig
      <3> QED BY ONLY <1>2, <2>1, <3>1, <3>2, d \in Int, e \in Int
    <2>2. CASE d \notin 1..Len(cf.Ends)
      <3>1. Binlog(cf)!Through(d) = 0 /\ Binlog(cf)!Through(e) \in Nat
        BY ONLY <1>2, <1>4, <2>2, d \in Int, e \in Int
      <3> QED BY ONLY <3>1
    <2> QED BY ONLY <2>1, <2>2
  <1> QED BY ONLY <1>4, <1>5, <1>6

(* A set of natural numbers has a smallest element. *)
LEMMA SmallestNumber ==
  ASSUME NEW S \in SUBSET Nat, S # {}
  PROVE  \E x \in S : \A y \in S : x <= y
  <1>1. PICK x \in S : \A y \in S : ~(<<y, x>> \in OpToRel(<, Nat))
    BY WFMin, NatLessThanWellFounded
  <1>2. \A y \in S : ~(y < x)
    BY <1>1 DEF OpToRel
  <1> QED BY <1>2

(* A row has an event, and the events of the log's rows are in the log. *)
LEMMA EventOfRow ==
  ASSUME NEW cf, BinlogConfig(cf), NEW t \in Binlog(cf)!AllRows
  PROVE  /\ Binlog(cf)!EventOf(t) \in 1..Len(cf.Ends)
         /\ Binlog(cf)!Through(Binlog(cf)!EventOf(t) - 1) < t
         /\ t <= Binlog(cf)!Through(Binlog(cf)!EventOf(t))
         /\ \A e \in 0..Len(cf.Ends) :
              t <= Binlog(cf)!Through(e) => Binlog(cf)!EventOf(t) <= e
  <1> DEFINE E == {e \in 1..Len(cf.Ends) : t <= Binlog(cf)!Through(e)}
  <1>0. Len(cf.Ends) \in Nat /\ DOMAIN cf.Ends = 1..Len(cf.Ends)
    BY DEF BinlogConfig
  <1>1. t \in Nat /\ 0 < t /\ t <= Binlog(cf)!Through(Len(cf.Ends))
    BY <1>0, ThroughGrows DEF Binlog!AllRows
  <1>2. Len(cf.Ends) \in E /\ E \in SUBSET Nat
    <2>1. Len(cf.Ends) # 0
      BY <1>1, ThroughGrows
    <2> QED BY <1>0, <1>1, <2>1
  <1>3. PICK e \in E : \A f \in E : e <= f
    BY <1>2, SmallestNumber
  <1>4. Binlog(cf)!Through(e - 1) < t
    <2>1. CASE e = 1
      BY <1>1, <2>1, ThroughGrows
    <2>2. CASE e # 1
      <3>1. e - 1 \in 1..Len(cf.Ends) /\ e - 1 \notin E
        BY <1>0, <1>3, <2>2
      <3> QED BY <1>1, <3>1, ThroughGrows
    <2> QED BY <2>1, <2>2
  <1>5. \E d \in DOMAIN cf.Ends : Binlog(cf)!Through(d - 1) < t /\ t <= Binlog(cf)!Through(d)
    BY <1>0, <1>3, <1>4
  <1> DEFINE d == Binlog(cf)!EventOf(t)
  <1>6. d \in 1..Len(cf.Ends) /\ Binlog(cf)!Through(d - 1) < t /\ t <= Binlog(cf)!Through(d)
    BY <1>0, <1>5 DEF Binlog!EventOf
  <1> HIDE DEF d
  <1>7. ASSUME NEW f \in 0..Len(cf.Ends), t <= Binlog(cf)!Through(f)
        PROVE  d <= f
    <2>1. CASE f <= d - 1
      <3>1. Binlog(cf)!Through(f) <= Binlog(cf)!Through(d - 1)
        BY <1>0, <1>6, <2>1, ThroughGrows
      <3>2. Binlog(cf)!Through(f) \in Nat /\ Binlog(cf)!Through(d - 1) \in Nat
        BY <1>0, <1>6, ThroughGrows
      <3> QED BY <1>1, <1>6, <1>7, <3>1, <3>2
    <2> QED BY <1>0, <1>6, <2>1
  <1> QED BY <1>6, <1>7 DEF d

(* The source starts with its invariant. *)
LEMMA BinlogInit ==
  ASSUME NEW cf, BinlogConfig(cf), Binlog(cf)!Init
  PROVE  BinlogInv(cf)
  <1>1. Len(cf.Ends) \in Nat
    BY DEF BinlogConfig
  <1>2. BinlogTyped(cf)
    <2>1. ~loaded /\ loaded \in BOOLEAN
      BY DEF Binlog!Init
    <2>2. hand \in [Binlog(cf)!AllRows -> Nat] /\ done = {} /\ acked = {}
      BY DEF Binlog!Init
    <2>3. log = 0 /\ saved = -1 /\ committed = -1 /\ stream = 0 /\ saving = 0
          /\ pending = <<>> /\ buffered = <<>>
      BY DEF Binlog!Init
    <2> QED BY <1>1, <2>1, <2>2, <2>3 DEF BinlogTyped
  <1> QED BY <1>1, <1>2 DEF Binlog!Init, BinlogInv, InLogOrder

(* What a step keeps: from it follows the invariant after the step, and that the step *)
(* skips no row. *)
BinlogKept(cf) ==
  /\ BinlogTyped(cf)'
  /\ saved # -1 => \/ saved' = saved /\ \E b \in Nat : NoGap(cf, b)'
                  \/ \A b \in Nat : NoGap(cf, b) => NoGap(cf, b)'
  /\ ~cf.Reopens => InLogOrder(cf)'

(* The part of a sequence after its first m elements, up to the n-th. *)
LEMMA Slice ==
  ASSUME NEW S, NEW s \in Seq(S), NEW n \in 0..Len(s), NEW m \in 0..n
  PROVE  /\ SubSeq(s, m + 1, n) \in Seq(S) /\ Len(SubSeq(s, m + 1, n)) = n - m
         /\ \A i \in 1..n - m : SubSeq(s, m + 1, n)[i] = s[m + i]
  <1>1. m + 1 \in Int /\ n \in Int /\ \A i \in m + 1..n : s[i] \in S
    BY ElementOfSeq
  <1>2. /\ SubSeq(s, m + 1, n) \in Seq(S)
        /\ Len(SubSeq(s, m + 1, n)) = IF m + 1 <= n THEN n - (m + 1) + 1 ELSE 0
        /\ \A i \in 1..n - (m + 1) + 1 : SubSeq(s, m + 1, n)[i] = s[m + 1 + i - 1]
    BY ONLY <1>1, SubSeqProperties
  <1>3. ASSUME NEW i \in 1..n - m
        PROVE  i \in 1..n - (m + 1) + 1 /\ m + 1 + i - 1 = m + i
    OBVIOUS
  <1> QED BY <1>2, <1>3

(* MySQL writes an event. *)
LEMMA BinlogWrite ==
  ASSUME NEW cf, BinlogConfig(cf), BinlogInv(cf), Binlog(cf)!Write
  PROVE  BinlogKept(cf)
  <1>1. /\ log' = log + 1 /\ log < Len(cf.Ends) /\ UNCHANGED <<saved, loaded, committed, stream>>
        /\ UNCHANGED <<buffered, pending, acked, saving, hand, done, missed>>
    BY DEF Binlog!Write, Binlog!src, Binlog!hist
  <1>2. log \in Nat /\ Len(cf.Ends) \in Nat
    BY DEF BinlogInv, BinlogTyped, BinlogConfig
  <1>3. /\ Binlog(cf)!Through(log) \in Nat /\ Binlog(cf)!Through(log') \in Nat
        /\ Binlog(cf)!Through(log) <= Binlog(cf)!Through(log')
    BY <1>1, <1>2, ThroughGrows
  <1>4. 1..Binlog(cf)!Through(log) \subseteq 1..Binlog(cf)!Through(log')
    BY <1>3
  <1>5. pending' \in Seq(1..Binlog(cf)!Through(log')) /\ buffered' \in Seq(1..Binlog(cf)!Through(log'))
    <2>1. /\ pending' \in Seq(1..Binlog(cf)!Through(log))
          /\ buffered' \in Seq(1..Binlog(cf)!Through(log))
      BY <1>1 DEF BinlogInv, BinlogTyped
    <2> QED BY ONLY <1>4, <2>1, SeqMonotonic
  <1>6. BinlogTyped(cf)'
    BY <1>1, <1>2, <1>5 DEF BinlogInv, BinlogTyped
  <1> QED BY <1>1, <1>6 DEF BinlogInv, BinlogKept, NoGap, Gone, InLogOrder

(* A process reads its position. *)
LEMMA BinlogOpen ==
  ASSUME NEW cf, BinlogConfig(cf), BinlogInv(cf), Binlog(cf)!Open
  PROVE  BinlogKept(cf) /\ (saved = -1 => \E b \in Nat : NoGap(cf, b)')
  <1>1. /\ ~loaded /\ loaded' /\ loaded' \in BOOLEAN /\ saved' = committed'
        /\ committed' = (IF saved = -1 THEN log ELSE saved)
        /\ UNCHANGED <<log, stream, buffered, pending, acked, saving, hand, done, missed>>
    BY DEF Binlog!Open, Binlog!hist
  <1>2. pending = <<>> /\ buffered = <<>> /\ stream = 0 /\ saving = 0
    BY <1>1 DEF BinlogInv, BinlogTyped
  <1>3. log \in Nat /\ saved \in -1..log /\ committed' \in 0..log
    BY <1>1 DEF BinlogInv, BinlogTyped
  <1>4. BinlogTyped(cf)'
    BY <1>1, <1>2, <1>3 DEF BinlogInv, BinlogTyped
  <1>5. InLogOrder(cf)'
    BY <1>1, <1>2, <1>3 DEF InLogOrder
  <1>6. saved # -1 => \A b \in Nat : NoGap(cf, b) => NoGap(cf, b)'
    BY <1>1, <1>2, <1>3 DEF NoGap, Gone
  <1>7. ASSUME NEW b \in Nat, b = committed'
        PROVE  NoGap(cf, b)'
    <2>1. Binlog(cf)!Through(b) \in Nat
      BY <1>3, ThroughGrows
    <2>2. \A r \in Binlog(cf)!AllRows : r \in Int
      BY DEF Binlog!AllRows
    <2>3. \A r \in Binlog(cf)!AllRows : Binlog(cf)!Through(b) < r =>
            ~(r <= Binlog(cf)!Through(b))
      BY <2>1, <2>2
    <2> QED BY <1>1, <1>2, <1>3, <1>7, <2>3 DEF NoGap
  <1> QED BY <1>3, <1>4, <1>5, <1>6, <1>7 DEF BinlogKept

(* A process dies. *)
LEMMA BinlogCrash ==
  ASSUME NEW cf, BinlogConfig(cf), BinlogInv(cf), Binlog(cf)!Crash
  PROVE  BinlogKept(cf)
  <1>1. /\ ~loaded' /\ loaded' \in BOOLEAN /\ committed' = -1 /\ stream' = 0 /\ saving' = 0
        /\ buffered' = <<>> /\ pending' = <<>> /\ acked' = {}
        /\ UNCHANGED <<log, saved, done>>
    BY DEF Binlog!Crash
  <1>2. hand' \in [Binlog(cf)!AllRows -> Nat]
    BY DEF Binlog!Crash
  <1>3. log \in Nat /\ saved \in -1..log
    BY DEF BinlogInv, BinlogTyped
  <1>4. BinlogTyped(cf)'
    BY <1>1, <1>2, <1>3 DEF BinlogInv, BinlogTyped
  <1>5. InLogOrder(cf)'
    BY <1>1 DEF InLogOrder
  <1>6. ASSUME saved # -1
        PROVE  saved \in Nat /\ NoGap(cf, saved)'
    <2>1. Binlog(cf)!Through(saved) \in Nat /\ saved \in Nat
      BY <1>3, <1>6, ThroughGrows
    <2>2. \A r \in Binlog(cf)!AllRows : r \in Int
      BY DEF Binlog!AllRows
    <2>3. \A r \in Binlog(cf)!AllRows : Binlog(cf)!Through(saved) < r =>
            ~(r <= Binlog(cf)!Through(saved))
      BY <2>1, <2>2
    <2> QED BY <1>1, <2>1, <2>3 DEF NoGap
  <1> QED BY <1>1, <1>4, <1>5, <1>6 DEF BinlogKept

(* Saves that work or fail, rows that are dropped, a source that is closed. *)
LEMMA BinlogQuiet ==
  ASSUME NEW cf, BinlogConfig(cf), BinlogInv(cf),
         \/ Binlog(cf)!Save \/ Binlog(cf)!SaveFails \/ Binlog(cf)!Reopen
         \/ \E t \in Binlog(cf)!AllRows : Binlog(cf)!Drop(t)
         \/ UNCHANGED Binlog(cf)!vars
  PROVE  BinlogKept(cf)
  <1>1. CASE Binlog(cf)!Save
    <2>1. /\ saving # 0 /\ saved' = saving /\ saving' = 0
          /\ UNCHANGED <<log, loaded, committed, stream, buffered, pending, acked, hand, done, missed>>
      BY <1>1 DEF Binlog!Save, Binlog!hist
    <2>2. loaded /\ saving = committed /\ committed \in 0..log /\ saved \in 0..log
      BY <2>1 DEF BinlogInv, BinlogTyped
    <2>3. BinlogTyped(cf)'
      BY <2>1, <2>2 DEF BinlogInv, BinlogTyped
    <2>4. \A b \in Nat : NoGap(cf, b) => NoGap(cf, b)'
      BY <2>1, <2>2 DEF NoGap, Gone
    <2>5. InLogOrder(cf) => InLogOrder(cf)'
      BY <2>1, <2>2 DEF InLogOrder
    <2> QED BY <2>3, <2>4, <2>5 DEF BinlogKept, BinlogInv
  <1>2. CASE Binlog(cf)!SaveFails
    <2>1. /\ saving' = 0
          /\ UNCHANGED <<log, saved, loaded, committed, stream, buffered, pending, acked, hand, done, missed>>
      BY <1>2 DEF Binlog!SaveFails, Binlog!hist
    <2> QED BY <2>1 DEF BinlogKept, BinlogInv, BinlogTyped, NoGap, Gone, InLogOrder
  <1>3. CASE Binlog(cf)!Reopen
    <2>1. /\ cf.Reopens /\ stream' = 0
          /\ UNCHANGED <<log, saved, loaded, committed, buffered, pending, acked, saving, hand, done, missed>>
      BY <1>3 DEF Binlog!Reopen, Binlog!hist
    <2> QED BY <2>1 DEF BinlogKept, BinlogInv, BinlogTyped, NoGap, Gone
  <1>4. ASSUME NEW t \in Binlog(cf)!AllRows, Binlog(cf)!Drop(t)
        PROVE  BinlogKept(cf)
    <2>1. /\ UNCHANGED <<log, saved, loaded, committed, stream, buffered, pending, acked, saving, done, missed>>
          /\ hand[t] > 0 /\ hand' = [hand EXCEPT ![t] = @ - 1]
      BY <1>4 DEF Binlog!Drop, Binlog!src
    <2>2. hand' \in [Binlog(cf)!AllRows -> Nat]
      BY <2>1 DEF BinlogInv, BinlogTyped
    <2> QED BY <2>1, <2>2 DEF BinlogKept, BinlogInv, BinlogTyped, NoGap, Gone, InLogOrder
  <1>5. CASE UNCHANGED Binlog(cf)!vars
    <2>1. UNCHANGED <<log, saved, loaded, committed, stream, buffered, pending, acked, saving, done, missed, hand>>
      BY <1>5 DEF Binlog!vars, Binlog!src, Binlog!hist
    <2> QED BY <2>1 DEF BinlogKept, BinlogInv, BinlogTyped, NoGap, Gone, InLogOrder
  <1> QED BY <1>1, <1>2, <1>3, <1>4, <1>5

(* What a fetch reads: the buffered rows, then the rows of the events from the stream. *)
LEMMA BinlogRead ==
  ASSUME NEW cf, BinlogConfig(cf), BinlogTyped(cf), loaded,
         NEW e \in Binlog(cf)!From - 1..log,
         NEW A, A = Binlog(cf)!Through(Binlog(cf)!From - 1),
         NEW Z, Z = Binlog(cf)!Through(e),
         NEW R, R = Binlog(cf)!Read(e)
  PROVE  /\ Binlog(cf)!From - 1 \in 0..log /\ e \in 0..log
         /\ A \in Nat /\ Z \in Nat /\ A <= Z /\ Z <= Binlog(cf)!Through(log)
         /\ Len(R) = Len(buffered) + (Z - A) /\ Len(R) \in Nat
         /\ R \in Seq(1..Binlog(cf)!Through(log))
         /\ \A i \in 1..Len(buffered) : R[i] = buffered[i]
         /\ \A i \in Len(buffered) + 1..Len(R) : R[i] = A + (i - Len(buffered))
  <1>1. /\ log \in Nat /\ stream \in 0..log + 1 /\ committed \in 0..log
        /\ log <= Len(cf.Ends) /\ Len(cf.Ends) \in Nat
    BY DEF BinlogTyped, BinlogConfig
  <1>2. Binlog(cf)!From - 1 \in 0..log /\ e \in 0..log /\ Binlog(cf)!From - 1 <= e
    BY <1>1 DEF Binlog!From
  <1>3. A \in Nat /\ Z \in Nat /\ A <= Z /\ Z <= Binlog(cf)!Through(log)
        /\ Binlog(cf)!Through(log) \in Nat
    BY <1>1, <1>2, ThroughGrows
  <1> DEFINE W == [i \in 1..Z - A |-> A + i]
  <1>4. W \in Seq(1..Binlog(cf)!Through(log)) /\ Len(W) = Z - A
        /\ \A i \in 1..Z - A : W[i] = A + i
    BY <1>3
  <1>5. R = buffered \o W
    BY DEF Binlog!Read, Binlog!RowsBetween
  <1>6. buffered \in Seq(1..Binlog(cf)!Through(log)) /\ Len(buffered) \in Nat
    BY DEF BinlogTyped
  <1> HIDE DEF W
  <1>7. /\ R \in Seq(1..Binlog(cf)!Through(log)) /\ Len(R) = Len(buffered) + Len(W)
        /\ \A i \in 1..Len(buffered) + Len(W) :
             R[i] = IF i <= Len(buffered) THEN buffered[i] ELSE W[i - Len(buffered)]
    BY ONLY <1>4, <1>5, <1>6, ConcatProperties
  <1>8. Len(R) = Len(buffered) + (Z - A)
    BY ONLY <1>4, <1>7
  <1>9. \A i \in 1..Len(R) : R[i] = IF i <= Len(buffered) THEN buffered[i] ELSE W[i - Len(buffered)]
    BY ONLY <1>7
  <1>10. \A i \in 1..Len(buffered) : R[i] = buffered[i]
    BY ONLY <1>3, <1>6, <1>8, <1>9
  <1>11. \A i \in Len(buffered) + 1..Len(R) : R[i] = A + (i - Len(buffered))
    BY ONLY <1>3, <1>4, <1>6, <1>8, <1>9
  <1>12. Len(R) \in Nat
    BY ONLY <1>3, <1>6, <1>8
  <1> QED BY ONLY <1>2, <1>3, <1>7, <1>8, <1>10, <1>11, <1>12

(* A fetch takes n rows, and leaves the others in the buffer: those it takes join the *)
(* queue, unless it is cancelled. *)
Fetched(cf, e, n, m) ==
  /\ stream' = e + 1
  /\ buffered' = SubSeq(Binlog(cf)!Read(e), n + 1, Len(Binlog(cf)!Read(e)))
  /\ pending' = pending \o SubSeq(Binlog(cf)!Read(e), 1, m)
  /\ missed \subseteq missed' /\ \A i \in m + 1..n : Binlog(cf)!Read(e)[i] \in missed'

LEMMA BinlogFetched ==
  ASSUME NEW cf, BinlogConfig(cf), BinlogInv(cf),
         Binlog(cf)!Fetch \/ Binlog(cf)!FetchDropped \/ Binlog(cf)!FetchCancelled
  PROVE  /\ loaded /\ UNCHANGED <<log, saved, loaded, committed, acked, saving, done>>
         /\ hand' \in [Binlog(cf)!AllRows -> Nat]
         /\ \E e \in Binlog(cf)!From - 1..log : \E n \in 0..Len(Binlog(cf)!Read(e)) :
              \E m \in 0..n : Fetched(cf, e, n, m)
  <1>1. loaded /\ UNCHANGED <<log, saved, loaded, committed, acked, saving, done>>
    BY DEF Binlog!Fetch, Binlog!FetchDropped, Binlog!FetchCancelled, Binlog!hist
  <1>2. BinlogTyped(cf)
    BY DEF BinlogInv
  <1> DEFINE n(e) == IF Len(Binlog(cf)!Read(e)) < cf.Limit THEN Len(Binlog(cf)!Read(e)) ELSE cf.Limit
             out(e) == SubSeq(Binlog(cf)!Read(e), 1, n(e))
             takes(e) == /\ stream' = e + 1
                         /\ buffered' = SubSeq(Binlog(cf)!Read(e), n(e) + 1, Len(Binlog(cf)!Read(e)))
  <1>4. \A e \in Binlog(cf)!From - 1..log : Len(Binlog(cf)!Read(e)) \in Nat
          /\ Binlog(cf)!Read(e) \in Seq(1..Binlog(cf)!Through(log))
    BY <1>1, <1>2, BinlogRead
  <1>5. \A e \in Binlog(cf)!From - 1..log :
          n(e) \in 0..Len(Binlog(cf)!Read(e)) /\ n(e) \in 0..n(e) /\ 0 \in 0..n(e)
    BY <1>4 DEF BinlogConfig
  <1>6. ASSUME NEW e \in Binlog(cf)!From - 1..log, takes(e),
               pending' = pending \o out(e), missed' = missed
        PROVE  \E k \in 0..Len(Binlog(cf)!Read(e)) : \E m \in 0..k : Fetched(cf, e, k, m)
    <2>1. n(e) \in 0..Len(Binlog(cf)!Read(e)) /\ n(e) \in 0..n(e) /\ n(e) \in Nat
      BY <1>4, <1>5
    <2> DEFINE k == n(e)
    <2>2. /\ stream' = e + 1
          /\ buffered' = SubSeq(Binlog(cf)!Read(e), k + 1, Len(Binlog(cf)!Read(e)))
          /\ pending' = pending \o SubSeq(Binlog(cf)!Read(e), 1, k)
      BY <1>6
    <2> HIDE DEF k, takes, out
    <2>3. \A i \in k + 1..k : FALSE
      BY <2>1 DEF k
    <2>4. Fetched(cf, e, k, k)
      BY <1>6, <2>2, <2>3 DEF Fetched
    <2> QED BY <2>1, <2>4 DEF k
  <1>7. CASE Binlog(cf)!Fetch
    <2>1. PICK e \in Binlog(cf)!From - 1..log :
            /\ takes(e) /\ pending' = pending \o out(e)
            /\ hand' = [t \in Binlog(cf)!AllRows |->
                          hand[t] + Binlog(cf)!Cardinality({i \in 1..n(e) : out(e)[i] = t})]
      BY <1>7 DEF Binlog!Fetch, Binlog!Takes, Binlog!Given, Binlog!Out
    <2> DEFINE copies(t) == {i \in 1..n(e) : out(e)[i] = t}
    <2>2. \A t : Binlog(cf)!Cardinality(copies(t)) \in Nat
      <3> SUFFICES ASSUME NEW t
                   PROVE  Binlog(cf)!Cardinality(copies(t)) \in Nat
        OBVIOUS
      <3>1. IsFiniteSet(1..n(e))
        <4>1. n(e) \in Nat
          BY <1>4, <1>5
        <4> QED BY <4>1, FS_Interval
      <3>2. copies(t) \subseteq 1..n(e)
        OBVIOUS
      <3> HIDE DEF copies
      <3>3. IsFiniteSet(copies(t))
        BY ONLY <3>1, <3>2, FS_Subset
      <3>4. Cardinality(copies(t)) \in Nat
        BY ONLY <3>3, FS_CardinalityType
      <3>5. \A S : Binlog(cf)!Cardinality(S) = Cardinality(S)
        BY DEF Binlog!Cardinality, Cardinality
      <3> QED BY ONLY <3>4, <3>5
    <2>3. hand' \in [Binlog(cf)!AllRows -> Nat]
      <3>1. hand' = [t \in Binlog(cf)!AllRows |-> hand[t] + Binlog(cf)!Cardinality(copies(t))]
        BY <2>1
      <3>2. hand \in [Binlog(cf)!AllRows -> Nat]
        BY <1>2 DEF BinlogTyped
      <3> HIDE DEF copies
      <3> QED BY ONLY <2>2, <3>1, <3>2
    <2>4. missed' = missed
      BY <1>7 DEF Binlog!Fetch, Binlog!hist
    <2> HIDE DEF n, out, takes
    <2> QED BY <1>1, <1>6, <2>1, <2>3, <2>4
  <1>8. hand \in [Binlog(cf)!AllRows -> Nat]
    BY <1>2 DEF BinlogTyped
  <1>9. CASE Binlog(cf)!FetchDropped
    <2>1. PICK e \in Binlog(cf)!From - 1..log : takes(e) /\ pending' = pending \o out(e)
      BY <1>9 DEF Binlog!FetchDropped, Binlog!Takes, Binlog!Given, Binlog!Out
    <2>2. missed' = missed /\ hand' = hand
      BY <1>9 DEF Binlog!FetchDropped
    <2> HIDE DEF n, out, takes
    <2> QED BY <1>1, <1>6, <1>8, <2>1, <2>2
  <1>10. CASE Binlog(cf)!FetchCancelled
    <2>1. PICK e \in Binlog(cf)!From - 1..log :
            takes(e) /\ missed' = missed \cup Binlog(cf)!Range(out(e))
      BY <1>10 DEF Binlog!FetchCancelled, Binlog!Takes, Binlog!Given, Binlog!Out
    <2>2. pending' = pending /\ hand' = hand
      BY <1>10 DEF Binlog!FetchCancelled
    <2> DEFINE k == n(e)
               R == Binlog(cf)!Read(e)
               T == 1..Binlog(cf)!Through(log)
    <2>3. k \in 0..Len(R) /\ 0 \in 0..k /\ R \in Seq(T) /\ 0 \in 0..Len(R) /\ 0 \in 0..0
      BY <1>4, <1>5
    <2>4. /\ stream' = e + 1 /\ buffered' = SubSeq(R, k + 1, Len(R))
          /\ missed' = missed \cup Binlog(cf)!Range(SubSeq(R, 0 + 1, k))
      BY <2>1
    <2>5. pending \in Seq(T)
      BY <1>2 DEF BinlogTyped
    <2> HIDE DEF n, out, takes, k, R, T
    <2>6. /\ SubSeq(R, 0 + 1, k) \in Seq(T) /\ Len(SubSeq(R, 0 + 1, k)) = k - 0
          /\ \A i \in 1..k - 0 : SubSeq(R, 0 + 1, k)[i] = R[0 + i]
      BY ONLY <2>3, Slice
    <2>7. SubSeq(R, 0 + 1, 0) \in Seq(T) /\ Len(SubSeq(R, 0 + 1, 0)) = 0 - 0
      BY ONLY <2>3, Slice
    <2>8. SubSeq(R, 1, 0) = <<>>
      BY <2>7, EmptySeq
    <2>9. pending' = pending \o SubSeq(R, 1, 0)
      BY <2>2, <2>5, <2>8, ConcatEmptySeq
    <2>10. ASSUME NEW i \in 0 + 1..k
           PROVE  R[i] \in missed'
      <3> DEFINE s == SubSeq(R, 0 + 1, k)
      <3>1. k \in Nat /\ i \in 1..k /\ 0 + i = i /\ k - 0 = k
        BY <2>3
      <3>2. s \in Seq(T) /\ Len(s) = k /\ s[i] = R[i]
        BY <2>6, <3>1
      <3> HIDE DEF s
      <3>3. i \in DOMAIN s
        BY <3>1, <3>2
      <3>4. s[i] \in Binlog(cf)!Range(s)
        BY <3>3 DEF Binlog!Range
      <3> QED BY <2>4, <3>2, <3>4 DEF s
    <2>11. Fetched(cf, e, k, 0)
      BY <2>4, <2>9, <2>10 DEF Fetched, R
    <2> QED BY <1>1, <1>8, <2>2, <2>3, <2>11 DEF R
  <1> QED BY <1>7, <1>9, <1>10

(* The queue and the buffer after a fetch that takes n rows and queues m, row by row. *)
LEMMA BinlogQueues ==
  ASSUME NEW T, pending \in Seq(T), NEW R \in Seq(T), NEW n \in 0..Len(R), NEW m \in 0..n,
         buffered' = SubSeq(R, n + 1, Len(R)), pending' = pending \o SubSeq(R, 1, m)
  PROVE  /\ buffered' \in Seq(T) /\ Len(buffered') = Len(R) - n
         /\ \A i \in 1..Len(buffered') : buffered'[i] = R[n + i]
         /\ pending' \in Seq(T) /\ Len(pending') = Len(pending) + m
         /\ \A i \in 1..Len(pending) : pending'[i] = pending[i]
         /\ \A i \in 1..m : pending'[Len(pending) + i] = R[i]
  <1>1. Len(R) \in 0..Len(R) /\ m \in Nat /\ m \in 0..Len(R) /\ 0 \in 0..m /\ 0 + 1 = 1 /\ m - 0 = m
        /\ \A i \in 1..m : 0 + i = i
    OBVIOUS
  <1>2. pending \in Seq(T) /\ Len(pending) \in Nat
    OBVIOUS
  <1>3. /\ buffered' \in Seq(T) /\ Len(buffered') = Len(R) - n
        /\ \A i \in 1..Len(R) - n : buffered'[i] = R[n + i]
    <2>1. /\ SubSeq(R, n + 1, Len(R)) \in Seq(T) /\ Len(SubSeq(R, n + 1, Len(R))) = Len(R) - n
          /\ \A i \in 1..Len(R) - n : SubSeq(R, n + 1, Len(R))[i] = R[n + i]
      BY ONLY <1>1, R \in Seq(T), n \in 0..Len(R), Slice
    <2> QED BY <2>1
  <1> DEFINE out == SubSeq(R, 1, m)
  <1>4. out \in Seq(T) /\ Len(out) = m /\ \A i \in 1..m : out[i] = R[i]
    <2>1. /\ SubSeq(R, 0 + 1, m) \in Seq(T) /\ Len(SubSeq(R, 0 + 1, m)) = m - 0
          /\ \A i \in 1..m - 0 : SubSeq(R, 0 + 1, m)[i] = R[0 + i]
      BY <1>1, Slice
    <2> QED BY <1>1, <2>1
  <1>5. pending' = pending \o out
    OBVIOUS
  <1> HIDE DEF out
  <1>6. /\ pending' \in Seq(T) /\ Len(pending') = Len(pending) + Len(out)
        /\ \A i \in 1..Len(pending) + Len(out) :
             pending'[i] = IF i <= Len(pending) THEN pending[i] ELSE out[i - Len(pending)]
    BY ONLY <1>2, <1>4, <1>5, ConcatProperties
  <1>7. \A i \in 1..Len(pending) : pending'[i] = pending[i]
    BY ONLY <1>1, <1>2, <1>4, <1>6
  <1>8. \A i \in 1..m : pending'[Len(pending) + i] = R[i]
    BY ONLY <1>1, <1>2, <1>4, <1>6
  <1> QED BY ONLY <1>3, <1>4, <1>6, <1>7, <1>8

(* A fetch loses no row between the queue, the buffer and the stream, but those it misses. *)
LEMMA BinlogFetch ==
  ASSUME NEW cf, BinlogConfig(cf), BinlogInv(cf),
         Binlog(cf)!Fetch \/ Binlog(cf)!FetchDropped \/ Binlog(cf)!FetchCancelled
  PROVE  BinlogKept(cf)
  <1>1. /\ loaded /\ UNCHANGED <<log, saved, loaded, committed, acked, saving, done>>
        /\ hand' \in [Binlog(cf)!AllRows -> Nat]
    BY BinlogFetched
  <1>2. BinlogTyped(cf)
    BY DEF BinlogInv
  <1>3. PICK e \in Binlog(cf)!From - 1..log : \E n \in 0..Len(Binlog(cf)!Read(e)) :
          \E m \in 0..n : Fetched(cf, e, n, m)
    BY BinlogFetched
  <1> DEFINE R == Binlog(cf)!Read(e)
             A == Binlog(cf)!Through(Binlog(cf)!From - 1)
             Z == Binlog(cf)!Through(e)
             T == 1..Binlog(cf)!Through(log)
             P == Len(pending)
             L == Len(buffered)
             From == Binlog(cf)!From
  <1>4a. PICK n \in 0..Len(R) : \E m \in 0..n : Fetched(cf, e, n, m)
    BY <1>3
  <1>4b. PICK m \in 0..n : Fetched(cf, e, n, m)
    BY <1>4a
  <1>4. /\ stream' = e + 1
        /\ buffered' = SubSeq(R, n + 1, Len(R))
        /\ pending' = pending \o SubSeq(R, 1, m)
        /\ missed \subseteq missed' /\ \A i \in m + 1..n : R[i] \in missed'
    BY <1>4b DEF Fetched
  <1>5. /\ From - 1 \in 0..log /\ e \in 0..log
        /\ A \in Nat /\ Z \in Nat /\ A <= Z
        /\ Len(R) = L + (Z - A) /\ Len(R) \in Nat /\ R \in Seq(T)
        /\ \A i \in 1..L : R[i] = buffered[i]
        /\ \A i \in L + 1..Len(R) : R[i] = A + (i - L)
    BY <1>1, <1>2, BinlogRead
  <1>6. /\ buffered' \in Seq(T) /\ Len(buffered') = Len(R) - n
        /\ \A i \in 1..Len(buffered') : buffered'[i] = R[n + i]
        /\ pending' \in Seq(T) /\ Len(pending') = P + m
        /\ \A i \in 1..P : pending'[i] = pending[i]
        /\ \A i \in 1..m : pending'[P + i] = R[i]
    <2>1. pending \in Seq(T)
      BY <1>2 DEF BinlogTyped
    <2>2. R \in Seq(T) /\ n \in 0..Len(R) /\ m \in 0..n
      BY <1>5
    <2>3. buffered' = SubSeq(R, n + 1, Len(R)) /\ pending' = pending \o SubSeq(R, 1, m)
      BY <1>4
    <2> HIDE DEF R, T
    <2> QED BY ONLY <2>1, <2>2, <2>3, BinlogQueues DEF P
  <1>7. /\ log \in Nat /\ log <= Len(cf.Ends) /\ Len(cf.Ends) \in Nat
        /\ committed \in 0..log /\ stream \in 0..log + 1 /\ saved \in 0..log
    BY <1>1, <1>2 DEF BinlogTyped, BinlogConfig
  <1>7a. P \in Nat /\ L \in Nat /\ n \in Nat /\ m \in Nat /\ m <= n
    <2> HIDE DEF R, A, Z, T
    <2> QED BY <1>2, <1>5 DEF BinlogTyped
  <1>7b. (\A i \in 1..P : pending[i] \in Nat) /\ \A i \in 1..L : buffered[i] \in Nat
    <2>1. \A x \in T : x \in Nat
      OBVIOUS
    <2>2. pending \in Seq(T) /\ buffered \in Seq(T)
      BY <1>2 DEF BinlogTyped
    <2> HIDE DEF T
    <2> QED BY <2>1, <2>2, ElementOfSeq
  <1>8. /\ From - 1 = (IF stream = 0 THEN committed ELSE stream - 1) /\ From - 1 <= e
        /\ (stream = 0 => A = Binlog(cf)!Through(committed))
        /\ (stream # 0 => A = Binlog(cf)!Through(stream - 1))
    BY <1>5, <1>7 DEF Binlog!From
  <1>9. stream' = e + 1 /\ stream' # 0 /\ stream' - 1 = e
    BY <1>4, <1>5, <1>7
  <1> HIDE DEF R, A, Z, T, P, L, From
  <1>10. ASSUME NEW i \in 1..Len(R)
         PROVE  R[i] \in Nat /\ (i <= L => R[i] = buffered[i]) /\ (i > L => R[i] = A + (i - L))
    BY <1>5, <1>7a, <1>7b
  <1>11. BinlogTyped(cf)'
    <2>1. /\ log' \in 0..Len(cf.Ends) /\ saved' \in -1..log' /\ committed' \in -1..log'
          /\ stream' \in 0..log' + 1 /\ saving' \in 0..log' /\ loaded' \in BOOLEAN
      BY <1>1, <1>2, <1>5, <1>7a, <1>7b, <1>7, <1>9 DEF BinlogTyped
    <2>2. pending' \in Seq(1..Binlog(cf)!Through(log')) /\ buffered' \in Seq(1..Binlog(cf)!Through(log'))
      BY <1>1, <1>6 DEF T
    <2>3. acked' \subseteq done' /\ done' \subseteq Binlog(cf)!AllRows
      BY <1>1, <1>2 DEF BinlogTyped
    <2>4. /\ loaded' => committed' >= 0 /\ saved' >= 0
          /\ ~loaded' => pending' = <<>> /\ buffered' = <<>> /\ stream' = 0 /\ saving' = 0
          /\ saving' # 0 => loaded' /\ saving' = committed'
      BY <1>1, <1>2 DEF BinlogTyped
    <2> QED BY <1>1, <2>1, <2>2, <2>3, <2>4 DEF BinlogTyped
  <1>12. ASSUME NEW b \in Nat, NoGap(cf, b)
         PROVE  NoGap(cf, b)'
    <2>1. /\ b <= From - 1 /\ b <= e
      BY <1>1, <1>5, <1>7a, <1>7b, <1>7, <1>8, <1>12 DEF NoGap
    <2>2. Binlog(cf)!Through(b) \in Nat /\ Binlog(cf)!Through(b) <= A
      <3>1. b \in Int /\ From - 1 \in Int /\ b <= From - 1 /\ From - 1 <= Len(cf.Ends)
        BY <1>5, <1>7, <2>1
      <3> QED BY <3>1, ThroughGrows DEF A, From
    <2>3. \A i \in 1..Len(R) : Binlog(cf)!Through(b) < R[i]
      <3>1. \A i \in 1..L : Binlog(cf)!Through(b) < buffered[i]
        BY <1>12 DEF NoGap, L
      <3> QED BY <1>5, <1>7a, <1>7b, <1>10, <2>2, <3>1
    <2>4. ASSUME NEW r \in Binlog(cf)!AllRows, Binlog(cf)!Through(b) < r, r <= A, r \notin Gone,
                 ~Among(r, pending, P)
          PROVE  \E j \in 1..L : R[j] = r
      <3>1. CASE stream = 0
        BY <1>1, <1>8, <1>12, <2>4, <3>1 DEF NoGap
      <3>2. CASE stream # 0
        <4>1. Among(r, buffered, L)
          BY <1>8, <1>12, <2>4, <3>2 DEF NoGap, P, L
        <4> QED BY <1>5, <4>1 DEF Among
      <3> QED BY <3>1, <3>2
    <2>5. ASSUME NEW r \in Binlog(cf)!AllRows, Binlog(cf)!Through(b) < r, r \notin Gone,
                 ~Among(r, pending, P), NEW k \in 1..Len(R), r <= R[k]
          PROVE  \E j \in 1..k : R[j] = r
      <3>0. r \in Nat
        BY <2>2 DEF Binlog!AllRows
      <3>1. CASE k <= L
        <4>1. k \in 1..Len(buffered) /\ r <= buffered[k]
          BY <1>5, <1>7a, <1>7b, <1>7, <2>5, <3>1 DEF L
        <4>2. Among(r, buffered, k)
          BY <1>12, <2>5, <4>1 DEF NoGap, P
        <4>3. PICK j \in 1..k : buffered[j] = r
          BY <4>2 DEF Among
        <4> QED BY <1>5, <1>7a, <1>7b, <1>7, <3>1, <4>3
      <3>2. CASE k > L /\ r <= A
        <4>1. PICK j \in 1..L : R[j] = r
          BY <2>4, <2>5, <3>2
        <4> QED BY <1>5, <1>7a, <1>7b, <1>7, <3>2, <4>1
      <3>3. CASE k > L /\ r > A
        <4>1. R[k] = A + (k - L)
          BY <1>10, <3>3
        <4>2. L + (r - A) \in 1..k /\ L + (r - A) \in L + 1..Len(R)
          BY <1>5, <1>7a, <1>7b, <1>7, <2>5, <3>0, <3>3, <4>1
        <4>3. R[L + (r - A)] = r
          BY <1>5, <1>7a, <1>7b, <1>7, <3>0, <4>2
        <4> QED BY <4>2, <4>3
      <3> QED BY <1>5, <1>7a, <1>7b, <1>7, <3>0, <3>1, <3>2, <3>3
    <2>6. ASSUME NEW r \in Binlog(cf)!AllRows, Binlog(cf)!Through(b) < r, r \notin Gone,
                 ~Among(r, pending, P), r <= Z
          PROVE  \E j \in 1..Len(R) : R[j] = r
      <3>0. r \in Nat
        BY <2>2 DEF Binlog!AllRows
      <3>1. CASE r <= A
        <4>1. PICK j \in 1..L : R[j] = r
          BY <2>4, <2>6, <3>1
        <4> QED BY <1>5, <1>7a, <1>7b, <1>7, <4>1
      <3>2. CASE r > A
        <4>1. L + (r - A) \in L + 1..Len(R) /\ L + (r - A) \in 1..Len(R)
          BY <1>5, <1>7a, <1>7b, <1>7, <2>6, <3>0, <3>2
        <4>2. R[L + (r - A)] = r
          BY <1>5, <1>7a, <1>7b, <1>7, <3>0, <4>1
        <4> QED BY <4>1, <4>2
      <3> QED BY <1>5, <3>0, <3>1, <3>2
    <2>7. ASSUME NEW r, NEW k \in 0..P, Among(r, pending, k)
          PROVE  Among(r, pending', k) /\ Among(r, pending', Len(pending'))
      BY <1>6, <1>7a, <1>7b, <1>7, <2>7 DEF Among
    <2>8. ASSUME NEW r, r \notin Gone', NEW j \in 1..Len(R), R[j] = r
          PROVE  /\ j <= m \/ j > n
                 /\ j <= m => \A k \in P + j..Len(pending') : Among(r, pending', k)
                 /\ j > n => \A k \in j - n..Len(buffered') : Among(r, buffered', k)
      <3>1. CASE j <= m
        <4>1. j \in 1..m /\ P + j \in Nat /\ P + j > 0 /\ pending'[P + j] = r
          BY <1>5, <1>6, <1>7a, <1>7b, <1>7, <2>8, <3>1
        <4> QED BY <1>6, <1>7a, <1>7b, <1>7, <3>1, <4>1 DEF Among
      <3>2. CASE j > n
        <4>1. j - n \in 1..Len(buffered') /\ buffered'[j - n] = R[n + (j - n)] /\ n + (j - n) = j
          BY <1>5, <1>6, <1>7a, <1>7b, <1>7, <3>2
        <4> QED BY <1>6, <1>7a, <1>7b, <1>7, <2>8, <3>2, <4>1 DEF Among
      <3>3. CASE j > m /\ j <= n
        <4>1. j \in m + 1..n
          BY <1>7a, <3>3
        <4>2. R[j] \in missed'
          BY <1>4, <4>1
        <4> QED BY <2>8, <4>2 DEF Gone
      <3> QED BY <1>7a, <1>7b, <1>7, <3>1, <3>2, <3>3
    <2>9. ASSUME NEW r \in Binlog(cf)!AllRows, Binlog(cf)!Through(b) < r, r \notin Gone'
          PROVE  /\ \A k \in 1..Len(pending') : r <= pending'[k] => Among(r, pending', k)
                 /\ \A k \in 1..Len(buffered') : r <= buffered'[k] =>
                      Among(r, pending', Len(pending')) \/ Among(r, buffered', k)
                 /\ r <= Z => \/ Among(r, pending', Len(pending'))
                              \/ Among(r, buffered', Len(buffered'))
      <3>0. r \notin Gone
        BY <1>1, <1>4, <2>9 DEF Gone
      <3>1. ASSUME NEW k \in 1..Len(pending'), r <= pending'[k]
            PROVE  Among(r, pending', k)
        <4>1. CASE k <= P
          <5>1. k \in 1..P /\ pending'[k] = pending[k]
            BY <1>6, <1>7a, <1>7b, <1>7, <4>1
          <5>2. Among(r, pending, k)
            BY <1>12, <2>9, <3>0, <3>1, <5>1 DEF NoGap, P
          <5> QED BY <1>7a, <1>7b, <1>7, <2>7, <5>1, <5>2
        <4>2. CASE k > P
          <5>1. k - P \in 1..m /\ pending'[P + (k - P)] = R[k - P] /\ P + (k - P) = k
            BY <1>6, <1>7a, <1>7b, <1>7, <4>2
          <5>2. CASE Among(r, pending, P)
            <6>1. PICK j \in 1..P : pending[j] = r
              BY <5>2 DEF Among
            <6> QED BY <1>6, <1>7a, <1>7b, <1>7, <4>2, <6>1 DEF Among
          <5>3. CASE ~Among(r, pending, P)
            <6>1. k - P \in 1..Len(R) /\ r <= R[k - P]
              BY <1>5, <1>7a, <1>7b, <1>7, <3>1, <5>1
            <6>2. PICK j \in 1..k - P : R[j] = r
              BY <2>5, <2>9, <3>0, <5>3, <6>1
            <6>3. j \in 1..Len(R) /\ j <= m /\ k \in P + j..Len(pending')
              BY <1>5, <1>6, <1>7a, <1>7b, <1>7, <5>1, <6>2
            <6> QED BY <2>8, <2>9, <6>2, <6>3
          <5> QED BY <5>2, <5>3
        <4> QED BY <1>7a, <1>7b, <1>7, <4>1, <4>2
      <3>2. ASSUME NEW k \in 1..Len(buffered'), r <= buffered'[k], ~Among(r, pending', Len(pending'))
            PROVE  Among(r, buffered', k)
        <4>1. n + k \in 1..Len(R) /\ r <= R[n + k]
          BY <1>5, <1>6, <1>7a, <1>7b, <1>7, <3>2
        <4>2. ~Among(r, pending, P)
          BY <1>7a, <1>7b, <1>7, <2>7, <3>2
        <4>3. PICK j \in 1..n + k : R[j] = r
          BY <2>5, <2>9, <3>0, <4>1, <4>2
        <4>4. j \in 1..Len(R) /\ (j <= m => Len(pending') \in P + j..Len(pending'))
              /\ (j > n => k \in j - n..Len(buffered'))
          BY <1>5, <1>6, <1>7a, <1>7b, <1>7, <4>1, <4>3
        <4> QED BY <1>7a, <1>7b, <1>7, <2>8, <2>9, <3>2, <4>3, <4>4
      <3>3. ASSUME r <= Z, ~Among(r, pending', Len(pending'))
            PROVE  Among(r, buffered', Len(buffered'))
        <4>1. ~Among(r, pending, P)
          BY <1>7a, <1>7b, <1>7, <2>7, <3>3
        <4>2. PICK j \in 1..Len(R) : R[j] = r
          BY <2>6, <2>9, <3>0, <3>3, <4>1
        <4>3. /\ j <= m => Len(pending') \in P + j..Len(pending')
              /\ j > n => Len(buffered') \in j - n..Len(buffered')
          BY <1>5, <1>6, <1>7a, <1>7b, <1>7, <4>2
        <4> QED BY <1>7a, <1>7b, <1>7, <2>8, <2>9, <3>3, <4>2, <4>3
      <3> QED BY <3>1, <3>2, <3>3
    <2>10. /\ \A i \in 1..Len(pending') : Binlog(cf)!Through(b) < pending'[i]
           /\ \A i \in 1..Len(buffered') : Binlog(cf)!Through(b) < buffered'[i]
      <3>1. ASSUME NEW i \in 1..Len(pending')
            PROVE  Binlog(cf)!Through(b) < pending'[i]
        <4>1. CASE i <= P
          BY <1>6, <1>7a, <1>7b, <1>7, <1>12, <4>1 DEF NoGap, P
        <4>2. CASE i > P
          <5>1. i - P \in 1..m /\ i - P \in 1..Len(R) /\ P + (i - P) = i
            BY <1>5, <1>6, <1>7a, <1>7b, <1>7, <4>2
          <5> QED BY <1>6, <2>3, <5>1
        <4> QED BY <1>7a, <1>7b, <1>7, <4>1, <4>2
      <3>2. ASSUME NEW i \in 1..Len(buffered')
            PROVE  Binlog(cf)!Through(b) < buffered'[i]
        <4>1. n + i \in 1..Len(R)
          BY <1>5, <1>6, <1>7a, <1>7b, <1>7
        <4> QED BY <1>6, <2>3, <4>1
      <3> QED BY <3>1, <3>2
    <2>11. b \in 0..saved' /\ (loaded' => b <= committed') /\ (stream' # 0 => b < stream')
      BY <1>1, <1>5, <1>9, <1>12, <2>1 DEF NoGap
    <2>12. \A r \in Binlog(cf)!AllRows : Binlog(cf)!Through(b) < r =>
             /\ r <= Binlog(cf)!Through(saved') => r \in Gone'
             /\ loaded' /\ r <= Binlog(cf)!Through(committed') => r \in Gone'
      BY <1>1, <1>4, <1>12 DEF NoGap, Gone
    <2> QED BY <1>1, <1>9, <2>9, <2>10, <2>11, <2>12 DEF NoGap, Z
  <1>13. ASSUME InLogOrder(cf)
         PROVE  InLogOrder(cf)'
    <2>1. /\ \A i \in 1..P : pending[i] <= A
          /\ \A i \in 1..L : buffered[i] <= A
          /\ Binlog(cf)!Through(committed) <= A /\ Binlog(cf)!Through(committed) \in Nat
      <3>1. Binlog(cf)!Through(committed) \in Nat
        <4>1. committed \in Int
          BY <1>7
        <4> QED BY <4>1, ThroughGrows
      <3>2. CASE stream = 0
        <4>1. P = 0 /\ L = 0
          BY <1>13, <3>2 DEF InLogOrder, P, L
        <4> QED BY <1>8, <3>1, <3>2, <4>1
      <3> QED BY <1>8, <1>13, <3>1, <3>2 DEF InLogOrder, P, L
    <2>2. \A i, j \in 1..Len(R) : i < j => R[i] < R[j]
      <3> SUFFICES ASSUME NEW i \in 1..Len(R), NEW j \in 1..Len(R), i < j
                   PROVE  R[i] < R[j]
        OBVIOUS
      <3>1. CASE j <= L
        <4>1. i \in 1..L /\ j \in 1..L
          BY <1>5, <1>7a, <1>7b, <1>7, <3>1
        <4> QED BY <1>5, <1>13, <4>1 DEF InLogOrder, L
      <3>2. CASE i <= L /\ j > L
        <4>1. R[j] = A + (j - L) /\ R[i] = buffered[i] /\ i \in 1..L
          BY <1>5, <1>7a, <1>7b, <1>7, <1>10, <3>2
        <4> QED BY <1>5, <1>7a, <1>7b, <1>7, <2>1, <3>2, <4>1
      <3>3. CASE i > L
        <4>1. R[j] = A + (j - L) /\ R[i] = A + (i - L)
          BY <1>5, <1>7a, <1>7b, <1>7, <1>10, <3>3
        <4> QED BY <1>5, <1>7a, <1>7b, <1>7, <4>1
      <3> QED BY <1>5, <1>7a, <1>7b, <1>7, <3>1, <3>2, <3>3
    <2>3. \A i \in 1..P, j \in 1..Len(R) : pending[i] < R[j]
      <3> SUFFICES ASSUME NEW i \in 1..P, NEW j \in 1..Len(R)
                   PROVE  pending[i] < R[j]
        OBVIOUS
      <3>1. CASE j <= L
        BY <1>5, <1>7a, <1>7b, <1>7, <1>10, <1>13, <3>1 DEF InLogOrder, P, L
      <3>2. CASE j > L
        <4>1. R[j] = A + (j - L)
          BY <1>10, <3>2
        <4> QED BY <1>5, <1>7a, <1>7b, <1>7, <2>1, <3>2, <4>1
      <3> QED BY <1>5, <1>7a, <1>7b, <1>7, <3>1, <3>2
    <2>4. \A j \in 1..Len(R) : Binlog(cf)!Through(committed) < R[j] /\ R[j] <= Z
      <3> SUFFICES ASSUME NEW j \in 1..Len(R)
                   PROVE  Binlog(cf)!Through(committed) < R[j] /\ R[j] <= Z
        OBVIOUS
      <3>1. CASE j <= L
        <4>1. j \in 1..L /\ R[j] = buffered[j]
          BY <1>5, <1>7a, <1>7b, <1>7, <3>1
        <4>2. Binlog(cf)!Through(committed) < buffered[j]
          BY <1>1, <1>13, <4>1 DEF InLogOrder, L
        <4> QED BY <1>5, <1>7a, <1>7b, <1>7, <2>1, <4>1, <4>2
      <3>2. CASE j > L
        <4>1. R[j] = A + (j - L)
          BY <1>10, <3>2
        <4> QED BY <1>5, <1>7a, <1>7b, <1>7, <2>1, <3>2, <4>1
      <3> QED BY <1>5, <1>7a, <1>7b, <1>7, <3>1, <3>2
    <2>5. ASSUME NEW i \in 1..Len(pending')
          PROVE  /\ i <= P => i \in 1..P /\ pending'[i] = pending[i]
                 /\ i > P => i - P \in 1..Len(R) /\ i - P <= m /\ pending'[i] = R[i - P]
      <3>1. i > P => i - P \in 1..m /\ P + (i - P) = i
        BY <1>6, <1>7a, <1>7b, <1>7
      <3> QED BY <1>5, <1>6, <1>7a, <1>7b, <1>7, <3>1
    <2>6. ASSUME NEW i \in 1..Len(buffered')
          PROVE  n + i \in 1..Len(R) /\ buffered'[i] = R[n + i]
      BY <1>5, <1>6, <1>7a, <1>7b, <1>7
    <2>7. ASSUME NEW i \in 1..Len(pending'), NEW j \in 1..Len(pending'), i < j
          PROVE  pending'[i] < pending'[j]
      <3>1. CASE j <= P
        BY <1>6, <1>7a, <1>7b, <1>7, <1>13, <2>5, <2>7, <3>1 DEF InLogOrder, P
      <3>2. CASE i <= P /\ j > P
        BY <2>3, <2>5, <3>2
      <3>3. CASE i > P
        <4>1. i - P \in 1..Len(R) /\ j - P \in 1..Len(R) /\ i - P < j - P
          BY <1>6, <1>7a, <1>7b, <1>7, <2>5, <2>7, <3>3
        <4>2. pending'[i] = R[i - P] /\ pending'[j] = R[j - P]
          BY <1>6, <1>7a, <1>7b, <1>7, <2>5, <2>7, <3>3
        <4> QED BY <2>2, <4>1, <4>2
      <3> QED BY <1>6, <1>7a, <1>7b, <1>7, <3>1, <3>2, <3>3
    <2>8. ASSUME NEW i \in 1..Len(buffered'), NEW j \in 1..Len(buffered'), i < j
          PROVE  buffered'[i] < buffered'[j]
      <3>1. n + i < n + j
        BY <1>6, <1>7a, <1>7b, <1>7, <2>8
      <3> QED BY <2>2, <2>6, <3>1
    <2>9. ASSUME NEW i \in 1..Len(pending'), NEW j \in 1..Len(buffered')
          PROVE  pending'[i] < buffered'[j]
      <3>1. CASE i <= P
        BY <2>3, <2>5, <2>6, <3>1
      <3>2. CASE i > P
        <4>1. i - P < n + j
          BY <1>6, <1>7a, <1>7b, <1>7, <2>5, <3>2
        <4> QED BY <2>2, <2>5, <2>6, <3>2, <4>1
      <3> QED BY <1>6, <1>7a, <1>7b, <1>7, <3>1, <3>2
    <2>10. ASSUME NEW i \in 1..Len(pending')
           PROVE  Binlog(cf)!Through(committed) < pending'[i] /\ pending'[i] <= Z
      <3>1. CASE i <= P
        <4>1. i \in 1..P /\ pending'[i] = pending[i]
          BY <2>5, <3>1
        <4>2. Binlog(cf)!Through(committed) < pending[i]
          BY <1>1, <1>13, <4>1 DEF InLogOrder, P
        <4> QED BY <1>5, <1>7a, <1>7b, <1>7, <2>1, <4>1, <4>2
      <3>2. CASE i > P
        BY <2>4, <2>5, <3>2
      <3> QED BY <1>6, <1>7a, <1>7b, <1>7, <3>1, <3>2
    <2>11. ASSUME NEW i \in 1..Len(buffered')
           PROVE  Binlog(cf)!Through(committed) < buffered'[i] /\ buffered'[i] <= Z
      BY <2>4, <2>6
    <2>12. Binlog(cf)!Through(committed) <= Z /\ saved' <= committed'
      BY <1>1, <1>5, <1>13, <2>1 DEF InLogOrder
    <2> QED BY <1>1, <1>9, <2>7, <2>8, <2>9, <2>10, <2>11, <2>12 DEF InLogOrder, Z
  <1> QED BY <1>11, <1>12, <1>13 DEF BinlogKept, BinlogInv

(* What an acknowledgement pops: a prefix of the queue, of acknowledged rows. *)
LEMMA BinlogPopped ==
  ASSUME NEW cf, BinlogTyped(cf), NEW D
  PROVE  /\ Binlog(cf)!Popped(D) \in 0..Len(pending)
         /\ \A i \in 1..Binlog(cf)!Popped(D) : pending[i] \in D
  <1> DEFINE S == {m \in 0..Len(pending) : m = Len(pending) \/ ~Binlog(cf)!Pops(D, m + 1)}
  <1>1. Len(pending) \in Nat
    BY DEF BinlogTyped
  <1>2. S \in SUBSET Nat /\ Len(pending) \in S
    BY <1>1
  <1>3. PICK n \in S : \A m \in S : n <= m
    BY <1>2, SmallestNumber
  <1>4. ASSUME NEW i \in 1..n
        PROVE  Binlog(cf)!Pops(D, i)
    <2>1. i - 1 \in 0..Len(pending) /\ i - 1 < n /\ (i - 1) + 1 = i
      BY <1>1, <1>3
    <2>2. i - 1 \notin S
      <3>1. n \in Nat /\ i \in Nat
        BY <1>2, <1>3
      <3> HIDE DEF S
      <3> QED BY <1>3, <2>1, <3>1
    <2> QED BY <2>1, <2>2
  <1>5. \E m \in 0..Len(pending) :
          /\ \A i \in 1..m : Binlog(cf)!Pops(D, i)
          /\ m = Len(pending) \/ ~Binlog(cf)!Pops(D, m + 1)
    BY <1>3, <1>4
  <1>6. /\ Binlog(cf)!Popped(D) \in 0..Len(pending)
        /\ \A i \in 1..Binlog(cf)!Popped(D) : Binlog(cf)!Pops(D, i)
    BY <1>5 DEF Binlog!Popped
  <1> QED BY <1>6 DEF Binlog!Pops

(* The acknowledged head of the queue is handled, and the position moves to its last *)
(* event when it ends with it. *)
LEMMA BinlogAck ==
  ASSUME NEW cf, BinlogConfig(cf), BinlogInv(cf),
         NEW t \in Binlog(cf)!AllRows, Binlog(cf)!Ack(t)
  PROVE  BinlogKept(cf)
  <1> DEFINE D == acked \cup {t}
             n == Binlog(cf)!Popped(D)
             E == Binlog(cf)!EventOf(pending[n])
             P == Len(pending)
             T == 1..Binlog(cf)!Through(log)
  <1>1. /\ UNCHANGED <<log, saved, loaded, stream, buffered, missed>> /\ done' = done \cup {t}
        /\ saving = 0 /\ hand[t] > 0 /\ hand' = [hand EXCEPT ![t] = @ - 1]
        /\ pending' = SubSeq(pending, n + 1, P)
        /\ acked' = D \ {pending[i] : i \in 1..n}
        /\ IF n > 0 /\ Binlog(cf)!LastRow(pending[n])
             THEN committed' = E /\ saving' = committed'
             ELSE UNCHANGED <<committed, saving>>
    BY DEF Binlog!Ack
  <1>2. BinlogTyped(cf)
    BY DEF BinlogInv
  <1>3. n \in 0..P /\ \A i \in 1..n : pending[i] \in D
    BY <1>2, BinlogPopped
  <1>4. pending \in Seq(T) /\ P \in Nat /\ Len(buffered) \in Nat
    BY <1>2 DEF BinlogTyped
  <1>5. /\ log \in Nat /\ log <= Len(cf.Ends) /\ Len(cf.Ends) \in Nat
        /\ saved \in -1..log /\ committed \in -1..log /\ stream \in 0..log + 1
    BY <1>2 DEF BinlogTyped, BinlogConfig
  <1>6. \A i \in 1..P : pending[i] \in T /\ pending[i] \in Nat /\ pending[i] \in Binlog(cf)!AllRows
    <2>1. Binlog(cf)!Through(log) <= Binlog(cf)!Through(Len(cf.Ends))
          /\ Binlog(cf)!Through(log) \in Nat /\ Binlog(cf)!Through(Len(cf.Ends)) \in Nat
      BY <1>5, ThroughGrows
    <2>2. \A x \in T : x \in Nat /\ x \in Binlog(cf)!AllRows
      BY <2>1 DEF Binlog!AllRows
    <2> HIDE DEF T
    <2> QED BY <1>4, <2>2, ElementOfSeq
  <1> HIDE DEF n, T, P
  <1>7. /\ pending' \in Seq(T) /\ Len(pending') = P - n
        /\ \A i \in 1..P - n : pending'[i] = pending[n + i]
    <2>1. P \in 0..P /\ n \in 0..P /\ P = Len(pending)
      BY <1>3, <1>4 DEF P
    <2> QED BY ONLY <1>1, <1>4, <2>1, Slice
  <1>8. D \subseteq done' /\ acked' \subseteq done' /\ done' \subseteq Binlog(cf)!AllRows
        /\ done \subseteq done' /\ \A i \in 1..n : pending[i] \in done'
    BY <1>1, <1>2, <1>3 DEF BinlogTyped
  <1>9. ASSUME n > 0, Binlog(cf)!LastRow(pending[n])
        PROVE  /\ loaded /\ committed' = E /\ saving' = E /\ E \in 1..log
               /\ Binlog(cf)!Through(E) = pending[n] /\ n \in 1..P
               /\ \A b \in Int : b <= log /\ Binlog(cf)!Through(b) < pending[n] => b <= E
    <2>1. n \in 1..P
      BY <1>3, <1>4, <1>9
    <2>2. loaded
      BY <1>2, <2>1 DEF BinlogTyped, P
    <2>3. pending[n] \in Binlog(cf)!AllRows /\ pending[n] \in T /\ pending[n] \in Nat
      BY <1>6, <2>1
    <2>4. /\ E \in 1..Len(cf.Ends)
          /\ \A e \in 0..Len(cf.Ends) : pending[n] <= Binlog(cf)!Through(e) => E <= e
      BY <2>3, EventOfRow
    <2>5. log \in 0..Len(cf.Ends) /\ pending[n] <= Binlog(cf)!Through(log)
      BY <1>5, <2>3, ThroughGrows DEF T
    <2>6. Binlog(cf)!Through(E) = pending[n]
      BY <1>9 DEF Binlog!LastRow
    <2>7. committed' = E /\ saving' = E
      BY <1>1, <1>9
    <2> HIDE DEF E
    <2>8. ASSUME NEW b \in Int, b <= log, Binlog(cf)!Through(b) < pending[n]
          PROVE  b <= E
      <3>1. CASE E <= b
        <4>1. Binlog(cf)!Through(E) <= Binlog(cf)!Through(b)
          BY <1>5, <2>4, <2>8, <3>1, ThroughGrows
        <4>2. Binlog(cf)!Through(b) \in Nat
          BY ThroughGrows
        <4> QED BY <2>3, <2>6, <2>8, <4>1, <4>2
      <3> QED BY <2>4, <3>1
    <2>9. E \in 1..log
      BY <1>5, <2>4, <2>5
    <2> QED BY <2>1, <2>2, <2>6, <2>7, <2>8, <2>9
  <1> HIDE DEF D, E
  <1>10. BinlogTyped(cf)'
    <2>1. hand' \in [Binlog(cf)!AllRows -> Nat]
      BY <1>1, <1>2 DEF BinlogTyped
    <2>2. /\ committed' \in -1..log /\ saving' \in 0..log
          /\ loaded => committed' >= 0 /\ saved >= 0
          /\ saving' # 0 => loaded /\ saving' = committed'
      <3>1. CASE n > 0 /\ Binlog(cf)!LastRow(pending[n])
        BY <1>2, <1>5, <1>9, <3>1 DEF BinlogTyped
      <3>2. CASE ~(n > 0 /\ Binlog(cf)!LastRow(pending[n]))
        BY <1>1, <1>2, <3>2 DEF BinlogTyped
      <3> QED BY <3>1, <3>2
    <2>3. ~loaded => pending' = <<>> /\ buffered' = <<>> /\ stream' = 0 /\ saving' = 0
      <3> SUFFICES ASSUME ~loaded
                   PROVE  pending' = <<>> /\ buffered' = <<>> /\ stream' = 0 /\ saving' = 0
        OBVIOUS
      <3>1. P = 0 /\ buffered = <<>> /\ stream = 0
        BY <1>2 DEF BinlogTyped, P
      <3>2. n = 0 /\ Len(pending') = 0
        <4>1. n \in 0..0
          BY <1>3, <3>1
        <4>2. n = 0
          BY ONLY <4>1
        <4>3. Len(pending') = 0 - 0
          BY <1>7, <3>1, <4>2
        <4> QED BY <4>2, <4>3
      <3>3. pending' = <<>>
        BY <1>7, <3>2, EmptySeq
      <3> QED BY <1>1, <3>1, <3>2, <3>3
    <2>4. pending' \in Seq(1..Binlog(cf)!Through(log')) /\ buffered' \in Seq(1..Binlog(cf)!Through(log'))
      BY <1>1, <1>2, <1>7 DEF T, BinlogTyped
    <2>5. log' \in 0..Len(cf.Ends) /\ saved' \in -1..log' /\ stream' \in 0..log' + 1 /\ loaded' \in BOOLEAN
      BY <1>1, <1>2 DEF BinlogTyped
    <2> QED BY <1>1, <1>8, <2>1, <2>2, <2>3, <2>4, <2>5 DEF BinlogTyped
  <1>11. ASSUME NEW b \in Nat, NoGap(cf, b)
         PROVE  NoGap(cf, b)'
    <2>1. b \in 0..saved' /\ (loaded' => b <= committed') /\ (stream' # 0 => b < stream')
      <3>1. b \in 0..saved' /\ (stream' # 0 => b < stream')
        BY <1>1, <1>11 DEF NoGap
      <3>2. CASE n > 0 /\ Binlog(cf)!LastRow(pending[n])
        <4>1. n \in 1..Len(pending) /\ b \in Int /\ b <= log
          BY <1>1, <1>5, <1>9, <3>1, <3>2 DEF P
        <4>2. Binlog(cf)!Through(b) < pending[n]
          BY <1>11, <4>1 DEF NoGap
        <4> QED BY <1>9, <3>1, <3>2, <4>1, <4>2
      <3>3. CASE ~(n > 0 /\ Binlog(cf)!LastRow(pending[n]))
        BY <1>1, <1>11, <3>1, <3>3 DEF NoGap
      <3> QED BY <3>2, <3>3
    <2>2. ASSUME NEW r, NEW k \in 0..P, Among(r, pending, k), r \notin Gone'
          PROVE  k - n \in 1..Len(pending') /\ Among(r, pending', k - n)
      <3>1. PICK j \in 1..k : pending[j] = r
        BY <2>2 DEF Among
      <3>2. j \notin 1..n
        BY <1>8, <2>2, <3>1 DEF Gone
      <3>3. j - n \in 1..k - n /\ j - n \in 1..P - n /\ n + (j - n) = j
        BY <1>3, <1>4, <3>2
      <3>4. pending'[j - n] = r
        BY <1>7, <3>1, <3>3
      <3>5. k - n \in 1..Len(pending')
        BY <1>3, <1>4, <1>7, <3>3
      <3> QED BY <3>3, <3>4, <3>5 DEF Among
    <2>3. ASSUME NEW r \in Binlog(cf)!AllRows, Binlog(cf)!Through(b) < r, r \notin Gone'
          PROVE  /\ ~(r <= Binlog(cf)!Through(saved))
                 /\ ~(loaded' /\ r <= Binlog(cf)!Through(committed'))
                 /\ \A k \in 1..Len(pending') : r <= pending'[k] => Among(r, pending', k)
                 /\ \A k \in 1..Len(buffered) : r <= buffered[k] =>
                      Among(r, pending', Len(pending')) \/ Among(r, buffered, k)
                 /\ stream # 0 /\ r <= Binlog(cf)!Through(stream - 1) =>
                      Among(r, pending', Len(pending')) \/ Among(r, buffered, Len(buffered))
      <3>0. r \notin Gone
        BY <1>1, <1>8, <2>3 DEF Gone
      <3>1. ~(r <= Binlog(cf)!Through(saved))
        BY <1>11, <2>3, <3>0 DEF NoGap
      <3>2. ASSUME loaded', r <= Binlog(cf)!Through(committed')
            PROVE  FALSE
        <4>1. CASE n > 0 /\ Binlog(cf)!LastRow(pending[n])
          <5>1. n \in 1..P /\ r <= pending[n]
            BY <1>9, <3>2, <4>1
          <5>2. Among(r, pending, n)
            BY <1>11, <2>3, <3>0, <5>1 DEF NoGap, P
          <5>3. PICK j \in 1..n : pending[j] = r
            BY <5>2 DEF Among
          <5> QED BY <1>8, <2>3, <5>3 DEF Gone
        <4>2. CASE ~(n > 0 /\ Binlog(cf)!LastRow(pending[n]))
          BY <1>1, <1>11, <2>3, <3>0, <3>2, <4>2 DEF NoGap
        <4> QED BY <4>1, <4>2
      <3>3. ASSUME NEW k \in 1..Len(pending'), r <= pending'[k]
            PROVE  Among(r, pending', k)
        <4>1. n + k \in 1..P /\ n + k \in 0..P /\ (n + k) - n = k /\ pending'[k] = pending[n + k]
          BY <1>3, <1>4, <1>7
        <4>2. Among(r, pending, n + k)
          BY <1>11, <2>3, <3>0, <3>3, <4>1 DEF NoGap, P
        <4> QED BY <2>2, <2>3, <4>1, <4>2
      <3>4. Among(r, pending, P) => Among(r, pending', Len(pending'))
        <4>1. P \in 0..P /\ Len(pending') = P - n
          BY <1>4, <1>7
        <4> QED BY <2>2, <2>3, <4>1
      <3>5. \A k \in 1..Len(buffered) : r <= buffered[k] =>
              Among(r, pending, P) \/ Among(r, buffered, k)
        BY <1>11, <2>3, <3>0 DEF NoGap, P
      <3>6. stream # 0 /\ r <= Binlog(cf)!Through(stream - 1) =>
              Among(r, pending, P) \/ Among(r, buffered, Len(buffered))
        BY <1>11, <2>3, <3>0 DEF NoGap, P
      <3> QED BY <3>1, <3>2, <3>3, <3>4, <3>5, <3>6
    <2>4. \A i \in 1..Len(pending') : Binlog(cf)!Through(b) < pending'[i]
      <3> SUFFICES ASSUME NEW i \in 1..Len(pending')
                   PROVE  Binlog(cf)!Through(b) < pending'[i]
        OBVIOUS
      <3>1. n + i \in 1..Len(pending) /\ pending'[i] = pending[n + i]
        BY <1>3, <1>4, <1>7 DEF P
      <3> QED BY <1>11, <3>1 DEF NoGap
    <2>5. \A i \in 1..Len(buffered) : Binlog(cf)!Through(b) < buffered[i]
      BY <1>11 DEF NoGap
    <2> QED BY <1>1, <2>1, <2>3, <2>4, <2>5 DEF NoGap
  <1>12. ASSUME InLogOrder(cf)
         PROVE  InLogOrder(cf)'
    <2>1. ASSUME NEW i \in 1..Len(pending')
          PROVE  n + i \in 1..Len(pending) /\ pending'[i] = pending[n + i]
      BY <1>3, <1>4, <1>7 DEF P
    <2>2. \A i, j \in 1..Len(pending') : i < j => pending'[i] < pending'[j]
      <3> SUFFICES ASSUME NEW i \in 1..Len(pending'), NEW j \in 1..Len(pending'), i < j
                   PROVE  pending'[i] < pending'[j]
        OBVIOUS
      <3>1. n + i < n + j
        BY <1>3, <1>4
      <3> QED BY <1>12, <2>1, <3>1 DEF InLogOrder
    <2>3. \A i \in 1..Len(pending'), j \in 1..Len(buffered) : pending'[i] < buffered[j]
      BY <1>12, <2>1 DEF InLogOrder
    <2>4. stream = 0 => pending' = <<>> /\ buffered = <<>>
      <3> SUFFICES ASSUME stream = 0
                   PROVE  pending' = <<>> /\ buffered = <<>>
        OBVIOUS
      <3>1. P = 0 /\ buffered = <<>>
        BY <1>12 DEF InLogOrder, P
      <3>2. Len(pending') = 0
        <4>1. n \in 0..0
          BY <1>3, <3>1
        <4>2. n = 0
          BY ONLY <4>1
        <4>3. Len(pending') = 0 - 0
          BY <1>7, <3>1, <4>2
        <4> QED BY <4>2, <4>3
      <3> QED BY <1>7, <3>1, <3>2, EmptySeq
    <2>5. loaded => /\ saved <= committed'
                    /\ \A i \in 1..Len(pending') : Binlog(cf)!Through(committed') < pending'[i]
                    /\ \A i \in 1..Len(buffered) : Binlog(cf)!Through(committed') < buffered[i]
      <3> SUFFICES ASSUME loaded
                   PROVE  /\ saved <= committed'
                          /\ \A i \in 1..Len(pending') : Binlog(cf)!Through(committed') < pending'[i]
                          /\ \A i \in 1..Len(buffered) : Binlog(cf)!Through(committed') < buffered[i]
        OBVIOUS
      <3>1. CASE n > 0 /\ Binlog(cf)!LastRow(pending[n])
        <4>1. n \in 1..Len(pending) /\ committed' = E /\ Binlog(cf)!Through(committed') = pending[n]
          BY <1>9, <3>1 DEF P
        <4>2. Binlog(cf)!Through(committed) < pending[n] /\ saved <= committed
          BY <1>12, <4>1 DEF InLogOrder
        <4>3. committed <= E
          BY <1>5, <1>9, <3>1, <4>2
        <4>4. saved <= committed'
          BY <1>5, <1>9, <3>1, <4>1, <4>2, <4>3
        <4>5. \A i \in 1..Len(pending') : pending[n] < pending'[i]
          <5> SUFFICES ASSUME NEW i \in 1..Len(pending')
                       PROVE  pending[n] < pending'[i]
            OBVIOUS
          <5>1. n < n + i
            BY <4>1
          <5> QED BY <1>12, <2>1, <4>1, <5>1 DEF InLogOrder
        <4>6. \A i \in 1..Len(buffered) : pending[n] < buffered[i]
          BY <1>12, <4>1 DEF InLogOrder
        <4> QED BY <4>1, <4>4, <4>5, <4>6
      <3>2. CASE ~(n > 0 /\ Binlog(cf)!LastRow(pending[n]))
        BY <1>1, <1>12, <2>1, <3>2 DEF InLogOrder
      <3> QED BY <3>1, <3>2
    <2>6. stream # 0 =>
            /\ Binlog(cf)!Through(committed') <= Binlog(cf)!Through(stream - 1)
            /\ \A i \in 1..Len(pending') : pending'[i] <= Binlog(cf)!Through(stream - 1)
      <3> SUFFICES ASSUME stream # 0
                   PROVE  /\ Binlog(cf)!Through(committed') <= Binlog(cf)!Through(stream - 1)
                          /\ \A i \in 1..Len(pending') : pending'[i] <= Binlog(cf)!Through(stream - 1)
        OBVIOUS
      <3>1. \A i \in 1..Len(pending) : pending[i] <= Binlog(cf)!Through(stream - 1)
        BY <1>12 DEF InLogOrder
      <3>2. CASE n > 0 /\ Binlog(cf)!LastRow(pending[n])
        BY <1>9, <2>1, <3>1, <3>2 DEF P
      <3>3. CASE ~(n > 0 /\ Binlog(cf)!LastRow(pending[n]))
        BY <1>1, <1>12, <2>1, <3>1, <3>3 DEF InLogOrder
      <3> QED BY <3>2, <3>3
    <2>7. /\ \A i, j \in 1..Len(buffered) : i < j => buffered[i] < buffered[j]
          /\ stream # 0 => \A i \in 1..Len(buffered) : buffered[i] <= Binlog(cf)!Through(stream - 1)
      BY <1>12 DEF InLogOrder
    <2> QED BY <1>1, <2>2, <2>3, <2>4, <2>5, <2>6, <2>7 DEF InLogOrder
  <1> QED BY <1>10, <1>11, <1>12 DEF BinlogKept, BinlogInv

(* The invariant is kept, a step saves no position past a row that is not gone, and *)
(* the saved position only moves forward while the source stays open. *)
LEMMA BinlogStep ==
  ASSUME NEW cf, BinlogConfig(cf), BinlogInv(cf), [Binlog(cf)!Next]_(Binlog(cf)!vars)
  PROVE  /\ BinlogInv(cf)' /\ Binlog(cf)!NothingSkipped
         /\ ~cf.Reopens => Binlog(cf)!SavedFollows
  <1>1. BinlogKept(cf) /\ (saved = -1 => saved' = -1 \/ \E b \in Nat : NoGap(cf, b)')
    <2>1. CASE Binlog(cf)!Open
      BY <2>1, BinlogOpen
    <2>2. CASE Binlog(cf)!Save
      <3>1. saving # 0
        BY <2>2 DEF Binlog!Save
      <3>2. loaded
        BY <3>1 DEF BinlogInv, BinlogTyped
      <3>3. saved # -1
        BY <3>2 DEF BinlogInv, BinlogTyped
      <3> QED BY <2>2, <3>3, BinlogQuiet
    <2>3. CASE Binlog(cf)!Write
      BY <2>3, BinlogWrite DEF Binlog!Write
    <2>4. CASE Binlog(cf)!Crash
      BY <2>4, BinlogCrash DEF Binlog!Crash
    <2>5. CASE Binlog(cf)!Fetch \/ Binlog(cf)!FetchDropped \/ Binlog(cf)!FetchCancelled
      <3>1. saved' = saved
        BY <2>5 DEF Binlog!Fetch, Binlog!FetchDropped, Binlog!FetchCancelled
      <3> QED BY <2>5, <3>1, BinlogFetch
    <2>6. ASSUME NEW t \in Binlog(cf)!AllRows, Binlog(cf)!Ack(t)
          PROVE  BinlogKept(cf) /\ saved' = saved
      BY <2>6, BinlogAck DEF Binlog!Ack
    <2>7. ASSUME \/ Binlog(cf)!SaveFails \/ Binlog(cf)!Reopen
                 \/ \E t \in Binlog(cf)!AllRows : Binlog(cf)!Drop(t)
                 \/ UNCHANGED Binlog(cf)!vars
          PROVE  BinlogKept(cf) /\ saved' = saved
      <3>1. saved' = saved
        BY <2>7 DEF Binlog!SaveFails, Binlog!Reopen, Binlog!Drop, Binlog!vars
      <3> QED BY <2>7, <3>1, BinlogQuiet
    <2> QED BY <2>1, <2>2, <2>3, <2>4, <2>5, <2>6, <2>7 DEF Binlog!Next
  <1>2. saved \in -1..log /\ log \in Nat
    BY DEF BinlogInv, BinlogTyped
  <1>3. BinlogInv(cf)'
    <2>1. CASE saved = -1
      BY <1>1, <2>1 DEF BinlogKept, BinlogInv
    <2>2. CASE saved # -1
      BY <1>1, <2>2 DEF BinlogKept, BinlogInv
    <2> QED BY <2>1, <2>2
  <1>4. Binlog(cf)!NothingSkipped
    <2> SUFFICES ASSUME saved # -1, saved' # saved, NEW t \in Binlog(cf)!AllRows,
                        Binlog(cf)!Through(saved) < t, t <= Binlog(cf)!Through(saved')
                 PROVE  t \in Gone'
      BY DEF Binlog!NothingSkipped, Gone
    <2>1. PICK b \in Nat : NoGap(cf, b)
      BY DEF BinlogInv
    <2>2. NoGap(cf, b)'
      BY <1>1, <2>1 DEF BinlogKept
    <2>3. b \in 0..saved
      BY <2>1 DEF NoGap
    <2>4. /\ Binlog(cf)!Through(b) <= Binlog(cf)!Through(saved)
          /\ Binlog(cf)!Through(b) \in Nat /\ Binlog(cf)!Through(saved) \in Nat
      <3>1. saved \in Int /\ b \in Int /\ b <= saved /\ saved <= Len(cf.Ends)
        BY <1>2, <2>3 DEF BinlogInv, BinlogTyped, BinlogConfig
      <3> QED BY <3>1, ThroughGrows
    <2>5. t \in Int /\ Binlog(cf)!Through(b) < t
      BY <2>4 DEF Binlog!AllRows
    <2> QED BY <2>2, <2>5 DEF NoGap
  <1>5. ASSUME ~cf.Reopens
        PROVE  Binlog(cf)!SavedFollows
    <2>1. saved' \in Int /\ saved \in Int
      BY <1>1, <1>2 DEF BinlogKept, BinlogTyped
    <2>2. CASE Binlog(cf)!Open
      BY <1>2, <2>2 DEF Binlog!Open, Binlog!SavedFollows
    <2>3. CASE Binlog(cf)!Save
      <3>1. saving # 0 /\ saved' = saving
        BY <2>3 DEF Binlog!Save
      <3>2. loaded /\ saving = committed
        BY <3>1 DEF BinlogInv, BinlogTyped
      <3>3. saved <= committed
        BY <1>5, <3>2 DEF BinlogInv, InLogOrder
      <3> QED BY <2>1, <3>1, <3>2, <3>3 DEF Binlog!SavedFollows
    <2>4. CASE saved' = saved
      BY <2>1, <2>4 DEF Binlog!SavedFollows
    <2>5. saved' = saved \/ Binlog(cf)!Open \/ Binlog(cf)!Save
      BY DEF Binlog!Next, Binlog!Write, Binlog!Fetch, Binlog!FetchDropped,
             Binlog!FetchCancelled, Binlog!SaveFails, Binlog!Reopen,
             Binlog!Crash, Binlog!Ack, Binlog!Drop, Binlog!vars
    <2> QED BY <2>2, <2>3, <2>4, <2>5
  <1> QED BY <1>3, <1>4, <1>5

(* What the invariant says of a state. *)
LEMMA BinlogSafe ==
  ASSUME NEW cf, BinlogConfig(cf), BinlogInv(cf)
  PROVE  Binlog(cf)!TypeOK /\ (~cf.Reopens => Binlog(cf)!HeldOnce)
  <1>1. BinlogTyped(cf)
    BY DEF BinlogInv
  <1>2. /\ log \in 0..Len(cf.Ends) /\ Len(cf.Ends) \in Nat /\ saved \in -1..log
        /\ committed \in -1..log /\ stream \in 0..log + 1 /\ saving \in 0..log
        /\ hand \in [Binlog(cf)!AllRows -> Nat]
        /\ acked \subseteq Binlog(cf)!AllRows /\ done \subseteq Binlog(cf)!AllRows
    BY <1>1 DEF BinlogTyped, BinlogConfig
  <1>3. \A x \in 1..Binlog(cf)!Through(log) : x \in Binlog(cf)!AllRows
    <2>1. Binlog(cf)!Through(log) <= Binlog(cf)!Through(Len(cf.Ends))
          /\ Binlog(cf)!Through(log) \in Nat /\ Binlog(cf)!Through(Len(cf.Ends)) \in Nat
      BY <1>2, ThroughGrows
    <2> QED BY <2>1 DEF Binlog!AllRows
  <1>4. Binlog(cf)!Range(pending) \subseteq Binlog(cf)!AllRows
    <2>1. pending \in Seq(1..Binlog(cf)!Through(log))
      BY <1>1 DEF BinlogTyped
    <2>2. DOMAIN pending = 1..Len(pending)
      BY <2>1
    <2> QED BY <1>3, <2>1, <2>2, ElementOfSeq DEF Binlog!Range
  <1>5. Binlog(cf)!Range(buffered) \subseteq Binlog(cf)!AllRows
    <2>1. buffered \in Seq(1..Binlog(cf)!Through(log))
      BY <1>1 DEF BinlogTyped
    <2>2. DOMAIN buffered = 1..Len(buffered)
      BY <2>1
    <2> QED BY <1>3, <2>1, <2>2, ElementOfSeq DEF Binlog!Range
  <1>6. Binlog(cf)!TypeOK
    BY <1>2, <1>4, <1>5 DEF Binlog!TypeOK
  <1>7. ASSUME ~cf.Reopens
        PROVE  Binlog(cf)!HeldOnce
    <2>1. Len(pending) \in Nat /\ \A i \in 1..Len(pending) : pending[i] \in Int
      <3>1. \A x \in 1..Binlog(cf)!Through(log) : x \in Int
        OBVIOUS
      <3>2. pending \in Seq(1..Binlog(cf)!Through(log))
        BY <1>1 DEF BinlogTyped
      <3>3. Len(pending) \in Nat
        BY <3>2
      <3>4. \A i \in 1..Len(pending) : pending[i] \in 1..Binlog(cf)!Through(log)
        BY ONLY <3>2, ElementOfSeq
      <3> QED BY ONLY <3>1, <3>3, <3>4
    <2>2. \A i, j \in 1..Len(pending) : i < j => pending[i] < pending[j]
      BY <1>7 DEF BinlogInv, InLogOrder
    <2> QED BY <2>1, <2>2 DEF Binlog!HeldOnce
  <1> QED BY <1>6, <1>7

(* For any log, batch size and bounds: the saved position never passes a row that is not *)
(* handled, but for those that a cancelled fetch of the process has swallowed, with *)
(* events of several rows acknowledged out of order, rows that a pause drops, saves that *)
(* fail, crashes and a source that is closed and opened again; while it stays open, a *)
(* row is queued once and the position only moves forward. *)
THEOREM BinlogSkipsNothing ==
  ASSUME NEW CONSTANT cf, BinlogConfig(cf)
  PROVE  Binlog(cf)!Spec =>
           /\ []Binlog(cf)!TypeOK /\ [][Binlog(cf)!NothingSkipped]_(Binlog(cf)!vars)
           /\ ~cf.Reopens => []Binlog(cf)!HeldOnce /\ [][Binlog(cf)!SavedFollows]_(Binlog(cf)!vars)
  <1>1. Binlog(cf)!Init => BinlogInv(cf)
    BY BinlogInit
  <1>2. BinlogInv(cf) /\ [Binlog(cf)!Next]_(Binlog(cf)!vars) =>
          /\ BinlogInv(cf)' /\ Binlog(cf)!NothingSkipped
          /\ ~cf.Reopens => Binlog(cf)!SavedFollows
    BY BinlogStep
  <1>3. BinlogInv(cf) => Binlog(cf)!TypeOK /\ (~cf.Reopens => Binlog(cf)!HeldOnce)
    BY BinlogSafe
  <1>4. CASE ~cf.Reopens
    BY <1>1, <1>2, <1>3, <1>4, PTL DEF Binlog!Spec
  <1>5. CASE cf.Reopens
    BY <1>1, <1>2, <1>3, <1>5, PTL DEF Binlog!Spec
  <1> QED BY <1>4, <1>5

--------------------------------------------------------------------------------
(* The family: every configuration that is checked *)

FamilyInv ==
  /\ part = "incremental" => Incremental!SourceInv
  /\ part = "retried" => Retried!SourceInv
  /\ part = "queue" => QueueInv(Mysql)
  /\ part = "sqlite" => QueueInv(Sqlite)
  /\ part = "sink" => SinkInv(Table)
  /\ part = "binlog" => BinlogInv(Partial)
  /\ part = "reopened" => BinlogInv(Reopened)
  /\ part = "postgres" => Postgres!PipelineInv
  /\ part = "lite" => Lite!PipelineInv

(* The checked configurations are ones the theorems are about. *)
LEMMA Configured ==
  /\ Incremental!SourceConfig /\ Retried!SourceConfig
  /\ Postgres!PipelineConfig /\ Lite!PipelineConfig
  /\ QueueConfig(Mysql) /\ QueueConfig(Sqlite) /\ SinkConfig(Table)
  /\ BinlogConfig(Partial) /\ BinlogConfig(Reopened)
  <1>1. Incremental!SourceConfig /\ Retried!SourceConfig
    BY DEF Incremental!SourceConfig, Retried!SourceConfig
  <1>2. Postgres!PipelineConfig /\ Lite!PipelineConfig
    BY DEF Postgres!PipelineConfig, Lite!PipelineConfig, Postgres!Pg!SourceConfig, Lite!Pg!SourceConfig
  <1>3. QueueConfig(Mysql) /\ QueueConfig(Sqlite)
    BY DEF QueueConfig, Queue!Free, Mysql, Sqlite
  <1>4. SinkConfig(Table)
    BY DEF SinkConfig, Table
  <1>5. BinlogConfig(Partial)
    <2>1. Partial.Ends = <<2, 2, 5>> /\ Partial.Limit = 2
      BY DEF Partial
    <2>2. <<2, 2, 5>> \in Seq(Nat) /\ Len(<<2, 2, 5>>) = 3
          /\ \A i, j \in 1..3 : i <= j => <<2, 2, 5>>[i] <= <<2, 2, 5>>[j]
      OBVIOUS
    <2> QED BY <2>1, <2>2 DEF BinlogConfig
  <1>6. BinlogConfig(Reopened)
    <2>1. Reopened.Ends = <<1, 3>> /\ Reopened.Limit = 2
      BY DEF Reopened
    <2>2. <<1, 3>> \in Seq(Nat) /\ Len(<<1, 3>>) = 2
          /\ \A i, j \in 1..2 : i <= j => <<1, 3>>[i] <= <<1, 3>>[j]
      OBVIOUS
    <2> QED BY <2>1, <2>2 DEF BinlogConfig
  <1> QED BY <1>1, <1>2, <1>3, <1>4, <1>5, <1>6

(* Every part starts with its invariant. *)
LEMMA FamilyInit ==
  Init => FamilyInv
  <1> SUFFICES ASSUME Init
               PROVE  FamilyInv
    OBVIOUS
  <1>1. ASSUME part = "incremental"
        PROVE  Incremental!SourceInv
    <2>1. Incremental!Init
      BY <1>1 DEF Init
    <2> QED BY <2>1, Configured, Incremental!SourceInit
  <1>2. ASSUME part = "retried"
        PROVE  Retried!SourceInv
    <2>1. Retried!Init
      BY <1>2 DEF Init
    <2> QED BY <2>1, Configured, Retried!SourceInit
  <1>3. ASSUME part = "queue"
        PROVE  QueueInv(Mysql)
    <2>1. Queue(Mysql)!Init
      BY <1>3 DEF Init
    <2> QED BY <2>1, Configured, QueueInit
  <1>4. ASSUME part = "sqlite"
        PROVE  QueueInv(Sqlite)
    <2>1. Queue(Sqlite)!Init
      BY <1>4 DEF Init
    <2> QED BY <2>1, Configured, QueueInit
  <1>5. ASSUME part = "sink"
        PROVE  SinkInv(Table)
    <2>1. Sink(Table)!Init
      BY <1>5 DEF Init
    <2> QED BY <2>1, Configured, SinkInit
  <1>6. ASSUME part = "binlog"
        PROVE  BinlogInv(Partial)
    <2>1. Binlog(Partial)!Init
      BY <1>6 DEF Init
    <2> QED BY <2>1, Configured, BinlogInit
  <1>7. ASSUME part = "reopened"
        PROVE  BinlogInv(Reopened)
    <2>1. Binlog(Reopened)!Init
      BY <1>7 DEF Init
    <2> QED BY <2>1, Configured, BinlogInit
  <1>8. ASSUME part = "postgres"
        PROVE  Postgres!PipelineInv
    <2>1. Postgres!Init
      BY <1>8 DEF Init
    <2> QED BY <2>1, Configured, Postgres!PipelineInit
  <1>9. ASSUME part = "lite"
        PROVE  Lite!PipelineInv
    <2>1. Lite!Init
      BY <1>9 DEF Init
    <2> QED BY <2>1, Configured, Lite!PipelineInit
  <1> QED BY <1>1, <1>2, <1>3, <1>4, <1>5, <1>6, <1>7, <1>8, <1>9 DEF FamilyInv

(* A step of the family is a step of its part, or leaves it alone. *)
LEMMA FamilyParts ==
  ASSUME [Next]_vars
  PROVE  /\ part' = part
         /\ part = "incremental" => [Incremental!Next]_(Incremental!vars)
         /\ part = "retried" => [Retried!Next]_(Retried!vars)
         /\ part = "queue" => [Queue(Mysql)!Next]_(Queue(Mysql)!vars)
         /\ part = "sqlite" => [Queue(Sqlite)!Next]_(Queue(Sqlite)!vars)
         /\ part = "sink" => [Sink(Table)!Next]_(Sink(Table)!vars)
         /\ part = "binlog" => [Binlog(Partial)!Next]_(Binlog(Partial)!vars)
         /\ part = "reopened" => [Binlog(Reopened)!Next]_(Binlog(Reopened)!vars)
         /\ part = "postgres" => [Postgres!Next]_(Postgres!vars)
         /\ part = "lite" => [Lite!Next]_(Lite!vars)
  <1>1. CASE UNCHANGED vars
    <2>1. UNCHANGED Incremental!vars /\ UNCHANGED Retried!vars
      BY <1>1 DEF vars, Incremental!vars, Incremental!db, Incremental!cursor, Incremental!queue,
         Incremental!flush, Incremental!acks, Incremental!run, Incremental!hist, Incremental!bounds,
         Retried!vars, Retried!db, Retried!cursor, Retried!queue,
         Retried!flush, Retried!acks, Retried!run, Retried!hist, Retried!bounds
    <2>2. UNCHANGED Queue(Mysql)!vars /\ UNCHANGED Queue(Sqlite)!vars /\ UNCHANGED Sink(Table)!vars
      BY <1>1 DEF vars, Queue!vars, Queue!held, Sink!vars
    <2>3. UNCHANGED Binlog(Partial)!vars /\ UNCHANGED Binlog(Reopened)!vars
      BY <1>1 DEF vars, Binlog!vars, Binlog!src, Binlog!hist
    <2>4. UNCHANGED Postgres!vars /\ UNCHANGED Lite!vars
      BY <1>1 DEF vars, Postgres!vars, Postgres!source, Postgres!queue, Lite!vars, Lite!source, Lite!queue
    <2> QED BY <1>1, <2>1, <2>2, <2>3, <2>4 DEF vars
  <1>2. CASE Next
    <2>1. part' = part
      BY <1>2 DEF Next, NotIncrementalSource, NotTableQueue, NotTableSink, NotBinlogSource, NotSqlPipeline
    <2> QED BY <1>2, <2>1 DEF Next
  <1> QED BY <1>1, <1>2

(* Every part keeps its invariant. *)
LEMMA FamilyStep ==
  FamilyInv /\ [Next]_vars => FamilyInv'
  <1> SUFFICES ASSUME FamilyInv, [Next]_vars
               PROVE  FamilyInv'
    OBVIOUS
  <1>1. ASSUME part = "incremental"
        PROVE  Incremental!SourceInv'
    BY <1>1, Configured, FamilyParts, Incremental!SourceStep DEF FamilyInv
  <1>2. ASSUME part = "retried"
        PROVE  Retried!SourceInv'
    BY <1>2, Configured, FamilyParts, Retried!SourceStep DEF FamilyInv
  <1>3. ASSUME part = "queue"
        PROVE  QueueInv(Mysql)'
    BY <1>3, Configured, FamilyParts, QueueStep DEF FamilyInv
  <1>4. ASSUME part = "sqlite"
        PROVE  QueueInv(Sqlite)'
    BY <1>4, Configured, FamilyParts, QueueStep DEF FamilyInv
  <1>5. ASSUME part = "sink"
        PROVE  SinkInv(Table)'
    BY <1>5, Configured, FamilyParts, SinkStep DEF FamilyInv
  <1>6. ASSUME part = "binlog"
        PROVE  BinlogInv(Partial)'
    BY <1>6, Configured, FamilyParts, BinlogStep DEF FamilyInv
  <1>7. ASSUME part = "reopened"
        PROVE  BinlogInv(Reopened)'
    BY <1>7, Configured, FamilyParts, BinlogStep DEF FamilyInv
  <1>8. ASSUME part = "postgres"
        PROVE  Postgres!PipelineInv'
    BY <1>8, Configured, FamilyParts, Postgres!PipelineStep DEF FamilyInv
  <1>9. ASSUME part = "lite"
        PROVE  Lite!PipelineInv'
    BY <1>9, Configured, FamilyParts, Lite!PipelineStep DEF FamilyInv
  <1>10. part' = part
    BY FamilyParts
  <1> QED BY <1>1, <1>2, <1>3, <1>4, <1>5, <1>6, <1>7, <1>8, <1>9, <1>10 DEF FamilyInv

(* No cursor passes a row that is not handled and no binlog row is queued twice, in *)
(* every run of every checked configuration. *)
THEOREM CursorSafeHolds ==
  Spec => []CursorSafe
  <1>1. FamilyInv => CursorSafe
    <2> SUFFICES ASSUME FamilyInv
                 PROVE  CursorSafe
      OBVIOUS
    <2>1. part = "incremental" => Incremental!TypeOK /\ Incremental!NothingSkipped /\ Incremental!OrderKept
      BY Configured, Incremental!SourceSafe DEF FamilyInv
    <2>2. part = "retried" => Retried!NothingSkipped /\ Retried!OrderKept
      BY Configured, Retried!SourceSafe DEF FamilyInv
    <2>3. part = "postgres" => Postgres!NothingSkipped
      BY Postgres!PipelineSafe DEF FamilyInv
    <2>4. part = "lite" => Lite!NothingSkipped
      BY Lite!PipelineSafe DEF FamilyInv
    <2>5. ~Partial.Reopens
      BY DEF Partial
    <2>6. part = "binlog" => Binlog(Partial)!TypeOK /\ Binlog(Partial)!HeldOnce
      BY <2>5, Configured, BinlogSafe DEF FamilyInv
    <2> QED BY <2>1, <2>2, <2>3, <2>4, <2>6 DEF CursorSafe
  <1> QED BY <1>1, FamilyInit, FamilyStep, PTL DEF Spec

(* A row of a table queue that no answer was lost about has one worker and is done *)
(* just when its ack has returned, its result is written first, and JSON columns hold *)
(* documents, in every run of every checked configuration. *)
THEOREM RowsAgreeHolds ==
  Spec => []RowsAgree
  <1>1. FamilyInv => RowsAgree
    <2> SUFFICES ASSUME FamilyInv
                 PROVE  RowsAgree
      OBVIOUS
    <2>1. part = "queue" => Queue(Mysql)!TypeOK /\ Queue(Mysql)!OneWorker /\ Queue(Mysql)!DoneIsDone
      BY Configured, QueueSafe DEF FamilyInv
    <2>2. part = "sqlite" => Queue(Sqlite)!OneWorker
      BY Configured, QueueSafe DEF FamilyInv
    <2>3. part = "postgres" => Postgres!DoneIsWritten
      BY Postgres!PipelineSafe DEF FamilyInv
    <2>4. part = "lite" => Lite!DoneIsWritten
      BY Lite!PipelineSafe DEF FamilyInv
    <2>5. part = "sink" => Sink(Table)!TypeOK /\ Sink(Table)!JsonStored
      BY SinkSafe DEF FamilyInv
    <2> QED BY <2>1, <2>2, <2>3, <2>4, <2>5 DEF RowsAgree
  <1> QED BY <1>1, FamilyInit, FamilyStep, PTL DEF Spec

(* Cursors and positions move forward, over rows that are handled or were swallowed by *)
(* a cancelled fetch, nothing that was acknowledged is delivered again and the sink *)
(* keeps its policies, in every run of every checked configuration. *)
THEOREM ForwardOnlyHolds ==
  Spec => ForwardOnly
  <1> DEFINE Forward ==
        /\ part = "incremental" => Incremental!NoRedelivery /\ Incremental!CursorForward
        /\ part = "binlog" => Binlog(Partial)!NothingSkipped /\ Binlog(Partial)!SavedFollows
        /\ part = "reopened" => Binlog(Reopened)!NothingSkipped
        /\ part = "sink" => Sink(Table)!ReplaySafe /\ Sink(Table)!PoliciesKept
  <1>1. FamilyInv /\ [Next]_vars => [Forward]_vars
    <2> SUFFICES ASSUME FamilyInv, Next
                 PROVE  Forward
      OBVIOUS
    <2>1. part = "incremental" => Incremental!NoRedelivery /\ Incremental!CursorForward
      <3>1. part = "incremental" => Incremental!Next
        BY DEF Next
      <3> QED BY <3>1, Configured, Incremental!SourceForward DEF FamilyInv
    <2>2. ~Partial.Reopens
      BY DEF Partial
    <2>3. part = "binlog" => Binlog(Partial)!NothingSkipped /\ Binlog(Partial)!SavedFollows
      BY <2>2, Configured, FamilyParts, BinlogStep DEF FamilyInv
    <2>4. part = "reopened" => Binlog(Reopened)!NothingSkipped
      BY Configured, FamilyParts, BinlogStep DEF FamilyInv
    <2>5. part = "sink" => Sink(Table)!ReplaySafe /\ Sink(Table)!PoliciesKept
      <3>1. part = "sink" => Sink(Table)!Next
        BY DEF Next
      <3> QED BY <3>1, Configured, SinkReplay, SinkPolicies DEF FamilyInv
    <2> QED BY <2>1, <2>3, <2>4, <2>5
  <1>2. ForwardOnly <=> [][Forward]_vars
    BY DEF ForwardOnly
  <1> HIDE DEF Forward
  <1> QED BY <1>1, <1>2, FamilyInit, FamilyStep, PTL DEF Spec
================================================================================
