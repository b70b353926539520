----------------------------- MODULE SqlPipeline -----------------------------
(* Two tasks in a row over PostgreSQL or SQLite: a worker takes jobs from a   *)
(* table queue and upserts their results with a table sink; a second process  *)
(* reads the result table with an incremental source.  Postgres and sqlite    *)
(* hold their own copies of the queue and of the source; they differ in how   *)
(* rows are claimed and in what a delivery does when it is released.          *)
EXTENDS Integers, TLAPS

CONSTANTS Backend,    \* "postgres" or "sqlite"
          Keys, Times, Batch, Workers,
          Fatal,      \* may a reader run out of attempts?
          MaxFaults, MaxCrashes, MaxRetries, MaxStops, MaxNacks   \* bounds

VARIABLES rows, store, loaded, committed, fetched, pending, acked, retrying, terminal,
          task, prefix, fetch, result, hand, waiting, unsaved, attempts, done, now, faults,
          crashes, stops
VARIABLES status, lock, tx, jobs, refused, sleeping, finished, doubted, lost, nacks,
          sent    \* jobs in hand whose result was written
source == <<rows, store, loaded, committed, fetched, pending, acked, retrying, terminal, task,
            prefix, fetch, result, hand, waiting, unsaved, attempts, done, now, faults, stops>>
queue == <<status, lock, tx, jobs, refused, sleeping, finished, doubted, lost, nacks>>
vars == <<source, queue, sent, crashes>>

Pg == INSTANCE IncrementalSource WITH
        LateCommits <- FALSE, ReleasesUnstarted <- FALSE, StopRace <- FALSE
Lite == INSTANCE IncrementalSource WITH
        LateCommits <- FALSE, ReleasesUnstarted <- TRUE, StopRace <- FALSE
Queue == INSTANCE TableQueue WITH
        Rows <- Keys, Consumers <- Workers, OneStatement <- Backend = "sqlite", Nack <- "ready",
        hand <- jobs, done <- finished

Init == Pg!Init /\ Queue!Init /\ sent = [w \in Workers |-> {}]

Reading == UNCHANGED <<queue, sent>>
Working == UNCHANGED source

-----------------------------------------------------------------------------
(* PostgreSQL *)

PgFetch ==
  /\ Backend = "postgres" /\ Reading
  /\ \/ Pg!Open \/ Pg!FetchRetry \/ Pg!FetchBegin \/ Pg!FetchQuery
     \/ Pg!FetchReturn \/ Pg!Start \/ Pg!FetchFails
\* IncrementalDelivery has no release_unstarted: the base class does nothing.
PgRelease == Backend = "postgres" /\ Reading /\ Pg!Release
PgSettle(t) ==
  /\ Backend = "postgres" /\ Reading
  /\ (Pg!Ack(t) \/ Pg!Retry(t) \/ Pg!Elapse(t) \/ Pg!Fail(t))
PgFlush ==
  /\ Backend = "postgres" /\ Reading
  /\ (Pg!FlushBegin \/ Pg!FlushSave \/ Pg!SaveFails \/ Pg!FlushApply)
PgClaim(w) ==
  /\ Backend = "postgres" /\ Working /\ UNCHANGED sent
  /\ (Queue!Select(w) \/ Queue!Claim(w) \/ Queue!Rollback(w) \/ Queue!ClaimUnanswered(w))
PgSettleRow(w, k) ==
  /\ Backend = "postgres" /\ Working /\ sent' = [sent EXCEPT ![w] = @ \ {k}]
  /\ \/ k \in sent[w] /\ (Queue!Ack(w, k) \/ Queue!AckFails(w, k))
     \/ Queue!Retry(w, k) \/ Queue!Fail(w, k) \/ Queue!RetryWakes(w, k)
     \/ Queue!FailFails(w, k) \/ Queue!NackFails(w, k)
\* INSERT ... ON CONFLICT DO UPDATE: the row gets a new updated_at.
PgSend(w, k) ==
  /\ Backend = "postgres" /\ k \in jobs[w] \ sent[w]
  /\ \E c \in Times : Pg!Write(k, c)
  /\ sent' = [sent EXCEPT ![w] = @ \cup {k}] /\ UNCHANGED queue

-----------------------------------------------------------------------------
(* SQLite *)

LiteFetch ==
  /\ Backend = "sqlite" /\ Reading
  /\ \/ Lite!Open \/ Lite!FetchRetry \/ Lite!FetchBegin \/ Lite!FetchQuery
     \/ Lite!FetchReturn \/ Lite!Start \/ Lite!FetchFails
LiteRelease == Backend = "sqlite" /\ Reading /\ Lite!Release
LiteSettle(t) ==
  /\ Backend = "sqlite" /\ Reading
  /\ (Lite!Ack(t) \/ Lite!Retry(t) \/ Lite!Elapse(t) \/ Lite!Fail(t))
LiteFlush ==
  /\ Backend = "sqlite" /\ Reading
  /\ (Lite!FlushBegin \/ Lite!FlushSave \/ Lite!SaveFails \/ Lite!FlushApply)
LiteClaim(w) ==
  /\ Backend = "sqlite" /\ Working /\ UNCHANGED sent
  /\ (Queue!ClaimReturning(w) \/ Queue!ClaimUnanswered(w))
\* Mutant: the job is acknowledged before its result is sent.
LiteSettleEarly(w, k) ==
  /\ Backend = "sqlite" /\ Working /\ sent' = [sent EXCEPT ![w] = @ \ {k}]
  /\ (Queue!Ack(w, k) \/ Queue!Retry(w, k) \/ Queue!Fail(w, k) \/ Queue!RetryWakes(w, k))
LiteSettleRow(w, k) ==
  /\ Backend = "sqlite" /\ Working /\ sent' = [sent EXCEPT ![w] = @ \ {k}]
  /\ \/ k \in sent[w] /\ (Queue!Ack(w, k) \/ Queue!AckFails(w, k))
     \/ Queue!Retry(w, k) \/ Queue!Fail(w, k) \/ Queue!RetryWakes(w, k)
     \/ Queue!FailFails(w, k) \/ Queue!NackFails(w, k)
LiteSend(w, k) ==
  /\ Backend = "sqlite" /\ k \in jobs[w] \ sent[w]
  /\ \E c \in Times : Lite!Write(k, c)
  /\ sent' = [sent EXCEPT ![w] = @ \cup {k}] /\ UNCHANGED queue

-----------------------------------------------------------------------------
\* The two processes die independently.
Crash ==
  \/ Pg!Crash /\ Reading
  \/ \E w \in Workers : /\ Queue!Crash(w) /\ Working
                        /\ sent' = [sent EXCEPT ![w] = {}]

Fetch == PgFetch \/ LiteFetch
Flush == PgFlush \/ LiteFlush
Settle(t) == PgSettle(t) \/ LiteSettle(t)
Work(w) == \/ PgClaim(w) \/ LiteClaim(w)
           \/ \E k \in Keys : PgSettleRow(w, k) \/ PgSend(w, k) \/ LiteSettleRow(w, k) \/ LiteSend(w, k)
Next ==
  \/ Fetch \/ Flush \/ PgRelease \/ LiteRelease \/ Crash
  \/ \E t \in Times \X Keys : Settle(t)
  \/ \E w \in Workers : Work(w)
Spec == Init /\ [][Next]_vars
\* Fetches and commits go on, handlers end.
FairSpec == Spec /\ WF_vars(Fetch) /\ WF_vars(Flush)
                 /\ \A t \in Times \X Keys :
                      WF_vars((Pg!Ack(t) \/ Pg!GiveBack(t) \/ Pg!Elapse(t)) /\ Reading)

-----------------------------------------------------------------------------
(* Properties *)

\* A job is marked done only when its result row is in the table, through retries,
\* rollbacks, updates that fail or are not answered and crashes of the worker: the
\* sink is sent before ack.
DoneIsWritten == \A k \in Keys : status[k] = "done" => rows[k] # 0

\* The cursor of the second task never passes a result that it has not handled,
\* although results are rewritten by replayed jobs while it reads.
NothingSkipped == Pg!NothingSkipped

-----------------------------------------------------------------------------
(* Proofs: the two tasks keep their promises for any keys, times and bounds.  *)

(* Jobs and the times of their result rows are positive numbers.              *)
PipelineConfig == Pg!SourceConfig

Statuses == {"ready", "claimed", "done", "failed"}

(* A worker that has sent the result of a job finds the row written. *)
Written ==
  /\ sent \in [Workers -> SUBSET Keys] /\ status \in [Keys -> Statuses]
  /\ \A w \in Workers, k \in Keys : k \in sent[w] => rows[k] # 0
  /\ DoneIsWritten

(* The inductive invariant: the source's, and what ties the queue to its table. *)
PipelineInv == Pg!SourceInv /\ Written

(* What releases mean makes no difference to the source's invariant. *)
LEMMA SameInvariant ==
  /\ Pg!SourceConfig <=> Lite!SourceConfig
  /\ Pg!SourceInv <=> Lite!SourceInv
  /\ Pg!SourceInv' <=> Lite!SourceInv'
  BY DEF Pg!SourceConfig, Lite!SourceConfig, Pg!SourceInv, Lite!SourceInv,
     Pg!Typed, Lite!Typed, Pg!Queued, Lite!Queued, Pg!Queried, Lite!Queried, Pg!Apart, Lite!Apart,
     Pg!Covered, Lite!Covered, Pg!Saving, Lite!Saving, Pg!Cursors, Lite!Cursors, Pg!Tokens, Lite!Tokens,
     Pg!NoTok, Lite!NoTok, Pg!Less, Lite!Less, Pg!Present, Lite!Present, Pg!Token, Lite!Token,
     Pg!Rising, Lite!Rising, Pg!Read, Lite!Read, Pg!NothingSkipped, Lite!NothingSkipped, Pg!Range, Lite!Range

(* The source's invariant is about its own variables. *)
LEMMA SourceAlone ==
  ASSUME Pg!SourceInv, UNCHANGED source
  PROVE  Pg!SourceInv'
  <1>1. UNCHANGED <<rows, store, loaded, committed, fetched, pending, acked, retrying>>
    BY DEF source
  <1>2. UNCHANGED <<task, prefix, fetch, result, hand, waiting, unsaved, attempts, done, now>>
    BY DEF source
  <1>3. Pg!Present' = Pg!Present
    BY <1>1 DEF Pg!Present, Pg!Token
  <1>4. Pg!Typed' /\ Pg!Queued' /\ Pg!Apart'
    BY <1>1, <1>2 DEF Pg!SourceInv, Pg!Typed, Pg!Queued, Pg!Apart, Pg!Read
  <1>5. Pg!Queried' /\ Pg!Covered' /\ Pg!Saving'
    BY <1>1, <1>2, <1>3 DEF Pg!SourceInv, Pg!Queried, Pg!Covered, Pg!Saving, Pg!NothingSkipped
  <1> QED BY <1>4, <1>5 DEF Pg!SourceInv

(* The pipeline starts with its invariant. *)
LEMMA PipelineInit ==
  ASSUME PipelineConfig, Init
  PROVE  PipelineInv
  <1>1. Pg!SourceInv
    BY Pg!SourceInit DEF PipelineConfig, Init
  <1>2. status = [r \in Keys |-> "ready"] /\ sent = [w \in Workers |-> {}]
    BY DEF Init, Queue!Init
  <1> QED BY <1>1, <1>2 DEF PipelineInv, Written, DoneIsWritten, Statuses

(* A step of the second task is a step of its source. *)
LEMMA ReaderKeeps ==
  ASSUME PipelineConfig, PipelineInv,
         \/ Fetch \/ Flush \/ PgRelease \/ LiteRelease \/ (Pg!Crash /\ Reading)
         \/ \E t \in Times \X Keys : Settle(t)
  PROVE  PipelineInv'
  <1>1. CASE \/ PgFetch \/ PgFlush \/ PgRelease \/ (Pg!Crash /\ Reading)
             \/ \E t \in Times \X Keys : PgSettle(t)
    <2>1. Pg!Next /\ Reading /\ rows' = rows
      BY <1>1 DEF PgFetch, PgFlush, PgRelease, PgSettle, Pg!Next, Pg!Fetch, Pg!Flush, Pg!Tokens,
         Pg!Open, Pg!FetchRetry, Pg!FetchBegin, Pg!FetchQuery, Pg!FetchReturn, Pg!Start,
         Pg!FetchFails, Pg!Release, Pg!Ack, Pg!Acked, Pg!Retry, Pg!Elapse, Pg!Fail, Pg!FlushBegin,
         Pg!FlushSave, Pg!SaveFails, Pg!FlushApply, Pg!Crash, Pg!db
    <2>2. Pg!SourceInv'
      BY <2>1, Pg!SourceStep DEF PipelineConfig, PipelineInv
    <2> QED BY <2>1, <2>2 DEF PipelineInv, Written, DoneIsWritten, Reading, queue
  <1>2. CASE \/ LiteFetch \/ LiteFlush \/ LiteRelease
             \/ \E t \in Times \X Keys : LiteSettle(t)
    <2>1. Lite!Next /\ Reading /\ rows' = rows
      BY <1>2 DEF LiteFetch, LiteFlush, LiteRelease, LiteSettle, Lite!Next, Lite!Fetch, Lite!Flush,
         Lite!Tokens, Lite!Open, Lite!FetchRetry, Lite!FetchBegin, Lite!FetchQuery,
         Lite!FetchReturn, Lite!Start, Lite!FetchFails, Lite!Release, Lite!Ack, Lite!Acked, Lite!Retry,
         Lite!Elapse, Lite!Fail, Lite!FlushBegin, Lite!FlushSave, Lite!SaveFails,
         Lite!FlushApply, Lite!db
    <2>2. Pg!SourceInv'
      BY <2>1, Lite!SourceStep, SameInvariant DEF PipelineConfig, PipelineInv
    <2> QED BY <2>1, <2>2 DEF PipelineInv, Written, DoneIsWritten, Reading, queue
  <1> QED BY <1>1, <1>2 DEF Fetch, Flush, Settle

(* A worker sends the result before it acknowledges the job, and an upsert of    *)
(* the sink writes the row of its key.                                          *)
LEMMA WorkerKeeps ==
  ASSUME PipelineConfig, PipelineInv, NEW w \in Workers,
         Work(w) \/ (Queue!Crash(w) /\ Working /\ sent' = [sent EXCEPT ![w] = {}])
  PROVE  PipelineInv'
  <1>0. /\ sent \in [Workers -> SUBSET Keys] /\ status \in [Keys -> Statuses]
        /\ rows \in [Keys -> Times \cup {0}] /\ \A c \in Times : c # 0
        /\ \A v \in Workers, k \in Keys : k \in sent[v] => rows[k] # 0
        /\ \A k \in Keys : status[k] = "done" => rows[k] # 0
    BY DEF PipelineInv, Written, DoneIsWritten, Pg!SourceInv, Pg!Typed, PipelineConfig, Pg!SourceConfig
  <1>1. CASE \E k \in Keys : PgSend(w, k) \/ LiteSend(w, k)
    <2>1. PICK k \in Keys : PgSend(w, k) \/ LiteSend(w, k)
      BY <1>1
    <2>2. PICK c \in Times : Pg!Write(k, c) \/ Lite!Write(k, c)
      BY <2>1 DEF PgSend, LiteSend
    <2>3. Pg!SourceInv'
      <3>1. Pg!Next \/ Lite!Next
        BY <2>2 DEF Pg!Next, Lite!Next
      <3> QED BY <3>1, Pg!SourceStep, Lite!SourceStep, SameInvariant DEF PipelineConfig, PipelineInv
    <2>4. rows' = [rows EXCEPT ![k] = c]
      BY <2>2 DEF Pg!Write, Lite!Write
    <2>5. sent' = [sent EXCEPT ![w] = @ \cup {k}] /\ status' = status
      BY <2>1 DEF PgSend, LiteSend, queue
    <2>6. \A j \in Keys : rows[j] # 0 => rows'[j] # 0
      BY <1>0, <2>4
    <2>7. \A v \in Workers, j \in Keys : j \in sent'[v] => j \in sent[v] \/ j = k
      BY <1>0, <2>5
    <2>8. sent' \in [Workers -> SUBSET Keys] /\ rows'[k] # 0
      BY <1>0, <2>4, <2>5
    <2> QED BY <1>0, <2>3, <2>5, <2>6, <2>7, <2>8 DEF PipelineInv, Written, DoneIsWritten
  <1>2. CASE \/ PgClaim(w) \/ LiteClaim(w)
             \/ Queue!Crash(w) /\ Working /\ sent' = [sent EXCEPT ![w] = {}]
    <2>1. UNCHANGED source /\ rows' = rows
      BY <1>2 DEF PgClaim, LiteClaim, Working, source
    <2>2. /\ sent' \in [Workers -> SUBSET Keys]
          /\ \A v \in Workers, j \in Keys : j \in sent'[v] => j \in sent[v]
      BY <1>0, <1>2 DEF PgClaim, LiteClaim
    <2>3. /\ status' \in [Keys -> Statuses]
          /\ \A j \in Keys : status'[j] = "done" => status[j] = "done"
      BY <1>0, <1>2 DEF PgClaim, LiteClaim, Queue!Select, Queue!Claim, Queue!Rollback,
         Queue!ClaimReturning, Queue!ClaimUnanswered, Queue!Crash, Statuses
    <2> QED BY <1>0, <2>1, <2>2, <2>3, SourceAlone DEF PipelineInv, Written, DoneIsWritten
  <1>3. CASE \E k \in Keys : PgSettleRow(w, k) \/ LiteSettleRow(w, k)
    <2>1. PICK k \in Keys : PgSettleRow(w, k) \/ LiteSettleRow(w, k)
      BY <1>3
    <2>2. UNCHANGED source /\ rows' = rows /\ sent' = [sent EXCEPT ![w] = @ \ {k}]
      BY <2>1 DEF PgSettleRow, LiteSettleRow, Working, source
    <2>3. \/ k \in sent[w] /\ status' = [status EXCEPT ![k] = "done"]
          \/ status' = status \/ status' = [status EXCEPT ![k] = "ready"]
      BY <2>1 DEF PgSettleRow, LiteSettleRow, Queue!Ack, Queue!AckFails, Queue!Retry, Queue!Fail,
         Queue!FailFails, Queue!RetryWakes, Queue!NackFails, Queue!Unanswered, Queue!Updates
    <2>4. /\ sent' \in [Workers -> SUBSET Keys]
          /\ \A v \in Workers, j \in Keys : j \in sent'[v] => j \in sent[v]
      BY <1>0, <2>2
    <2>5. /\ status' \in [Keys -> Statuses]
          /\ \A j \in Keys : status'[j] = "done" => status[j] = "done" \/ j \in sent[w]
      BY <1>0, <2>3 DEF Statuses
    <2> QED BY <1>0, <2>2, <2>4, <2>5, SourceAlone DEF PipelineInv, Written, DoneIsWritten
  <1> QED BY <1>1, <1>2, <1>3 DEF Work

(* Every step keeps the invariant. *)
LEMMA PipelineStep ==
  ASSUME PipelineConfig, PipelineInv, [Next]_vars
  PROVE  PipelineInv'
  <1>1. CASE UNCHANGED vars
    <2>1. UNCHANGED <<source, rows, sent, status>>
      BY <1>1 DEF vars, source, queue
    <2> QED BY <2>1, SourceAlone DEF PipelineInv, Written, DoneIsWritten
  <1>2. CASE Next
    <2>1. \/ Fetch \/ Flush \/ PgRelease \/ LiteRelease \/ (Pg!Crash /\ Reading)
          \/ \E t \in Times \X Keys : Settle(t)
          \/ \E w \in Workers :
               Work(w) \/ (Queue!Crash(w) /\ Working /\ sent' = [sent EXCEPT ![w] = {}])
      BY <1>2 DEF Next, Crash
    <2> QED BY <2>1, ReaderKeeps, WorkerKeeps
  <1> QED BY <1>1, <1>2

(* What the invariant says of a state. *)
LEMMA PipelineSafe ==
  ASSUME PipelineInv
  PROVE  DoneIsWritten /\ NothingSkipped
  BY DEF PipelineInv, Written, NothingSkipped, Pg!SourceInv, Pg!Covered

(* A job is marked done only when its result is in the table, and the cursor of  *)
(* the second task never passes a result it has not handled, although results   *)
(* are rewritten by jobs that a retry or a crash of the worker repeats: for any  *)
(* jobs, times, workers and bounds, with PostgreSQL and with SQLite.             *)
THEOREM ResultsReachTheReader ==
  ASSUME PipelineConfig
  PROVE  Spec => [](DoneIsWritten /\ NothingSkipped)
  <1>1. Init => PipelineInv
    BY PipelineInit
  <1>2. PipelineInv /\ [Next]_vars => PipelineInv'
    BY PipelineStep
  <1>3. PipelineInv => DoneIsWritten /\ NothingSkipped
    BY PipelineSafe
  <1> QED BY <1>1, <1>2, <1>3, PTL DEF Spec
=============================================================================
