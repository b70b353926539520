-------------------------- MODULE IncrementalSource --------------------------
(* The incremental table source of onestep-sql (mysql/connector.py; postgres  *)
(* and sqlite hold copies of it).  Rows are read in the order of their cursor *)
(* (updated_at, id), handled concurrently, and the persisted cursor follows   *)
(* the acknowledged prefix.  The commit lock is never held across an await,   *)
(* so a step here is the code between two awaits.                             *)
EXTENDS Integers, Sequences, FiniteSets, Functions, WellFoundedInduction, TLAPS

CONSTANTS Keys, Times,       \* row keys and update times: positive integers
          Batch,             \* batch_size
          LateCommits,       \* may a row become visible behind a greater cursor?
          ReleasesUnstarted, \* do the deliveries define release_unstarted?
          StopRace,          \* may a stop arrive together with the fetched rows?
          Fatal,             \* do handlers run out of attempts?
          MaxFaults, MaxCrashes, MaxRetries, MaxStops   \* bounds

VARIABLES rows,      \* the table: update time by key, 0 when absent
          store,     \* the cursor store
          loaded, committed, fetched,
          pending, acked, retrying, terminal,
          task, prefix,    \* the commit task: its step and the tokens it saves
          fetch, result,   \* the runner's fetch: its step and the rows read
          hand,      \* tokens whose handlers run
          waiting,   \* tokens whose ack awaits the commit task
          unsaved,   \* tokens whose ack has raised, before they are retried or failed
          attempts,  \* Envelope.attempts of those and of the retried ones
          done,      \* tokens whose handlers succeeded, ever
          now,       \* tokens acknowledged in this process, by an ack that has not raised
          faults, crashes, stops
db == <<rows, store>>
cursor == <<loaded, committed, fetched>>
queue == <<pending, acked, retrying, terminal>>
flush == <<task, prefix>>
acks == <<waiting, unsaved>>
run == <<fetch, result, hand, attempts>>
hist == <<done, now>>
bounds == <<faults, crashes, stops>>
vars == <<db, cursor, queue, flush, acks, run, hist, bounds>>

\* The effective cursor ends with the key: a token is (time, key).
NoTok == <<0, 0>>
Tokens == Times \X Keys
Less(a, b) == a[1] < b[1] \/ (a[1] = b[1] /\ a[2] < b[2])
Token(k) == <<rows[k], k>>
Present == {Token(k) : k \in {j \in Keys : rows[j] # 0}}
Rising(s) == \A i, j \in DOMAIN s : i < j => Less(s[i], s[j])
\* ORDER BY the cursor LIMIT n: the first n tokens of S, in order.
FirstOf(S, n) ==
  {s \in UNION {[1..m -> S] : m \in 0..n} :
     /\ Rising(s)
     /\ \A t \in S \ Range(s) : Len(s) = n /\ \A i \in DOMAIN s : Less(s[i], t)}
None == [t \in {} |-> 0]

Init ==
  /\ rows = [k \in Keys |-> 0] /\ store = NoTok
  /\ loaded = FALSE /\ committed = NoTok /\ fetched = NoTok
  /\ pending = <<>> /\ acked = {} /\ retrying = {} /\ terminal = FALSE
  /\ task = "none" /\ prefix = <<>> /\ fetch = "idle" /\ result = <<>>
  /\ hand = {} /\ attempts = None /\ waiting = {} /\ unsaved = {} /\ done = {} /\ now = {}
  /\ faults = 0 /\ crashes = 0 /\ stops = 0

\* The application inserts or updates a row.
Write(k, c) ==
  /\ rows[k] < c
  /\ LateCommits \/ \A t \in Present \cup {store, fetched} : Less(t, <<c, k>>)
  /\ rows' = [rows EXCEPT ![k] = c]
  /\ UNCHANGED <<store, cursor, queue, flush, acks, run, hist, bounds>>

-----------------------------------------------------------------------------
(* Fetching *)

\* open: the stored cursor is loaded once per process.
Open ==
  /\ fetch = "idle" /\ ~loaded /\ loaded' = TRUE
  /\ committed' = store /\ fetched' = store
  /\ UNCHANGED <<db, queue, flush, acks, run, hist, bounds>>

\* _take_ready_retry_delivery: the first pending token that is ready again.
ReadyRetries == {i \in 1..Len(pending) :
                   \E r \in retrying : r.tok = pending[i] /\ r.ready /\ ~r.inflight}
FetchRetry ==
  /\ fetch = "idle" /\ loaded /\ ~terminal /\ ReadyRetries # {}
  /\ LET tok == pending[CHOOSE i \in ReadyRetries : \A j \in ReadyRetries : i <= j] IN
       /\ result' = <<tok>>
       /\ retrying' = {r \in retrying : r.tok # tok}
                      \cup {[tok |-> tok, ready |-> TRUE, inflight |-> TRUE]}
  /\ fetch' = "read"
  /\ UNCHANGED <<db, cursor, pending, acked, terminal, flush, acks, hand, attempts, hist, bounds>>

\* fetch: a failed row blocks the source, a retried row holds it back.
FetchBegin ==
  /\ fetch = "idle" /\ loaded /\ ~terminal /\ retrying = {}
  /\ fetch' = "query"
  /\ UNCHANGED <<db, cursor, queue, flush, acks, result, hand, attempts, hist, bounds>>

\* _fetch: the rows above what was fetched, in cursor order, up to the batch.
After == {t \in Present : Less(IF fetched # NoTok THEN fetched ELSE committed, t)}
FetchQuery ==
  /\ fetch = "query" /\ result' \in FirstOf(After, Batch) /\ fetch' = "rows"
  /\ UNCHANGED <<db, cursor, queue, flush, acks, hand, attempts, hist, bounds>>
FetchFails ==
  /\ fetch = "query" /\ faults < MaxFaults /\ faults' = faults + 1
  /\ fetch' = "idle"
  /\ UNCHANGED <<db, cursor, queue, flush, acks, result, hand, attempts, hist, crashes, stops>>

\* The rows become pending and what was fetched moves past them.
FetchReturn ==
  /\ fetch = "rows" /\ fetch' = IF result = <<>> THEN "idle" ELSE "read"
  /\ pending' = pending \o result
  /\ fetched' = IF result = <<>> THEN fetched ELSE result[Len(result)]
  /\ UNCHANGED <<db, loaded, committed, acked, retrying, terminal, flush, acks, result, hand,
                 attempts, hist, bounds>>

\* The runner starts the handlers of what fetch returned.
Start ==
  /\ fetch = "read" /\ fetch' = "idle" /\ result' = <<>>
  /\ hand' = hand \cup Range(result)
  /\ attempts' = [t \in DOMAIN attempts \cup Range(result) |->
                    IF t \in DOMAIN attempts THEN attempts[t] ELSE 0]
  /\ UNCHANGED <<db, cursor, queue, flush, acks, hist, bounds>>
\* release_token: the row may be taken again at once.
Released(toks) ==
  {r \in retrying : r.tok \notin toks}
    \cup {[tok |-> t, ready |-> TRUE, inflight |-> FALSE] : t \in toks}
\* A pause or drain found on the return of fetch releases what it fetched.
Release ==
  /\ fetch = "read" /\ stops < MaxStops /\ stops' = stops + 1
  /\ fetch' = "idle" /\ result' = <<>>
  /\ retrying' = IF ReleasesUnstarted THEN Released(Range(result)) ELSE retrying
  /\ UNCHANGED <<db, cursor, pending, acked, terminal, flush, acks, hand, attempts, hist, faults, crashes>>
\* A stop that arrives together with the fetched rows cancels the finished
\* fetch: the source says its fetch is cancel safe, and the rows are dropped.
Drop ==
  /\ StopRace /\ fetch = "read" /\ stops < MaxStops /\ stops' = stops + 1
  /\ fetch' = "idle" /\ result' = <<>>
  /\ UNCHANGED <<db, cursor, queue, flush, acks, hand, attempts, hist, faults, crashes>>

-----------------------------------------------------------------------------
(* Outcomes *)

Forget(S) == [u \in DOMAIN attempts \ S |-> attempts[u]]
Acked(t) ==
  /\ t \in hand /\ hand' = hand \ {t}
  /\ done' = done \cup {t} /\ now' = now \cup {t}
  /\ acked' = acked \cup {t}
  /\ UNCHANGED <<db, cursor, pending, retrying, terminal, prefix, unsaved, fetch, result, bounds>>
\* Mutant: the commit task is left to the next acknowledgement.
AckQuiet(t) == Acked(t) /\ task' = task /\ waiting' = waiting /\ attempts' = Forget({t})
\* ack_token: once the first pending row is acknowledged the commit task runs, and
\* the ack awaits it; until then it returns at once.
Ack(t) ==
  /\ Acked(t)
  /\ IF pending # <<>> /\ pending[1] \in acked'
     THEN /\ task' = IF task = "none" THEN "start" ELSE task
          /\ waiting' = waiting \cup {t} /\ attempts' = attempts
     ELSE task' = task /\ waiting' = waiting /\ attempts' = Forget({t})

\* retry_token: the row comes again after its delay, with one more attempt.  The
\* executor also retries, or fails, what it has acknowledged when the ack raises;
\* the row stays acknowledged.
Retry(t) ==
  /\ t \in hand \cup unsaved /\ (t \in hand => attempts[t] < MaxRetries)
  /\ hand' = hand \ {t} /\ unsaved' = unsaved \ {t}
  /\ retrying' = {r \in retrying : r.tok # t}
                 \cup {[tok |-> t, ready |-> FALSE, inflight |-> FALSE]}
  /\ attempts' = [attempts EXCEPT ![t] = @ + 1]
  /\ UNCHANGED <<db, cursor, pending, acked, terminal, flush, waiting, fetch, result, hist, bounds>>
GiveBack(t) == t \in unsaved /\ Retry(t)
Elapse(t) ==
  /\ \E r \in retrying : r.tok = t /\ ~r.ready
  /\ retrying' = {[r EXCEPT !.ready = @ \/ r.tok = t] : r \in retrying}
  /\ UNCHANGED <<db, cursor, pending, acked, terminal, flush, acks, run, hist, bounds>>

\* fail_token: the source is blocked for the life of the process.
Fail(t) ==
  /\ Fatal /\ t \in hand \cup unsaved
  /\ hand' = hand \ {t} /\ unsaved' = unsaved \ {t} /\ attempts' = Forget({t})
  /\ terminal' = TRUE
  /\ retrying' = {[r EXCEPT !.inflight = @ /\ r.tok # t] : r \in retrying}
  /\ UNCHANGED <<db, cursor, pending, acked, flush, waiting, fetch, result, hist, bounds>>

-----------------------------------------------------------------------------
(* The commit task *)

\* Mutant: every acknowledged token counts, gaps or not.
AckedAny == SelectSeq(pending, LAMBDA t : t \in acked)
\* The acknowledged tokens at the head of the pending ones.
AckedPrefix ==
  LET n == CHOOSE n \in 0..Len(pending) :
             /\ \A i \in 1..n : pending[i] \in acked
             /\ n = Len(pending) \/ pending[n + 1] \notin acked
  IN SubSeq(pending, 1, n)
\* The task goes on, or it is over and the acks that await it return.
GoesOn(more) ==
  IF more THEN task' = "start" /\ UNCHANGED <<waiting, attempts>>
          ELSE task' = "none" /\ waiting' = {} /\ attempts' = Forget(waiting)
FlushBegin ==
  /\ task = "start"
  /\ prefix' = AckedPrefix
  /\ IF AckedPrefix = <<>> THEN GoesOn(FALSE) ELSE task' = "save" /\ UNCHANGED <<waiting, attempts>>
  /\ UNCHANGED <<db, cursor, queue, unsaved, fetch, result, hand, hist, bounds>>
\* state.save commits the cursor of the last token of the prefix.
FlushSave ==
  /\ task = "save" /\ store' = prefix[Len(prefix)] /\ task' = "saved"
  /\ UNCHANGED <<rows, cursor, queue, prefix, acks, run, hist, bounds>>
\* A failed save ends the task, and every ack that awaits it raises; the cursor may
\* have been committed all the same.
SaveFails ==
  /\ task = "save" /\ faults < MaxFaults /\ faults' = faults + 1
  /\ store' \in {store, prefix[Len(prefix)]} /\ task' = "none" /\ prefix' = <<>>
  /\ waiting' = {} /\ unsaved' = unsaved \cup waiting /\ now' = now \ waiting
  /\ UNCHANGED <<rows, cursor, queue, run, done, crashes, stops>>
\* The saved tokens leave the queue; the task goes on when more is acknowledged.
FlushApply ==
  /\ task = "saved"
  /\ LET n == Len(prefix)
         rest == SubSeq(pending, n + 1, Len(pending)) IN
       /\ pending' = rest
       /\ acked' = acked \ Range(prefix)
       /\ retrying' = {r \in retrying : r.tok \notin Range(prefix)}
       /\ committed' = prefix[n]
       /\ fetched' = IF rest = <<>> THEN prefix[n] ELSE fetched
       /\ GoesOn(rest # <<>> /\ rest[1] \in acked')
  /\ prefix' = <<>>
  /\ UNCHANGED <<db, loaded, terminal, unsaved, fetch, result, hand, hist, bounds>>

\* The process dies: only the table and the cursor store stay.
Crash ==
  /\ crashes < MaxCrashes /\ crashes' = crashes + 1
  /\ loaded' = FALSE /\ committed' = NoTok /\ fetched' = NoTok
  /\ pending' = <<>> /\ acked' = {} /\ retrying' = {} /\ terminal' = FALSE
  /\ task' = "none" /\ prefix' = <<>> /\ fetch' = "idle" /\ result' = <<>>
  /\ hand' = {} /\ attempts' = None /\ waiting' = {} /\ unsaved' = {} /\ now' = {}
  /\ UNCHANGED <<db, done, faults, stops>>

Flush == FlushBegin \/ FlushSave \/ FlushApply
Fetch == Open \/ FetchRetry \/ FetchBegin \/ FetchQuery \/ FetchReturn \/ Start
Next ==
  \/ \E k \in Keys, c \in Times : Write(k, c)
  \/ Fetch \/ FetchFails \/ Release \/ Drop
  \/ \E t \in Tokens : Ack(t) \/ Retry(t) \/ Elapse(t) \/ Fail(t)
  \/ Flush \/ SaveFails \/ Crash
\* The runner polls, the event loop runs the commit task and the timers, and a
\* handler that is not retried for ever ends.
Spec == Init /\ [][Next]_vars
FairSpec == Spec /\ WF_vars(Fetch) /\ WF_vars(Flush)
                 /\ \A t \in Tokens : WF_vars(Ack(t)) /\ WF_vars(GiveBack(t)) /\ WF_vars(Elapse(t))

-----------------------------------------------------------------------------
(* Properties *)

\* The type invariant.
TypeOK ==
  /\ rows \in [Keys -> Times \cup {0}] /\ store \in Tokens \cup {NoTok}
  /\ loaded \in BOOLEAN /\ {committed, fetched} \subseteq Tokens \cup {NoTok}
  /\ Range(pending) \cup acked \cup {r.tok : r \in retrying} \subseteq Tokens
  /\ task \in {"none", "start", "save", "saved"} /\ fetch \in {"idle", "query", "rows", "read"}
  /\ hand \cup waiting \cup unsaved \subseteq Tokens \cap DOMAIN attempts

\* The persisted cursor never passes a row that no handler has succeeded on:
\* neither an out-of-order acknowledgement, nor a save that failed halfway, nor
\* a crash between the save and the queue's update skips a row.
NothingSkipped ==
  \A t \in Present : ~Less(store, t) => t \in done

\* pop order: the tokens the commit task removes are the ones it computed, so the
\* "pending cursor order changed" error of _flush_commits cannot happen.
OrderKept == task = "saved" =>
  Len(prefix) <= Len(pending) /\ \A i \in DOMAIN prefix : prefix[i] = pending[i]

\* Within one process a row is not delivered again once its ack has returned, or
\* while it is awaited, although queries, retries, failed saves and cursor commits
\* interleave: only an ack that raised brings the row back.
NoRedelivery == \A t \in hand' \ hand : t \notin now

\* The persisted cursor only moves forward.
CursorForward == store' # store => Less(store, store')

\* A row whose ack raised was saved by the ack of another one before its retry: its
\* retry is not pending, never taken, and holds back every later fetch.
Blocked == \E r \in retrying : r.tok \notin Range(pending)

\* Every version of a row is handled or replaced by a newer one, whatever fails
\* and is retried, unless the source is blocked.
EveryRowHandled ==
  \A t \in Tokens : (t \in Present) ~> (t \in done \/ t \notin Present \/ Blocked)
-----------------------------------------------------------------------------
(* Proofs: the cursor is safe for every table, batch size and bound. *)

(* Keys and times are positive, and no row becomes visible behind a greater    *)
(* cursor, which the source's documentation asks of the table.                 *)
SourceConfig ==
  Keys \subseteq Nat \ {0} /\ Times \subseteq Nat \ {0} /\ Batch \in Nat /\ ~LateCommits

(* What a cursor may be. *)
Cursors == Tokens \cup {NoTok}

Typed ==
  /\ rows \in [Keys -> Times \cup {0}]
  /\ store \in Cursors /\ committed \in Cursors /\ fetched \in Cursors
  /\ pending \in Seq(Tokens) /\ prefix \in Seq(Tokens) /\ result \in Seq(Tokens)
  /\ task \in {"none", "start", "save", "saved"} /\ fetch \in {"idle", "query", "rows", "read"}
  /\ retrying \subseteq [tok : Tokens, ready : BOOLEAN, inflight : BOOLEAN]
  /\ loaded \in BOOLEAN /\ acked \cup now \subseteq Tokens
  /\ hand \cup waiting \cup unsaved \subseteq Tokens \cap DOMAIN attempts

(* The pending tokens rise up to what was fetched; a process that has not read *)
(* its cursor has none.                                                        *)
Queued ==
  /\ Rising(pending) /\ (pending # <<>> => fetched = pending[Len(pending)])
  /\ fetched = NoTok => committed = NoTok
  /\ ~loaded => /\ pending = <<>> /\ fetch = "idle" /\ task = "none" /\ now = {}
                /\ fetched = NoTok

(* The rows a query has read are the next ones still, whatever is written. *)
Queried == fetch = "rows" =>
  /\ Rising(result)
  /\ \A t \in Range(result) : Less(fetched, t) /\ \E u \in Present : ~Less(u, t)
  /\ \A t \in Present \ Range(result) :
       Less(fetched, t) => \A u \in Range(result) : Less(u, t)

(* The tokens the runner is about to start. *)
Read == IF fetch = "read" THEN Range(result) ELSE {}

(* No known token is above what was fetched, and each is in one place: with a   *)
(* handler, acknowledged, refused by a failed save, read or waiting for a retry. *)
Apart ==
  /\ acked \subseteq done /\ waiting \subseteq now
  /\ \A t \in acked \cup hand \cup unsaved \cup now \cup Read : ~Less(fetched, t)
  /\ \A r \in retrying : ~Less(fetched, r.tok)
  /\ hand \cap unsaved = {} /\ hand \cap now = {} /\ unsaved \cap now = {}
  /\ \A t \in Read : t \notin hand \cup unsaved \cup now
  /\ \A r \in retrying : ~r.inflight => r.tok \notin hand \cup unsaved \cup now \cup Read

(* A row below what was fetched is pending or handled, and one below the       *)
(* stored cursor is handled.                                                   *)
Covered ==
  /\ \A t \in Present : ~Less(fetched, t) => t \in done \cup Range(pending)
  /\ NothingSkipped

(* The commit task saves acknowledged tokens from the head of the queue.  A    *)
(* save that failed may have stored one of them: the next one does not go back. *)
Saving ==
  /\ task \in {"save", "saved"} =>
       /\ prefix # <<>> /\ Len(prefix) <= Len(pending)
       /\ \A i \in DOMAIN prefix : prefix[i] = pending[i] /\ prefix[i] \in acked
  /\ task = "save" => ~Less(prefix[Len(prefix)], store)
  /\ task = "saved" => store = prefix[Len(prefix)]
  /\ loaded => /\ ~Less(fetched, store)
               /\ store \in Range(pending) \/ \A t \in Range(pending) : Less(store, t)
  /\ \A t \in Range(pending) : ~Less(store, t) => t \in acked

(* The inductive invariant. *)
SourceInv == Typed /\ Queued /\ Queried /\ Apart /\ Covered /\ Saving

(* Cursors are in a strict linear order, with the empty one below all tokens. *)
LEMMA CursorOrder ==
  ASSUME SourceConfig
  PROVE  /\ \A a \in Cursors : ~Less(a, a)
         /\ \A a, b, c \in Cursors : Less(a, b) /\ Less(b, c) => Less(a, c)
         /\ \A a, b \in Cursors : a = b \/ Less(a, b) \/ Less(b, a)
         /\ \A t \in Tokens : Less(NoTok, t) /\ t # NoTok
  <1>0. Keys \subseteq Nat \ {0} /\ Times \subseteq Nat \ {0}
    BY DEF SourceConfig
  <1>1. \A a \in Cursors : a[1] \in Nat /\ a[2] \in Nat /\ a = <<a[1], a[2]>>
    <2>1. \A a \in Tokens : a[1] \in Times /\ a[2] \in Keys /\ a = <<a[1], a[2]>>
      BY DEF Tokens
    <2> QED BY <1>0, <2>1 DEF Cursors, NoTok
  <1>2. \A t \in Tokens : t[1] > 0
    <2>1. \A a \in Tokens : a[1] \in Times
      BY DEF Tokens
    <2>2. \A x \in Times : x > 0
      BY <1>0
    <2> QED BY <2>1, <2>2
  <1>3. NoTok[1] = 0 /\ NoTok \in Cursors /\ Tokens \subseteq Cursors
    BY DEF NoTok, Cursors
  <1> QED BY <1>1, <1>2, <1>3 DEF Less

(* A set of natural numbers has a smallest element. *)
LEMMA LeastNumber ==
  ASSUME NEW S \in SUBSET Nat, S # {}
  PROVE  \E x \in S : \A y \in S : x <= y
  <1>1. PICK x \in S : \A y \in S : ~(<<y, x>> \in OpToRel(<, Nat))
    BY WFMin, NatLessThanWellFounded
  <1>2. \A y \in S : ~(y < x)
    BY <1>1 DEF OpToRel
  <1> QED BY <1>2

(* What a sequence holds. *)
LEMMA RangeIs ==
  ASSUME NEW S, NEW s \in Seq(S)
  PROVE  /\ \A i \in 1..Len(s) : s[i] \in Range(s)
         /\ \A t \in Range(s) : t \in S /\ \E i \in 1..Len(s) : s[i] = t
  BY DEF Range

(* A present row has a token. *)
LEMMA PresentTokens ==
  ASSUME SourceConfig, rows \in [Keys -> Times \cup {0}]
  PROVE  Present \subseteq Tokens
  BY DEF SourceConfig, Present, Token, Tokens

(* The source starts with its invariant. *)
LEMMA SourceInit ==
  ASSUME SourceConfig, Init
  PROVE  SourceInv
  <1>1. Present = {}
    BY DEF Init, Present, SourceConfig
  <1>2. Range(<<>>) = {}
    BY DEF Range
  <1>3. Typed
    <2>1. retrying = {} /\ hand = {} /\ waiting = {} /\ unsaved = {} /\ acked = {} /\ now = {} /\ loaded \in BOOLEAN
      BY DEF Init
    <2> QED BY <2>1 DEF Init, Typed, Cursors
  <1>4. Queued /\ Queried /\ Apart
    BY <1>2 DEF Init, Queued, Queried, Apart, Read, Rising
  <1>5. Covered /\ Saving
    BY <1>1, <1>2, CursorOrder DEF Init, Covered, Saving, NothingSkipped
  <1> QED
    BY <1>3, <1>4, <1>5 DEF SourceInv

(* A write adds a row above everything that was read or stored. *)
LEMMA WriteKeeps ==
  ASSUME SourceConfig, SourceInv, NEW k \in Keys, NEW c \in Times, Write(k, c)
  PROVE  SourceInv'
  <1> DEFINE T == <<c, k>>
  <1>1. T \in Tokens /\ rows' = [rows EXCEPT ![k] = c] /\ c # 0
    BY DEF Write, Tokens, SourceConfig
  <1>2. Present \subseteq Tokens
    BY PresentTokens DEF SourceInv, Typed
  <1>3. T \in Present' /\ Present' \subseteq Present \cup {T}
    BY <1>1 DEF SourceInv, Typed, Present, Token
  <1>4. \A t \in Present \cup {store, fetched} : Less(t, T)
    BY DEF Write, SourceConfig
  <1> HIDE DEF T
  <1>5. UNCHANGED <<store, cursor, queue, flush, acks, run, hist, bounds>>
    BY DEF Write
  <1>6. Typed'
    <2>1. rows' \in [Keys -> Times \cup {0}]
      BY <1>1 DEF SourceInv, Typed
    <2> QED BY <2>1, <1>5 DEF SourceInv, Typed, cursor, queue, flush, acks, run, hist
  <1>7. Queued' /\ Apart' /\ Saving'
    BY <1>5 DEF SourceInv, Queued, Apart, Read, Saving, cursor, queue, flush, acks, run, hist, Rising, Range
  <1>8. Queried'
    <2>1. SUFFICES ASSUME fetch = "rows" PROVE Queried'
      BY <1>5 DEF Queried, run
    <2>2. Range(result) \subseteq Tokens
      BY DEF SourceInv, Typed, Range
    <2>3. \A t \in Range(result) : Less(t, T)
      BY <1>1, <1>2, <1>4, <2>1, <2>2, CursorOrder DEF SourceInv, Queried, Cursors
    <2>4. \A t \in Range(result) : ~Less(T, t)
      BY <1>1, <2>2, <2>3, CursorOrder DEF Cursors
    <2>5. result' = result /\ fetched' = fetched /\ Range(result)' = Range(result)
      BY <1>5 DEF run, cursor
    <2>6. \A t \in Present' \ Range(result)' :
             Less(fetched, t) => \A u \in Range(result) : Less(u, t)
      BY <1>3, <2>1, <2>3, <2>5 DEF SourceInv, Queried
    <2>7. \A t \in Range(result) : Less(fetched, t) /\ \E u \in Present' : ~Less(u, t)
      BY <1>3, <2>1, <2>4 DEF SourceInv, Queried
    <2> QED BY <2>1, <2>5, <2>6, <2>7 DEF SourceInv, Queried, Rising
  <1>9. Covered'
    <2>1. store' = store /\ fetched' = fetched /\ done' = done /\ Range(pending)' = Range(pending)
      BY <1>5 DEF cursor, hist, queue
    <2> QED BY <1>3, <1>4, <2>1 DEF SourceInv, Covered, NothingSkipped
  <1> QED BY <1>6, <1>7, <1>8, <1>9 DEF SourceInv

(* A process reads its cursor before anything else. *)
LEMMA OpenKeeps ==
  ASSUME SourceConfig, SourceInv, Open
  PROVE  SourceInv'
  <1>1. ~loaded /\ pending = <<>> /\ fetch = "idle" /\ task = "none" /\ now = {}
    BY DEF Open, SourceInv, Queued
  <1>2. /\ UNCHANGED <<db, queue, flush, acks, run, hist, bounds>> /\ loaded' = TRUE
        /\ committed' = store /\ fetched' = store
    BY DEF Open
  <1>3. Range(pending) = {} /\ Range(pending)' = {} /\ Present' = Present
    BY <1>1, <1>2 DEF Range, queue, db, Present, Token
  <1>4. Typed'
    BY <1>2 DEF SourceInv, Typed, db, queue, flush, acks, run, hist
  <1>5. Queued' /\ Queried'
    BY <1>1, <1>2, <1>3 DEF SourceInv, Queued, Queried, Rising, db, queue, flush, run, hist
  <1>a. acked = {} /\ hand = {} /\ unsaved = {} /\ waiting = {} /\ retrying = {} /\ Read = {}
    <2>1. fetched = NoTok /\ \A t \in Tokens : Less(NoTok, t)
      BY <1>1, CursorOrder DEF SourceInv, Queued
    <2>2. \A r \in retrying : r.tok \in Tokens
      BY DEF SourceInv, Typed
    <2> QED BY <1>1, <2>1, <2>2 DEF SourceInv, Typed, Apart, Read
  <1>b. Apart'
    <2>1. UNCHANGED <<acked, hand, unsaved, waiting, retrying, now, done, fetch, result>>
      BY <1>2 DEF queue, acks, run, hist
    <2>2. Read' = {}
      BY <1>a, <2>1 DEF Read
    <2> QED BY <1>1, <1>a, <2>1, <2>2 DEF Apart
  <1>6. Covered'
    BY <1>2, <1>3 DEF SourceInv, Covered, NothingSkipped, db, hist
  <1>7. Saving'
    BY <1>1, <1>2, <1>3, CursorOrder DEF SourceInv, Typed, Saving, queue, flush, db
  <1> QED BY <1>4, <1>5, <1>b, <1>6, <1>7 DEF SourceInv

(* A process that dies forgets everything but what is stored. *)
LEMMA CrashKeeps ==
  ASSUME SourceConfig, SourceInv, Crash
  PROVE  SourceInv'
  <1>1. Range(<<>>) = {}
    BY DEF Range
  <1>2. Present' = Present /\ Present \subseteq Tokens
    BY PresentTokens DEF Crash, db, Present, Token, SourceInv, Typed
  <1>3. Typed'
    <2>1. retrying' = {} /\ hand' = {} /\ waiting' = {} /\ unsaved' = {} /\ acked' = {} /\ now' = {} /\ loaded' \in BOOLEAN
      BY DEF Crash
    <2> QED BY <2>1 DEF Crash, SourceInv, Typed, Cursors, db
  <1>4. Queued' /\ Queried' /\ Apart'
    BY <1>1 DEF Crash, Queued, Queried, Apart, Read, Rising
  <1>5. Covered'
    BY <1>1, <1>2, CursorOrder DEF Crash, Covered, NothingSkipped, SourceInv, db
  <1>6. Saving'
    BY <1>1 DEF Crash, Saving
  <1> QED BY <1>3, <1>4, <1>5, <1>6 DEF SourceInv

(* Steps that neither move the cursors nor touch the queue's order: what is    *)
(* left to show is where the tokens are.                                       *)
LEMMA OutcomeKeeps ==
  ASSUME SourceConfig, SourceInv, Typed', Apart',
         UNCHANGED <<rows, store, loaded, committed, fetched, pending, prefix>>,
         done \subseteq done', acked \subseteq acked', ~loaded => now' = {},
         task' = task \/ (task' \in {"none", "start"} /\ (task' = "start" => pending # <<>>)),
         (fetch' = fetch /\ result' = result) \/ (fetch' # "rows" /\ loaded)
  PROVE  SourceInv'
  <1>1. Present' = Present /\ Range(pending)' = Range(pending)
    BY DEF Present, Token
  <1>2. Queued'
    BY DEF SourceInv, Queued, Rising
  <1>3. Queried'
    BY <1>1 DEF SourceInv, Queried, Rising
  <1>4. Covered'
    BY <1>1 DEF SourceInv, Covered, NothingSkipped
  <1>5. Saving'
    BY <1>1 DEF SourceInv, Saving
  <1> QED BY <1>2, <1>3, <1>4, <1>5 DEF SourceInv

(* Steps of the runner: a retried token taken, a fetch begun or failed, the     *)
(* handlers started, or the rows released or dropped.                           *)
LEMMA RunnerKeeps ==
  ASSUME SourceConfig, SourceInv,
         FetchRetry \/ FetchBegin \/ FetchFails \/ Start \/ Release \/ Drop
  PROVE  SourceInv'
  <1> DEFINE same == UNCHANGED <<rows, store, loaded, committed, fetched, pending, prefix,
                                 task, done, now, acked, waiting, unsaved>>
  <1>0. \A r \in retrying : r \in [tok : Tokens, ready : BOOLEAN, inflight : BOOLEAN]
    BY DEF SourceInv, Typed
  <1>1. CASE FetchRetry
    <2> DEFINE i == CHOOSE i \in ReadyRetries : \A j \in ReadyRetries : i <= j
               tok == pending[i]
               new == {r \in retrying : r.tok # tok}
                        \cup {[tok |-> tok, ready |-> TRUE, inflight |-> TRUE]}
    <2>1. same /\ UNCHANGED <<hand, attempts>> /\ fetch' = "read" /\ result' = <<tok>>
          /\ retrying' = new /\ loaded
      BY <1>1 DEF FetchRetry, db, cursor, flush, acks, hist
    <2>2. PICK j \in ReadyRetries : \A m \in ReadyRetries : j <= m
      <3>1. ReadyRetries \in SUBSET Nat /\ ReadyRetries # {}
        BY <1>1 DEF FetchRetry, ReadyRetries
      <3> QED BY <3>1, LeastNumber
    <2>3. i \in ReadyRetries
      BY <2>2
    <2>4. PICK r \in retrying : r.tok = tok /\ ~r.inflight
      BY <2>3 DEF ReadyRetries
    <2>5. i \in 1..Len(pending)
      BY <2>3 DEF ReadyRetries
    <2>6. tok \in Tokens /\ ~Less(fetched, tok) /\ tok \notin hand \cup unsaved \cup now
      BY <1>0, <2>4, <2>5 DEF SourceInv, Apart, Typed
    <2> HIDE DEF i, tok
    <2>7. Typed'
      <3>1. [tok |-> tok, ready |-> TRUE, inflight |-> TRUE]
               \in [tok : Tokens, ready : BOOLEAN, inflight : BOOLEAN]
        BY <2>6
      <3>2. retrying' \subseteq [tok : Tokens, ready : BOOLEAN, inflight : BOOLEAN]
        BY <1>0, <2>1, <3>1
      <3> QED BY <2>1, <2>6, <3>2 DEF SourceInv, Typed
    <2>8. Apart'
      <3>1. Read' = {tok}
        BY <2>1 DEF Range, Read
      <3>2. \A x \in retrying' : (x \in retrying /\ x.tok # tok) \/ (x.tok = tok /\ x.inflight)
        BY <2>1
      <3> QED BY <2>1, <2>6, <3>1, <3>2 DEF SourceInv, Apart
    <2> QED BY <2>1, <2>7, <2>8, OutcomeKeeps DEF SourceInv, Queued
  <1>2. CASE FetchBegin
    <2>1. same /\ UNCHANGED <<hand, attempts, result, retrying>> /\ fetch' = "query" /\ loaded
      BY <1>2 DEF FetchBegin, db, cursor, flush, acks, hist, queue
    <2>2. Typed' /\ Apart'
      BY <2>1 DEF SourceInv, Typed, Apart, Read
    <2> QED BY <2>1, <2>2, OutcomeKeeps DEF SourceInv, Queued
  <1>3. CASE FetchFails
    <2>1. same /\ UNCHANGED <<hand, attempts, result, retrying>> /\ fetch' = "idle" /\ fetch # "idle"
      BY <1>3 DEF FetchFails, db, cursor, flush, acks, hist, queue
    <2>2. Typed' /\ Apart' /\ loaded
      BY <2>1 DEF SourceInv, Typed, Apart, Read, Queued
    <2> QED BY <2>1, <2>2, OutcomeKeeps DEF SourceInv, Queued
  <1>4. CASE Start
    <2>1. same /\ UNCHANGED retrying /\ fetch = "read" /\ fetch' = "idle" /\ result' = <<>>
          /\ hand' = hand \cup Range(result) /\ DOMAIN attempts' = DOMAIN attempts \cup Range(result)
      BY <1>4 DEF Start, db, cursor, flush, acks, hist, queue
    <2>2. Typed'
      <3>1. Range(result) \subseteq Tokens
        BY DEF SourceInv, Typed, Range
      <3>2. hand' \cup waiting' \cup unsaved' \subseteq Tokens \cap DOMAIN attempts'
        BY <2>1, <3>1 DEF SourceInv, Typed
      <3>3. result' \in Seq(Tokens) /\ fetch' \in {"idle", "query", "rows", "read"}
        BY <2>1
      <3> QED BY <2>1, <3>2, <3>3 DEF SourceInv, Typed
    <2>3. Apart' /\ loaded
      BY <2>1 DEF SourceInv, Apart, Read, Queued
    <2> QED BY <2>1, <2>2, <2>3, OutcomeKeeps DEF SourceInv, Queued
  <1>5. CASE Release
    <2>1. same /\ UNCHANGED <<hand, attempts>> /\ fetch = "read" /\ fetch' = "idle" /\ result' = <<>>
          /\ (retrying' = Released(Range(result)) \/ retrying' = retrying)
      BY <1>5 DEF Release, db, cursor, flush, acks, hist
    <2>2. \A x \in retrying' : \/ x \in retrying
                               \/ /\ x \in [tok : Tokens, ready : BOOLEAN, inflight : BOOLEAN]
                                  /\ x.tok \in Range(result)
      <3>1. Range(result) \subseteq Tokens
        BY DEF SourceInv, Typed, Range
      <3>2. \A x \in Released(Range(result)) :
              \/ x \in retrying
              \/ \E t \in Range(result) : x = [tok |-> t, ready |-> TRUE, inflight |-> FALSE]
        BY DEF Released
      <3>3. \A t \in Range(result) : /\ [tok |-> t, ready |-> TRUE, inflight |-> FALSE].tok = t
                                     /\ [tok |-> t, ready |-> TRUE, inflight |-> FALSE]
                                          \in [tok : Tokens, ready : BOOLEAN, inflight : BOOLEAN]
        BY <3>1
      <3>4. \A x \in retrying' : \/ x \in retrying
              \/ \E t \in Range(result) : x = [tok |-> t, ready |-> TRUE, inflight |-> FALSE]
        BY <2>1, <3>2
      <3>6. TAKE x \in retrying'
      <3>7. CASE x \in retrying
        BY <3>7
      <3>8. CASE \E t \in Range(result) : x = [tok |-> t, ready |-> TRUE, inflight |-> FALSE]
        <4>1. PICK t \in Range(result) : x = [tok |-> t, ready |-> TRUE, inflight |-> FALSE]
          BY <3>8
        <4> QED BY <3>3, <4>1
      <3> QED BY <3>4, <3>7, <3>8
    <2>3. Typed'
      BY <1>0, <2>1, <2>2 DEF SourceInv, Typed
    <2>4. Apart' /\ loaded
      BY <2>1, <2>2 DEF SourceInv, Apart, Read, Queued
    <2> QED BY <2>1, <2>3, <2>4, OutcomeKeeps DEF SourceInv, Queued
  <1>6. CASE Drop
    <2>1. same /\ UNCHANGED <<hand, attempts, retrying>> /\ fetch = "read" /\ fetch' = "idle" /\ result' = <<>>
      BY <1>6 DEF Drop, db, cursor, flush, acks, hist, queue
    <2>2. Typed'
      BY <2>1 DEF SourceInv, Typed
    <2>3. Apart' /\ loaded
      BY <2>1 DEF SourceInv, Apart, Read, Queued
    <2> QED BY <2>1, <2>2, <2>3, OutcomeKeeps DEF SourceInv, Queued
  <1> QED BY <1>1, <1>2, <1>3, <1>4, <1>5, <1>6

(* A handler ends, or a delay passes. *)
LEMMA HandlerKeeps ==
  ASSUME SourceConfig, SourceInv, NEW t \in Tokens, Ack(t) \/ Retry(t) \/ Elapse(t) \/ Fail(t)
  PROVE  SourceInv'
  <1> DEFINE same == UNCHANGED <<rows, store, loaded, committed, fetched, pending, prefix, fetch, result>>
             State == [tok : Tokens, ready : BOOLEAN, inflight : BOOLEAN]
  <1>0. \A r \in retrying : r \in State
    BY DEF SourceInv, Typed
  <1>1. CASE Ack(t)
    <2>1. same /\ UNCHANGED <<retrying, unsaved>> /\ t \in hand /\ hand' = hand \ {t}
          /\ done' = done \cup {t} /\ now' = now \cup {t} /\ acked' = acked \cup {t}
          /\ (task' = task \/ (task' = "start" /\ pending # <<>>))
      BY <1>1 DEF Ack, Acked, db, cursor
    <2>a. \/ waiting' = waiting /\ DOMAIN attempts' = DOMAIN attempts \ {t}
          \/ waiting' = waiting \cup {t} /\ attempts' = attempts
      BY <1>1 DEF Ack, Forget
    <2>b. t \notin unsaved /\ t \notin now /\ t \notin waiting /\ ~Less(fetched, t)
      BY <2>1 DEF SourceInv, Apart
    <2>2. Typed'
      BY <2>1, <2>a, <2>b DEF SourceInv, Typed
    <2>3. loaded
      <3>1. fetched # NoTok
        BY <2>b, CursorOrder
      <3> QED BY <3>1 DEF SourceInv, Queued
    <2>5. Apart'
      BY <2>1, <2>a, <2>b DEF SourceInv, Apart, Read
    <2> QED BY <2>1, <2>2, <2>3, <2>5, OutcomeKeeps
  <1>2. CASE Retry(t)
    <2> DEFINE x == [tok |-> t, ready |-> FALSE, inflight |-> FALSE]
    <2>1. same /\ UNCHANGED <<done, now, acked, task, waiting>> /\ t \in hand \cup unsaved
          /\ hand' = hand \ {t} /\ unsaved' = unsaved \ {t} /\ DOMAIN attempts' = DOMAIN attempts
          /\ retrying' = {r \in retrying : r.tok # t} \cup {x}
      BY <1>2 DEF Retry, db, cursor, flush, hist
    <2>2. x \in State /\ x.tok = t
      OBVIOUS
    <2> HIDE DEF x
    <2>3. Typed'
      BY <1>0, <2>1, <2>2 DEF SourceInv, Typed
    <2>4. Apart'
      BY <2>1, <2>2 DEF SourceInv, Apart, Read
    <2> QED BY <2>1, <2>3, <2>4, OutcomeKeeps DEF SourceInv, Queued
  <1>3. CASE Elapse(t)
    <2>1. same /\ UNCHANGED <<done, now, acked, task, hand, attempts, waiting, unsaved>>
          /\ retrying' = {[r EXCEPT !.ready = @ \/ r.tok = t] : r \in retrying}
      BY <1>3 DEF Elapse, db, cursor, flush, acks, hist, run
    <2>2. \A y \in retrying' : y \in State /\ \E r \in retrying : y.tok = r.tok /\ y.inflight = r.inflight
      BY <1>0, <2>1
    <2>3. Typed'
      BY <2>1, <2>2 DEF SourceInv, Typed
    <2>4. Apart'
      BY <2>1, <2>2 DEF SourceInv, Apart, Read
    <2> QED BY <2>1, <2>3, <2>4, OutcomeKeeps DEF SourceInv, Queued
  <1>4. CASE Fail(t)
    <2>1. same /\ UNCHANGED <<done, now, acked, task, waiting>> /\ t \in hand \cup unsaved
          /\ hand' = hand \ {t} /\ unsaved' = unsaved \ {t} /\ DOMAIN attempts' = DOMAIN attempts \ {t}
          /\ retrying' = {[r EXCEPT !.inflight = @ /\ r.tok # t] : r \in retrying}
      BY <1>4 DEF Fail, db, cursor, flush, hist, Forget
    <2>2. \A y \in retrying' : y \in State /\ \E r \in retrying :
             y.tok = r.tok /\ (~y.inflight => ~r.inflight \/ r.tok = t)
      BY <1>0, <2>1
    <2>a. t \notin waiting
      BY <2>1 DEF SourceInv, Apart
    <2>3. Typed'
      BY <2>1, <2>2, <2>a DEF SourceInv, Typed
    <2>4. Apart'
      BY <2>1, <2>2 DEF SourceInv, Apart, Read
    <2> QED BY <2>1, <2>3, <2>4, OutcomeKeeps DEF SourceInv, Queued
  <1> QED BY <1>1, <1>2, <1>3, <1>4

(* The acknowledged head of the queue is as long as it can be. *)
LEMMA HeadAcked ==
  ASSUME pending \in Seq(Tokens)
  PROVE  \E n \in 0..Len(pending) :
           /\ AckedPrefix = SubSeq(pending, 1, n) /\ \A i \in 1..n : pending[i] \in acked
           /\ n = Len(pending) \/ pending[n + 1] \notin acked
  <1> DEFINE stop == {n \in 0..Len(pending) : n = Len(pending) \/ pending[n + 1] \notin acked}
             good(n) == /\ \A i \in 1..n : pending[i] \in acked
                        /\ n = Len(pending) \/ pending[n + 1] \notin acked
  <1>1. Len(pending) \in Nat
    OBVIOUS
  <1>2. stop \in SUBSET Nat /\ Len(pending) \in stop
    BY <1>1
  <1>3. PICK n \in stop : \A m \in stop : n <= m
    BY <1>2, LeastNumber
  <1>4. n \in 0..Len(pending) /\ (n = Len(pending) \/ pending[n + 1] \notin acked)
    BY <1>3
  <1>5. ASSUME NEW i \in 1..n PROVE pending[i] \in acked
    <2>1. i - 1 \in 0..Len(pending) /\ i - 1 # Len(pending) /\ ~(n <= i - 1) /\ (i - 1) + 1 = i
      BY <1>1, <1>4
    <2>2. i - 1 \notin stop
      BY <1>3, <2>1
    <2> QED BY <2>1, <2>2
  <1>6. \E m \in 0..Len(pending) : good(m)
    BY <1>4, <1>5
  <1>7. PICK m \in 0..Len(pending) : good(m) /\ m = CHOOSE q \in 0..Len(pending) : good(q)
    BY <1>6
  <1>8. AckedPrefix = SubSeq(pending, 1, m)
    BY <1>7 DEF AckedPrefix
  <1> QED BY <1>7, <1>8

(* A query reads the rows after what was fetched. *)
LEMMA QueryKeeps ==
  ASSUME SourceConfig, SourceInv, FetchQuery
  PROVE  SourceInv'
  <1>1. /\ fetch = "query" /\ fetch' = "rows" /\ result' \in FirstOf(After, Batch)
        /\ UNCHANGED <<rows, store, loaded, committed, fetched, pending, acked, retrying, terminal,
                       task, prefix, waiting, unsaved, hand, attempts, done, now>>
    BY DEF FetchQuery, db, cursor, queue, flush, acks, hist
  <1>2. After = {t \in Present : Less(fetched, t)}
    BY DEF After, SourceInv, Queued
  <1>3. Present \subseteq Tokens /\ Present' = Present
    BY <1>1, PresentTokens DEF SourceInv, Typed, Present, Token
  <1>4. PICK m \in 0..Batch : result' \in [1..m -> After]
    BY <1>1 DEF FirstOf
  <1>5. m \in Nat /\ result' \in Seq(Tokens) /\ Range(result') \subseteq After
    <2>1. m \in Nat
      BY DEF SourceConfig
    <2> QED BY <1>2, <1>3, <1>4, <2>1 DEF Range
  <1>6. Typed'
    BY <1>1, <1>5 DEF SourceInv, Typed
  <1>7. loaded
    BY <1>1 DEF SourceInv, Queued
  <1>8. Queried'
    <2>1. Rising(result') /\ \A t \in After \ Range(result') : \A i \in DOMAIN result' : Less(result'[i], t)
      BY <1>1 DEF FirstOf
    <2>2. \A t \in After \ Range(result') : \A u \in Range(result') : Less(u, t)
      BY <2>1 DEF Range
    <2>3. \A t \in Range(result') : Less(fetched, t) /\ ~Less(t, t) /\ t \in Present
      BY <1>2, <1>3, <1>5, CursorOrder DEF Cursors
    <2> QED BY <1>1, <1>2, <1>3, <2>1, <2>2, <2>3 DEF Queried, Rising
  <1>9. Queued' /\ Apart'
    BY <1>1, <1>7 DEF SourceInv, Queued, Apart, Read, Rising
  <1>10. Covered' /\ Saving'
    BY <1>1, <1>3 DEF SourceInv, Covered, NothingSkipped, Saving
  <1> QED BY <1>6, <1>8, <1>9, <1>10 DEF SourceInv

(* A pending token is not above what was fetched. *)
LEMMA PendingFetched ==
  ASSUME SourceConfig, SourceInv, NEW t \in Range(pending)
  PROVE  ~Less(fetched, t) /\ t \in Tokens
  <1>1. PICK i \in 1..Len(pending) : pending[i] = t
    BY DEF Range, SourceInv, Typed
  <1>2. i = Len(pending) \/ Less(t, pending[Len(pending)])
    BY <1>1 DEF SourceInv, Queued, Rising, Typed
  <1>3. fetched = pending[Len(pending)]
    BY <1>1 DEF SourceInv, Queued, Typed
  <1> QED BY <1>1, <1>2, <1>3, CursorOrder DEF SourceInv, Typed, Cursors

(* The rows of a query become pending. *)
LEMMA ReturnKeeps ==
  ASSUME SourceConfig, SourceInv, FetchReturn
  PROVE  SourceInv'
  <1>1. /\ fetch = "rows" /\ pending' = pending \o result
        /\ fetched' = (IF result = <<>> THEN fetched ELSE result[Len(result)])
        /\ fetch' = (IF result = <<>> THEN "idle" ELSE "read")
        /\ UNCHANGED <<rows, store, loaded, committed, acked, retrying, terminal, task, prefix,
                       result, waiting, unsaved, hand, attempts, done, now>>
    BY DEF FetchReturn, db, flush, acks, hist
  <1>2. loaded /\ pending \in Seq(Tokens) /\ result \in Seq(Tokens)
    BY <1>1 DEF SourceInv, Queued, Typed
  <1>3. Range(pending') = Range(pending) \cup Range(result)
    <2>1. Len(pending') = Len(pending) + Len(result)
      BY <1>1, <1>2
    <2>2. \A i \in 1..Len(pending) : pending'[i] = pending[i]
      BY <1>1, <1>2
    <2>3. \A i \in 1..Len(result) : pending'[Len(pending) + i] = result[i] /\ Len(pending) + i \in 1..Len(pending')
      BY <1>1, <1>2, <2>1
    <2>4. \A i \in 1..Len(pending') : i \in 1..Len(pending) \/ \E j \in 1..Len(result) : i = Len(pending) + j
      <3>1. ASSUME NEW i \in 1..Len(pending'), i \notin 1..Len(pending)
            PROVE  i - Len(pending) \in 1..Len(result) /\ i = Len(pending) + (i - Len(pending))
        BY <1>2, <2>1, <3>1
      <3> QED BY <3>1
    <2>5. pending' \in Seq(Tokens)
      BY <1>1, <1>2
    <2>6. 1..Len(pending) \subseteq 1..Len(pending')
      BY <1>2, <2>1
    <2>7. \A t \in Range(pending') : t \in Range(pending) \cup Range(result)
      <3>1. SUFFICES ASSUME NEW i \in 1..Len(pending') PROVE pending'[i] \in Range(pending) \cup Range(result)
        BY <2>5, RangeIs
      <3>2. CASE i \in 1..Len(pending)
        BY <1>2, <2>2, <3>2, RangeIs
      <3>3. CASE \E j \in 1..Len(result) : i = Len(pending) + j
        <4>1. PICK j \in 1..Len(result) : i = Len(pending) + j
          BY <3>3
        <4>2. pending'[i] = result[j]
          BY <2>3, <4>1
        <4> QED BY <1>2, <4>2, RangeIs
      <3> QED BY <2>4, <3>2, <3>3
    <2>8. \A t \in Range(pending) : t \in Range(pending')
      BY <1>2, <2>2, <2>5, <2>6, RangeIs
    <2>9. \A t \in Range(result) : t \in Range(pending')
      <3>1. TAKE t \in Range(result)
      <3>2. PICK j \in 1..Len(result) : result[j] = t
        BY <1>2, RangeIs
      <3>3. Len(pending) + j \in 1..Len(pending') /\ pending'[Len(pending) + j] = t
        BY <2>3, <3>2
      <3> QED BY <2>5, <3>3, RangeIs
    <2> QED BY <2>7, <2>8, <2>9
  <1>4. \A t \in Range(result) : t \in Tokens /\ Less(fetched, t)
    BY <1>1, <1>2 DEF SourceInv, Queried, Range
  <1>5. \A t \in Range(pending) : ~Less(fetched, t) /\ t \in Tokens
    BY PendingFetched
  <1>6. \A t \in Range(pending), u \in Range(result) : Less(t, u)
    BY <1>4, <1>5, CursorOrder DEF SourceInv, Typed, Cursors
  <1>7. CASE result = <<>>
    <2>1. pending' = pending /\ fetched' = fetched /\ fetch' = "idle"
      BY <1>1, <1>2, <1>7
    <2>2. Typed' /\ Apart'
      BY <1>1, <2>1 DEF SourceInv, Typed, Apart, Read
    <2> QED BY <1>1, <1>2, <2>1, <2>2, OutcomeKeeps
  <1>8. CASE result # <<>>
    <2> DEFINE last == result[Len(result)]
    <2>1. fetched' = last /\ last \in Range(result) /\ fetch' = "read"
          /\ \A u \in Range(result) : u = last \/ Less(u, last)
      <3>1. \A i \in 1..Len(result) : i = Len(result) \/ Less(result[i], result[Len(result)])
        BY <1>1, <1>2 DEF SourceInv, Queried, Rising
      <3>2. Len(result) \in 1..Len(result)
        BY <1>2, <1>8
      <3> QED BY <1>1, <1>2, <1>8, <3>1, <3>2, RangeIs
    <2>2. last \in Tokens /\ Less(fetched, last)
      BY <1>4, <2>1
    <2>3. pending' \in Seq(Tokens) /\ pending' # <<>> /\ pending'[Len(pending')] = last
      BY <1>1, <1>2, <1>8
    <2> HIDE DEF last
    <2>4. Typed'
      BY <1>1, <2>1, <2>2, <2>3 DEF SourceInv, Typed, Cursors
    <2>5. Rising(pending')
      <3>1. SUFFICES ASSUME NEW i \in 1..Len(pending'), NEW j \in 1..Len(pending'), i < j
                     PROVE  Less(pending'[i], pending'[j])
        BY <2>3 DEF Rising
      <3>2. Len(pending') = Len(pending) + Len(result)
        BY <1>1, <1>2
      <3>3. CASE j <= Len(pending)
        <4>1. pending'[i] = pending[i] /\ pending'[j] = pending[j]
          BY <1>1, <1>2, <3>1, <3>3
        <4> QED BY <1>2, <3>1, <3>3, <4>1 DEF SourceInv, Queued, Rising
      <3>4. CASE i > Len(pending)
        <4>1. /\ pending'[i] = result[i - Len(pending)] /\ pending'[j] = result[j - Len(pending)]
              /\ i - Len(pending) \in 1..Len(result) /\ j - Len(pending) \in 1..Len(result)
          BY <1>1, <1>2, <3>1, <3>2, <3>4
        <4>2. i - Len(pending) < j - Len(pending)
          BY <1>2, <3>1
        <4> QED BY <1>1, <1>2, <4>1, <4>2 DEF SourceInv, Queried, Rising
      <3>5. CASE i <= Len(pending) /\ j > Len(pending)
        <4>1. /\ pending'[i] = pending[i] /\ pending'[j] = result[j - Len(pending)]
              /\ i \in 1..Len(pending) /\ j - Len(pending) \in 1..Len(result)
          BY <1>1, <1>2, <3>1, <3>2, <3>5
        <4> QED BY <1>2, <1>6, <4>1 DEF Range
      <3> QED BY <1>2, <3>1, <3>3, <3>4, <3>5
    <2>6. Queued' /\ Queried'
      BY <1>1, <1>2, <2>1, <2>2, <2>3, <2>5, CursorOrder DEF SourceInv, Queued, Queried
    <2>7. \A t \in Cursors : ~Less(fetched, t) => ~Less(last, t)
      BY <2>2, CursorOrder DEF SourceInv, Typed, Cursors
    <2>8. \A t \in Range(result) : /\ t \notin acked \cup hand \cup unsaved \cup now
                                   /\ \A x \in retrying : x.tok # t
      BY <1>4 DEF SourceInv, Apart
    <2>9. Apart'
      <3>1. \A t \in acked \cup hand \cup unsaved \cup now : ~Less(fetched', t)
        BY <2>1, <2>7 DEF SourceInv, Apart, Typed, Cursors
      <3>2. Read' = Range(result)
        BY <1>1, <2>1 DEF Read
      <3>3. \A t \in Range(result) : ~Less(fetched', t)
        BY <1>4, <2>1, <2>2, CursorOrder DEF Cursors
      <3>4. \A x \in retrying : ~Less(fetched', x.tok)
        <4>1. \A x \in retrying : x.tok \in Cursors /\ ~Less(fetched, x.tok)
          BY DEF SourceInv, Apart, Typed, Cursors
        <4> QED BY <2>1, <2>7, <4>1
      <3> QED BY <1>1, <2>8, <3>1, <3>2, <3>3, <3>4 DEF SourceInv, Apart
    <2>10. Covered'
      <3>1. Present' = Present /\ Present \subseteq Tokens
        BY <1>1, PresentTokens DEF SourceInv, Typed, Present, Token
      <3>2. ASSUME NEW t \in Present, ~Less(last, t) PROVE t \in done \cup Range(pending')
        BY <1>1, <1>3, <2>1, <3>1, <3>2 DEF SourceInv, Covered, Queried
      <3> QED BY <1>1, <2>1, <3>1, <3>2 DEF SourceInv, Covered, NothingSkipped
    <2>11. Saving'
      <3>1. store \in Cursors /\ ~Less(fetched, store)
        BY <1>2 DEF SourceInv, Typed, Saving
      <3>2. \A t \in Range(result) : Less(store, t)
        BY <1>4, <3>1, CursorOrder DEF SourceInv, Typed, Cursors
      <3>3. ~Less(fetched', store)
        BY <2>1, <2>7, <3>1
      <3>4. store' \in Range(pending') \/ \A t \in Range(pending') : Less(store', t)
        BY <1>1, <1>2, <1>3, <3>2 DEF SourceInv, Saving
      <3>5. Len(pending) <= Len(pending') /\ \A i \in 1..Len(pending) : pending'[i] = pending[i]
        BY <1>1, <1>2
      <3>6. task \in {"save", "saved"} =>
               /\ prefix # <<>> /\ Len(prefix) <= Len(pending')
               /\ \A i \in DOMAIN prefix : prefix[i] = pending'[i] /\ prefix[i] \in acked
        <4>1. prefix \in Seq(Tokens)
          BY DEF SourceInv, Typed
        <4> QED BY <1>2, <2>3, <3>5, <4>1 DEF SourceInv, Saving
      <3> QED BY <1>1, <1>3, <3>2, <3>3, <3>4, <3>6 DEF SourceInv, Saving
    <2> QED BY <2>4, <2>6, <2>9, <2>10, <2>11 DEF SourceInv
  <1> QED BY <1>7, <1>8

(* The commit task takes the acknowledged head of the queue, which reaches as  *)
(* far as anything that was stored.                                            *)
LEMMA BeginKeeps ==
  ASSUME SourceConfig, SourceInv, FlushBegin
  PROVE  SourceInv'
  <1>1. /\ task = "start" /\ prefix' = AckedPrefix
        /\ task' = (IF AckedPrefix = <<>> THEN "none" ELSE "save")
        /\ UNCHANGED <<rows, store, loaded, committed, fetched, pending, acked, retrying, terminal,
                       unsaved, fetch, result, hand, done, now>>
    BY DEF FlushBegin, GoesOn, db, cursor, queue, hist
  <1>a. \/ UNCHANGED <<waiting, attempts>>
        \/ waiting' = {} /\ DOMAIN attempts' = DOMAIN attempts \ waiting
    BY DEF FlushBegin, GoesOn, Forget
  <1>2. pending \in Seq(Tokens) /\ store \in Cursors /\ loaded
    BY <1>1 DEF SourceInv, Typed, Queued
  <1>3. PICK n \in 0..Len(pending) :
           /\ AckedPrefix = SubSeq(pending, 1, n) /\ \A i \in 1..n : pending[i] \in acked
           /\ n = Len(pending) \/ pending[n + 1] \notin acked
    BY <1>2, HeadAcked
  <1>4. prefix' \in Seq(Tokens) /\ Len(prefix') = n /\ \A i \in 1..n : prefix'[i] = pending[i]
    BY <1>1, <1>2, <1>3
  <1>b. waiting \cap (hand \cup unsaved) = {}
    BY DEF SourceInv, Apart
  <1>5. Typed'
    <2>1. hand' \cup waiting' \cup unsaved' \subseteq Tokens \cap DOMAIN attempts'
      BY <1>1, <1>a, <1>b DEF SourceInv, Typed
    <2> QED BY <1>1, <1>4, <2>1 DEF SourceInv, Typed
  <1>6. Present' = Present /\ Range(pending)' = Range(pending)
    BY <1>1 DEF Present, Token
  <1>7. Queued' /\ Queried' /\ Apart' /\ Covered'
    BY <1>1, <1>a, <1>2, <1>6 DEF SourceInv, Queued, Queried, Apart, Read, Covered, NothingSkipped, Rising
  <1>8. ASSUME n # 0 PROVE ~Less(pending[n], store)
    <2>1. n \in 1..Len(pending) /\ pending[n] \in Tokens /\ pending[n] \in Range(pending)
      BY <1>2, <1>8, RangeIs
    <2>2. CASE \A t \in Range(pending) : Less(store, t)
      BY <1>2, <2>1, <2>2, CursorOrder DEF Cursors
    <2>3. CASE store \in Range(pending)
      <3>1. PICK m \in 1..Len(pending) : pending[m] = store
        BY <1>2, <2>3, RangeIs
      <3>2. SUFFICES ASSUME Less(pending[n], store) PROVE FALSE
        OBVIOUS
      <3>3. m > n
        <4>1. SUFFICES ASSUME m <= n PROVE FALSE
          BY <1>2
        <4>2. m = n \/ Less(pending[m], pending[n])
          BY <1>2, <2>1, <3>1, <4>1 DEF SourceInv, Queued, Rising
        <4> QED BY <1>2, <2>1, <3>1, <3>2, <4>2, CursorOrder DEF Cursors
      <3>4. n + 1 \in 1..Len(pending) /\ (n + 1 = m \/ n + 1 < m)
        BY <1>2, <3>1, <3>3
      <3>5. n + 1 = m \/ Less(pending[n + 1], pending[m])
        BY <1>2, <3>1, <3>4 DEF SourceInv, Queued, Rising
      <3>6. pending[n + 1] \in Tokens /\ pending[n + 1] \in Range(pending)
        BY <1>2, <3>4, RangeIs
      <3>7. ~Less(store, pending[n + 1])
        BY <1>2, <3>1, <3>5, <3>6, CursorOrder DEF Cursors
      <3>8. pending[n + 1] \in acked
        BY <3>6, <3>7 DEF SourceInv, Saving
      <3> QED BY <1>2, <1>3, <3>3, <3>4, <3>8
    <2> QED BY <1>2, <2>2, <2>3 DEF SourceInv, Saving
  <1>9. Saving'
    <2>1. n = 0 => AckedPrefix = <<>>
      BY <1>1, <1>4
    <2>2. task' = "save" => n # 0 /\ prefix' # <<>> /\ prefix'[Len(prefix')] = pending[n]
      BY <1>1, <1>4, <2>1
    <2>3. \A i \in DOMAIN prefix' : prefix'[i] = pending[i] /\ prefix'[i] \in acked
      BY <1>3, <1>4
    <2> QED BY <1>1, <1>4, <1>6, <1>8, <2>2, <2>3 DEF SourceInv, Saving
  <1> QED BY <1>5, <1>7, <1>9 DEF SourceInv

(* What is stored next is acknowledged, with all that was fetched before it,   *)
(* and does not go back.                                                       *)
LEMMA StoreFollows ==
  ASSUME SourceConfig, SourceInv, task \in {"save", "saved"}
  PROVE  LET last == prefix[Len(prefix)] IN
         /\ last \in Range(pending) /\ last \in Tokens
         /\ \A t \in Range(pending) : ~Less(last, t) => t \in Range(prefix) /\ t \in acked
         /\ \A t \in Range(prefix) : t \in acked /\ t \in Range(pending) /\ ~Less(last, t)
         /\ \A t \in Present : ~Less(last, t) => t \in done
  <1> DEFINE n == Len(prefix)
             last == prefix[n]
  <1>1. pending \in Seq(Tokens) /\ prefix \in Seq(Tokens)
    BY DEF SourceInv, Typed
  <1>2. n \in 1..Len(pending) /\ n \in 1..n /\ \A i \in 1..n : prefix[i] = pending[i] /\ prefix[i] \in acked
    BY <1>1 DEF SourceInv, Saving
  <1>3. last = pending[n] /\ last \in Range(pending) /\ last \in Tokens
    BY <1>1, <1>2, RangeIs
  <1>4. \A i \in 1..n : i \in 1..Len(pending) /\ (i = n \/ Less(pending[i], pending[n]))
    BY <1>1, <1>2 DEF SourceInv, Queued, Rising
  <1> HIDE DEF n, last
  <1>5. ASSUME NEW t \in Range(pending), ~Less(last, t) PROVE t \in Range(prefix) /\ t \in acked
    <2>1. PICK i \in 1..Len(pending) : pending[i] = t
      BY <1>1, RangeIs
    <2>2. i <= n
      <3>1. n < i => Less(pending[n], pending[i])
        BY <1>1, <1>2, <2>1 DEF SourceInv, Queued, Rising
      <3> QED BY <1>2, <1>3, <1>5, <2>1, <3>1
    <2>3. i \in 1..n
      BY <1>2, <2>1, <2>2
    <2> QED BY <1>1, <1>2, <2>1, <2>3, RangeIs DEF n
  <1>6. ASSUME NEW t \in Range(prefix) PROVE t \in acked /\ t \in Range(pending) /\ ~Less(last, t)
    <2>1. PICK i \in 1..n : prefix[i] = t
      BY <1>1, RangeIs DEF n
    <2>2. t \in acked /\ t = pending[i] /\ t \in Range(pending) /\ t \in Tokens
      BY <1>1, <1>2, <1>4, <2>1, RangeIs
    <2> QED BY <1>3, <1>4, <2>1, <2>2, CursorOrder DEF Cursors
  <1>7. ASSUME NEW t \in Present, ~Less(last, t) PROVE t \in done
    <2>1. t \in Tokens /\ ~Less(fetched, last)
      BY <1>3, PresentTokens, PendingFetched DEF SourceInv, Typed
    <2>2. ~Less(fetched, t)
      BY <1>3, <1>7, <2>1, CursorOrder DEF SourceInv, Typed, Cursors
    <2>3. t \in done \cup Range(pending)
      BY <2>2 DEF SourceInv, Covered
    <2> QED BY <1>5, <1>7, <2>3 DEF SourceInv, Apart
  <1> QED BY <1>3, <1>5, <1>6, <1>7 DEF n, last

(* The cursor is saved, or the save fails with or without effect. *)
LEMMA SaveKeeps ==
  ASSUME SourceConfig, SourceInv, FlushSave \/ SaveFails
  PROVE  SourceInv'
  <1> DEFINE last == prefix[Len(prefix)]
  <1>1. /\ task = "save" /\ store' \in {store, last}
        /\ \/ task' = "saved" /\ store' = last /\ prefix' = prefix
           \/ task' = "none" /\ prefix' = <<>>
        /\ UNCHANGED <<rows, loaded, committed, fetched, pending, acked, retrying, terminal,
                       fetch, result, hand, attempts, done>>
    BY DEF FlushSave, SaveFails, cursor, queue, run, hist
  <1>a. \/ UNCHANGED <<waiting, unsaved, now>>
        \/ waiting' = {} /\ unsaved' = unsaved \cup waiting /\ now' = now \ waiting
    BY DEF FlushSave, SaveFails, acks, hist
  <1>2. /\ last \in Range(pending) /\ last \in Tokens
        /\ \A t \in Range(pending) : ~Less(last, t) => t \in acked
        /\ \A t \in Present : ~Less(last, t) => t \in done
    BY <1>1, StoreFollows
  <1>3. ~Less(fetched, last)
    BY <1>2, PendingFetched
  <1>4. loaded
    BY <1>1 DEF SourceInv, Queued
  <1>5. Typed'
    <2>1. store' \in Cursors
      BY <1>1, <1>2 DEF SourceInv, Typed, Cursors
    <2>2. prefix' = prefix \/ prefix' = <<>>
      BY <1>1
    <2>3. prefix' \in Seq(Tokens)
      <3>1. prefix \in Seq(Tokens) /\ <<>> \in Seq(Tokens)
        BY DEF SourceInv, Typed
      <3> QED BY <2>2, <3>1
    <2>4. /\ acked \cup now' \subseteq Tokens
          /\ hand \cup waiting' \cup unsaved' \subseteq Tokens \cap DOMAIN attempts
      BY <1>a DEF SourceInv, Typed
    <2> QED BY <1>1, <2>1, <2>3, <2>4 DEF SourceInv, Typed
  <1> HIDE DEF last
  <1>6. Present' = Present /\ Range(pending)' = Range(pending)
    BY <1>1 DEF Present, Token
  <1>7. Queued' /\ Queried'
    BY <1>1, <1>4, <1>6 DEF SourceInv, Queued, Queried, Rising
  <1>b. Apart'
    <2>1. Read' = Read
      BY <1>1 DEF Read
    <2> QED BY <1>1, <1>a, <2>1 DEF SourceInv, Apart
  <1>8. Covered'
    BY <1>1, <1>2, <1>6 DEF SourceInv, Covered, NothingSkipped
  <1>9. Saving'
    BY <1>1, <1>2, <1>3, <1>6 DEF SourceInv, Saving, last
  <1> QED BY <1>5, <1>7, <1>b, <1>8, <1>9 DEF SourceInv

(* The saved tokens leave the queue. *)
LEMMA ApplyKeeps ==
  ASSUME SourceConfig, SourceInv, FlushApply
  PROVE  SourceInv'
  <1> DEFINE n == Len(prefix)
             rest == SubSeq(pending, n + 1, Len(pending))
             last == prefix[n]
  <1>1. /\ task = "saved" /\ pending' = rest /\ acked' = acked \ Range(prefix)
        /\ retrying' = {r \in retrying : r.tok \notin Range(prefix)}
        /\ committed' = last /\ fetched' = (IF rest = <<>> THEN last ELSE fetched)
        /\ task' \in {"start", "none"} /\ prefix' = <<>>
        /\ UNCHANGED <<rows, store, loaded, terminal, unsaved, fetch, result, hand, done, now>>
    BY DEF FlushApply, GoesOn, db, hist
  <1>a. \/ UNCHANGED <<waiting, attempts>>
        \/ waiting' = {} /\ DOMAIN attempts' = DOMAIN attempts \ waiting
    BY DEF FlushApply, GoesOn, Forget
  <1>b. waiting \cap (hand \cup unsaved) = {}
    BY DEF SourceInv, Apart
  <1>2. pending \in Seq(Tokens) /\ prefix \in Seq(Tokens)
    BY DEF SourceInv, Typed
  <1>3. n \in 1..Len(pending) /\ store = last
    BY <1>1, <1>2 DEF SourceInv, Saving
  <1>4. /\ last \in Range(pending) /\ last \in Tokens
        /\ \A t \in Range(pending) : ~Less(last, t) => t \in Range(prefix) /\ t \in acked
        /\ \A t \in Range(prefix) : t \in acked /\ t \in Range(pending) /\ ~Less(last, t)
    BY <1>1, StoreFollows
  <1>5. last = pending[n] /\ loaded
    BY <1>1, <1>2, <1>3 DEF SourceInv, Saving, Queued
  <1>6. /\ rest \in Seq(Tokens) /\ Len(rest) = Len(pending) - n
        /\ \A i \in 1..Len(rest) : rest[i] = pending[n + i] /\ n + i \in 1..Len(pending)
    BY <1>2, <1>3
  <1> HIDE DEF n, rest, last
  <1>7. Rising(rest)
    <2>1. SUFFICES ASSUME NEW i \in 1..Len(rest), NEW j \in 1..Len(rest), i < j
                   PROVE  Less(rest[i], rest[j])
      BY <1>6 DEF Rising
    <2>2. n + i < n + j
      BY <1>3, <2>1
    <2> QED BY <1>2, <1>6, <2>1, <2>2 DEF SourceInv, Queued, Rising
  <1>8. Range(rest) = Range(pending) \ Range(prefix)
    <2>1. ASSUME NEW t \in Range(rest) PROVE t \in Range(pending) /\ Less(last, t)
      <3>1. PICK i \in 1..Len(rest) : rest[i] = t
        BY <1>6, RangeIs
      <3>2. n + i \in 1..Len(pending) /\ n < n + i /\ t = pending[n + i]
        BY <1>3, <1>6, <3>1
      <3> QED BY <1>2, <1>3, <1>5, <3>2, RangeIs DEF SourceInv, Queued, Rising
    <2>2. ASSUME NEW t \in Range(pending), t \notin Range(prefix) PROVE t \in Range(rest)
      <3>1. Less(last, t)
        BY <1>4, <2>2
      <3>2. PICK i \in 1..Len(pending) : pending[i] = t
        BY <1>2, RangeIs
      <3>3. i > n
        <4>1. i < n => Less(pending[i], pending[n])
          BY <1>2, <1>3, <3>2 DEF SourceInv, Queued, Rising
        <4>2. i <= n => ~Less(last, t)
          <5>1. t \in Tokens
            BY <1>2, RangeIs
          <5> QED BY <1>3, <1>4, <1>5, <3>2, <4>1, <5>1, CursorOrder DEF Cursors
        <4> QED BY <1>3, <3>1, <3>2, <4>2
      <3>4. i - n \in 1..Len(rest) /\ n + (i - n) = i
        BY <1>2, <1>3, <1>6, <3>2, <3>3
      <3>5. rest[i - n] = t
        BY <1>6, <3>2, <3>4
      <3> QED BY <1>6, <3>4, <3>5, RangeIs
    <2> QED BY <1>4, <2>1, <2>2
  <1>9. fetched' = fetched /\ (rest # <<>> => rest[Len(rest)] = fetched)
    <2>1. fetched = pending[Len(pending)]
      BY <1>2, <1>3 DEF SourceInv, Queued
    <2>2. rest = <<>> => n = Len(pending)
      BY <1>2, <1>3, <1>6
    <2>3. rest # <<>> => Len(rest) \in 1..Len(rest) /\ n + Len(rest) = Len(pending)
      BY <1>2, <1>3, <1>6
    <2> QED BY <1>1, <1>5, <1>6, <2>1, <2>2, <2>3
  <1>10. Typed'
    <2>1. hand' \cup waiting' \cup unsaved' \subseteq Tokens \cap DOMAIN attempts'
      BY <1>1, <1>a, <1>b DEF SourceInv, Typed
    <2> QED BY <1>1, <1>4, <1>6, <1>9, <2>1 DEF SourceInv, Typed, Cursors
  <1>11. Queued'
    <2>1. fetched # NoTok
      BY <1>4, PendingFetched, CursorOrder DEF Cursors
    <2> QED BY <1>1, <1>5, <1>7, <1>9, <2>1 DEF Queued
  <1>12. Present' = Present /\ Range(pending') = Range(rest) /\ Range(result)' = Range(result)
    BY <1>1 DEF Present, Token
  <1>13. Queried'
    BY <1>1, <1>9, <1>12 DEF SourceInv, Queried, Rising
  <1>14. Apart'
    <2>1. Read' = Read
      BY <1>1 DEF Read
    <2> QED BY <1>1, <1>a, <1>9, <2>1 DEF SourceInv, Apart
  <1>15. Covered'
    BY <1>1, <1>4, <1>8, <1>9, <1>12 DEF SourceInv, Covered, NothingSkipped, Apart
  <1>16. Saving'
    <2>1. \A t \in Range(rest) : Less(store, t)
      BY <1>3, <1>4, <1>8
    <2> QED BY <1>1, <1>9, <1>12, <2>1 DEF SourceInv, Saving
  <1> QED BY <1>10, <1>11, <1>13, <1>14, <1>15, <1>16 DEF SourceInv

(* Every step keeps the invariant. *)
LEMMA SourceStep ==
  ASSUME SourceConfig, SourceInv, [Next]_vars
  PROVE  SourceInv'
  <1>1. CASE UNCHANGED vars
    <2>1. Present' = Present
      BY <1>1 DEF vars, db, Present, Token
    <2> QED BY <1>1, <2>1 DEF vars, db, cursor, queue, flush, acks, run, hist, bounds, SourceInv, Typed,
               Queued, Queried, Apart, Read, Covered, Saving, NothingSkipped, Rising
  <1>2. CASE Next
    BY <1>2, WriteKeeps, OpenKeeps, CrashKeeps, RunnerKeeps, HandlerKeeps, QueryKeeps, ReturnKeeps,
       BeginKeeps, SaveKeeps, ApplyKeeps DEF Next, Fetch, Flush
  <1> QED BY <1>1, <1>2

(* What the invariant says of a state. *)
LEMMA SourceSafe ==
  ASSUME SourceConfig, SourceInv
  PROVE  TypeOK /\ NothingSkipped /\ OrderKept
  <1>1. Range(pending) \subseteq Tokens
    BY RangeIs DEF SourceInv, Typed
  <1>2. TypeOK
    BY <1>1 DEF SourceInv, Typed, Apart, TypeOK, Cursors
  <1> QED BY <1>2 DEF SourceInv, Covered, OrderKept, Saving

(* What a step may not do. *)
LEMMA SourceForward ==
  ASSUME SourceConfig, SourceInv, Next
  PROVE  NoRedelivery /\ CursorForward
  <1>1. \/ hand' \subseteq hand
        \/ fetch = "read" /\ hand' = hand \cup Range(result)
    BY DEF Next, Fetch, Flush, Write, Open, FetchRetry, FetchBegin, FetchQuery, FetchReturn,
       Start, FetchFails, Release, Drop, Ack, Acked, Retry, Elapse, Fail, FlushBegin, FlushSave,
       FlushApply, SaveFails, Crash, run
  <1>2. NoRedelivery
    BY <1>1 DEF NoRedelivery, SourceInv, Apart, Read
  <1>3. \/ store' = store
        \/ task = "save" /\ store' = prefix[Len(prefix)]
    BY DEF Next, Fetch, Flush, Write, Open, FetchRetry, FetchBegin, FetchQuery, FetchReturn,
       Start, FetchFails, Release, Drop, Ack, Acked, Retry, Elapse, Fail, FlushBegin, FlushSave,
       FlushApply, SaveFails, Crash, db
  <1>4. CursorForward
    <2>1. SUFFICES ASSUME task = "save", store' = prefix[Len(prefix)], store' # store
                   PROVE  Less(store, store')
      BY <1>3 DEF CursorForward
    <2>2. store' \in Tokens
      BY <2>1, StoreFollows
    <2>3. ~Less(store', store)
      BY <2>1 DEF SourceInv, Saving
    <2> QED BY <2>1, <2>2, <2>3, CursorOrder DEF SourceInv, Typed, Cursors
  <1> QED BY <1>2, <1>4

(* The persisted cursor never passes a row that no handler has succeeded on, and *)
(* the commit task removes the tokens it has saved, for every table, batch size, *)
(* number of retries, failed saves, stops and crashes, while rows become visible *)
(* in the order of their cursors.                                                *)
THEOREM CursorNeverSkips ==
  ASSUME SourceConfig
  PROVE  Spec => [](TypeOK /\ NothingSkipped /\ OrderKept)
  <1>1. Init => SourceInv
    BY SourceInit
  <1>2. SourceInv /\ [Next]_vars => SourceInv'
    BY SourceStep
  <1>3. SourceInv => TypeOK /\ NothingSkipped /\ OrderKept
    BY SourceSafe
  <1> QED BY <1>1, <1>2, <1>3, PTL DEF Spec

(* The persisted cursor moves forward only, although a save that failed may have *)
(* been stored, and one process hands no row to a handler again unless the ack   *)
(* of it has raised.                                                             *)
THEOREM CursorGoesForward ==
  ASSUME SourceConfig
  PROVE  Spec => [][NoRedelivery /\ CursorForward]_vars
  <1>1. Init => SourceInv
    BY SourceInit
  <1>2. SourceInv /\ [Next]_vars => SourceInv'
    BY SourceStep
  <1>3. SourceInv /\ [Next]_vars => [NoRedelivery /\ CursorForward]_vars
    BY SourceForward
  <1> QED BY <1>1, <1>2, <1>3, PTL DEF Spec
=============================================================================
