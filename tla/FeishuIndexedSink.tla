--------------------------- MODULE FeishuIndexedSink ---------------------------
(***************************************************************************)
(* The indexed insert path of FeishuBitableTableSink: the key index read   *)
(* at open, the pending keys that concurrent sends of one key share, the   *)
(* single lane in which a threshold, timer or close flush writes a batch,  *)
(* the recovery of a batch whose outcome is unknown, and the keys left     *)
(* uncertain when recovery gives up.  A request that has ended has taken   *)
(* its effect on the table, except one whose caller was cancelled: it runs *)
(* on in its thread (asyncio.to_thread).  The index scan is one step:      *)
(* nothing else writes the table.  The buffer lock is never held across an *)
(* await, so what happens under it is part of the step.                    *)
(***************************************************************************)
EXTENDS Naturals, Sequences, FiniteSets

CONSTANTS Keys,          \* canonical insert keys
          Copies,        \* deliveries with the same key
          BatchSize,     \* batch_size
          MaxRounds,     \* ambiguous_write_max_rounds
          Capacity,      \* insert_index_page_size * insert_index_max_pages
          Responses,     \* failing answers: "rejected", "lost", "malformed"
          EarlyClose,    \* close may come before every send has ended
          MaxFaults, MaxRetries, MaxCancels, MaxCrashes  \* bounds of the model

Senders == Keys \X (1 .. Copies)
Timer   == <<"timer", 0>>
Closer  == <<"close", 0>>
Actors  == Senders \cup {Timer, Closer}
KeyOf(s) == s[1]

VARIABLES table,      \* destination table: number of records of each key
          loaded,     \* "no", "yes", or "refused": _index_loaded
          keys,       \* _insert_keys
          uncertain,  \* _uncertain_keys
          pend,       \* _pending_by_key: the waiters of each pending key
          order,      \* _pending_order
          pc,         \* where each send, the timer task and close() are
          fut,        \* the waiter Future of each send
          read,       \* matches an exact search has read, not yet answered
          lane,       \* the batch that holds _flush_lock, or {}
          late,       \* batches whose cancelled request still runs
          faults, retries, cancels, crashes

sink   == <<keys, uncertain, pend, order, fut, lane>>
bounds == <<faults, retries, cancels, crashes>>
vars   == <<table, loaded, sink, pc, read, late, bounds>>

Init ==
  /\ table \in [Keys -> 0 .. 1]
  /\ loaded = "no" /\ keys = {} /\ uncertain = {} /\ order = <<>>
  /\ pend = [k \in Keys |-> {}]
  /\ pc = [a \in Actors |-> IF a \in Senders THEN "new" ELSE "idle"]
  /\ fut = [s \in Senders |-> "none"] /\ read = [s \in Senders |-> 0]
  /\ lane = {} /\ late = {}
  /\ faults = 0 /\ retries = 0 /\ cancels = 0 /\ crashes = 0

Wrote(ks) == [k \in Keys |-> table[k] + (IF k \in ks THEN 1 ELSE 0)]
Ended(s)  == pc[s] \in {"ok", "failed", "cancelled"}
Faulty(n) == faults + n <= MaxFaults /\ faults' = faults + n

(* open(): the scan fails closed when the table holds more than its pages. *)
Open ==
  /\ loaded = "no"
  /\ LET records == UNION {{k} \X (1 .. table[k]) : k \in Keys}
     IN  IF Cardinality(records) > Capacity
         THEN loaded' = "refused" /\ keys' = keys
         ELSE loaded' = "yes" /\ keys' = {k \in Keys : table[k] > 0}
  /\ UNCHANGED <<table, uncertain, pend, order, fut, lane, pc, read, late, bounds>>

(***************************************************************************)
(* Sending.                                                                *)
(***************************************************************************)

(* A send joins the pending entry of its key or makes one; the send that   *)
(* fills the batch flushes it, and the first of a batch starts the timer.  *)
Buffer(s) ==
  LET k    == KeyOf(s)
      next == IF pend[k] = {} THEN Append(order, k) ELSE order
      full == Len(next) >= BatchSize
  IN  /\ pend' = [pend EXCEPT ![k] = @ \cup {s}]
      /\ order' = next
      /\ fut' = [fut EXCEPT ![s] = "pending"]
      /\ pc' = [pc EXCEPT
           ![s] = IF full THEN "want" ELSE "wait",
           ![Timer] = IF ~full /\ @ = "idle" /\ pc[Closer] = "idle" THEN "sleep" ELSE @]

SendEnds(s, how) == pc' = [pc EXCEPT ![s] = how] /\ UNCHANGED <<pend, order, fut>>

(* _send_indexed_insert up to its first await.                             *)
Send(s) ==
  /\ loaded = "yes" /\ pc[s] = "new"
  /\ CASE pc[Closer] # "idle" -> SendEnds(s, "failed")
       [] pc[Closer] = "idle" /\ KeyOf(s) \in keys -> SendEnds(s, "ok")
       [] pc[Closer] = "idle" /\ KeyOf(s) \in uncertain \ keys -> SendEnds(s, "search")
       [] OTHER -> Buffer(s)
  /\ UNCHANGED <<table, loaded, keys, uncertain, lane, read, late, bounds>>

(* The exact search of an uncertain key: the table is read now, the answer *)
(* comes later.                                                            *)
SearchReads(s) ==
  /\ pc[s] = "search"
  /\ read' = [read EXCEPT ![s] = table[KeyOf(s)]]
  /\ pc' = [pc EXCEPT ![s] = "answer"]
  /\ UNCHANGED <<table, loaded, sink, late, bounds>>

SearchFails(s) ==
  /\ pc[s] = "search" /\ Faulty(1)
  /\ pc' = [pc EXCEPT ![s] = "failed"]
  /\ UNCHANGED <<table, loaded, sink, read, late, retries, cancels, crashes>>

(* _reconcile_uncertain_key and the rest of the send: two matches are an   *)
(* error, one is the record, none means that the key may be written.       *)
SearchAnswers(s) ==
  LET k == KeyOf(s)
  IN  /\ pc[s] = "answer"
      /\ keys' = IF read[s] = 1 THEN keys \cup {k} ELSE keys
      /\ uncertain' = IF read[s] > 1 THEN uncertain ELSE uncertain \ {k}
      /\ CASE read[s] > 1 -> SendEnds(s, "failed")
           [] read[s] <= 1 /\ k \in keys' -> SendEnds(s, "ok")
           [] OTHER -> Buffer(s)
      /\ UNCHANGED <<table, loaded, lane, read, late, bounds>>

(* The waiter is resolved and the send returns or raises.                  *)
Wakes(s) ==
  /\ pc[s] = "wait" /\ fut[s] \in {"ok", "failed"}
  /\ pc' = [pc EXCEPT ![s] = fut[s]]
  /\ UNCHANGED <<table, loaded, sink, read, late, bounds>>

(* The runtime retries a delivery whose send failed.                       *)
Retry(s) ==
  /\ pc[s] = "failed" /\ pc[Closer] = "idle" /\ retries < MaxRetries
  /\ pc' = [pc EXCEPT ![s] = "new"] /\ retries' = retries + 1
  /\ UNCHANGED <<table, loaded, sink, read, late, faults, cancels, crashes>>

(***************************************************************************)
(* Flushing.                                                               *)
(***************************************************************************)
TimerFires ==
  /\ pc[Timer] = "sleep"
  /\ pc' = [pc EXCEPT ![Timer] = "want"]
  /\ UNCHANGED <<table, loaded, sink, read, late, bounds>>

(* What the caller of a flush does when it returns: a send awaits its      *)
(* waiter, the timer task ends, close() flushes again until nothing is     *)
(* buffered and then asserts that nothing is pending.                      *)
After(a, todo, held) ==
  CASE a = Timer -> "idle"
    [] a = Closer -> IF todo # <<>> THEN "want" ELSE IF held = {} THEN "closed" ELSE "broken"
    [] OTHER -> "wait"

Held(p) == {k \in Keys : p[k] # {}}

(* _seal_indexed_batch: the keys of at most one batch, in order.           *)
Buffered(q) == {q[i] : i \in DOMAIN q}
Fitting == IF Len(order) < BatchSize THEN Len(order) ELSE BatchSize
Sealed == Buffered(SubSeq(order, 1, Fitting))
Unsealed == SubSeq(order, Fitting + 1, Len(order))

(* _flush_indexed_insert takes the lane, seals a batch and sends it.       *)
Flush(a) ==
  /\ pc[a] = "want" /\ lane = {}
  /\ IF order = <<>>
     THEN pc' = [pc EXCEPT ![a] = After(a, order, Held(pend))] /\ UNCHANGED <<lane, order>>
     ELSE /\ lane' = {[by |-> a, phase |-> "create", todo |-> Sealed, rest |-> {}, round |-> 0]}
          /\ order' = Unsealed
          /\ pc' = [pc EXCEPT ![a] = "hold"]
  /\ UNCHANGED <<table, loaded, keys, uncertain, pend, fut, read, late, bounds>>

(* _complete_pending and _fail_pending: the entries go and every waiter of *)
(* them gets the outcome.                                                  *)
Settle(won, lost) ==
  /\ pend' = [k \in Keys |-> IF k \in won \cup lost THEN {} ELSE pend[k]]
  /\ fut' = [s \in Senders |->
       CASE \E k \in won : s \in pend[k] -> "ok"
         [] \E k \in lost : s \in pend[k] -> "failed"
         [] OTHER -> fut[s]]

(* After a request of batch b: `won` and `lost` are settled, `unresolved`  *)
(* goes into the next round of recovery or, after the last, is failed.     *)
Proceed(b, won, lost, unresolved, round) ==
  LET over == unresolved = {} \/ round > MaxRounds
  IN  /\ Settle(won, IF over THEN lost \cup unresolved ELSE lost)
      /\ lane' = IF over THEN {}
                 ELSE {[b EXCEPT !.phase = "lookup", !.todo = unresolved,
                                 !.rest = {}, !.round = round]}
      /\ pc' = IF over THEN [pc EXCEPT ![b.by] = After(b.by, order, Held(pend'))] ELSE pc

Creating == {b \in lane : b.phase = "create"}

(* batch_create answers with a record for each key: _confirm_created.      *)
Created ==
  \E b \in Creating :
    /\ table' = Wrote(b.todo)
    /\ keys' = keys \cup b.todo /\ uncertain' = uncertain \ b.todo
    /\ Proceed(b, b.todo, {}, b.rest, b.round + 1)
    /\ UNCHANGED <<loaded, order, read, late, bounds>>

(* How _request_json classifies an answer: an API error that rejects the   *)
(* records, a lost connection, and a 2xx answer whose body is not JSON,    *)
(* which _classify_status makes permanent.                                 *)
Kind(response) == IF response = "lost" THEN "disconnected" ELSE "permanent"

\* Mutant: an unknown outcome is taken for a failure.
DefiniteAlways(response) == Kind(response) \in {"permanent", "misconfigured", "disconnected"}

(* _is_definite_write_error                                                *)
Definite(response) == Kind(response) \in {"permanent", "misconfigured"}

(* What each answer leaves in the table: a rejected batch nothing, an      *)
(* unreadable success all, a lost answer any part of it.                   *)
Accepted(response, ks) ==
  CASE response = "rejected" -> {{}}
    [] response = "malformed" -> {ks}
    [] OTHER -> SUBSET ks

(* The create fails: a definite error fails its keys, any other makes them *)
(* uncertain and starts, or continues, the recovery.                       *)
CreateFails ==
  \E b \in Creating, r \in Responses : \E got \in Accepted(r, b.todo) :
    /\ Faulty(1)
    /\ table' = Wrote(got)
    /\ IF Definite(r)
       THEN Proceed(b, {}, b.todo, b.rest, b.round + 1) /\ uncertain' = uncertain
       ELSE /\ Proceed(b, {}, {}, b.rest \cup b.todo, b.round + 1)
            /\ uncertain' = uncertain \cup b.todo
    /\ UNCHANGED <<loaded, keys, order, read, late, retries, cancels, crashes>>

(* _lookup_pending_keys and the rest of the round: found keys are          *)
(* confirmed, keys with two records failed, missing ones created again,    *)
(* and those whose search failed wait for the next round.                  *)
Lookup ==
  \E b \in lane : \E failed \in SUBSET b.todo :
    LET found   == {k \in b.todo \ failed : table[k] = 1}
        twice   == {k \in b.todo \ failed : table[k] > 1}
        missing == {k \in b.todo \ failed : table[k] = 0}
    IN  /\ b.phase = "lookup" /\ Faulty(Cardinality(failed))
        /\ keys' = keys \cup found /\ uncertain' = uncertain \ found
        /\ IF missing = {} THEN Proceed(b, found, twice, failed, b.round + 1)
           ELSE /\ Settle(found, twice) /\ pc' = pc
                /\ lane' = {[b EXCEPT !.phase = "create", !.todo = missing, !.rest = failed]}
        /\ UNCHANGED <<table, loaded, order, read, late, retries, cancels, crashes>>

(***************************************************************************)
(* Cancellation, close and crash.                                          *)
(***************************************************************************)
(* CancelledError leaves the flush through _flush_lock: the batch stays    *)
(* in _pending_by_key and its request runs on.                             *)
Abandon(a) ==
  LET mine == {b \in lane : b.by = a}
  IN  /\ lane' = lane \ mine
      /\ late' = late \cup {b.todo : b \in {c \in mine : c.phase = "create"}}

Cancel(s) ==
  /\ cancels < MaxCancels
  /\ pc[s] \in {"search", "answer", "want", "hold", "wait"}
  /\ Abandon(s)
  /\ pc' = [pc EXCEPT ![s] = "cancelled"] /\ cancels' = cancels + 1
  /\ UNCHANGED <<table, loaded, keys, uncertain, pend, order, fut, read, faults, retries, crashes>>

(* close(): new sends are refused and the timer task is cancelled, also    *)
(* when it is writing; then the lane is drained.                           *)
Close ==
  /\ loaded = "yes" /\ pc[Closer] = "idle"
  /\ EarlyClose \/ \A s \in Senders : Ended(s)
  /\ Abandon(Timer)
  /\ pc' = [pc EXCEPT ![Timer] = "idle", ![Closer] = "want"]
  /\ UNCHANGED <<table, loaded, keys, uncertain, pend, order, fut, read, bounds>>

(* A request whose caller was cancelled takes its effect, or does not.     *)
LateWrite ==
  \E ks \in late : \E got \in SUBSET ks :
    /\ table' = Wrote(got) /\ late' = late \ {ks}
    /\ UNCHANGED <<loaded, sink, pc, read, bounds>>

(* The process ends with any part of its request accepted; the deliveries  *)
(* that were not confirmed are delivered again to a new sink.              *)
Crash ==
  /\ loaded = "yes" /\ late = {} /\ crashes < MaxCrashes
  /\ \E got \in SUBSET UNION {b.todo : b \in Creating} : table' = Wrote(got)
  /\ loaded' = "no" /\ keys' = {} /\ uncertain' = {} /\ order' = <<>> /\ lane' = {}
  /\ pend' = [k \in Keys |-> {}]
  /\ fut' = [s \in Senders |-> "none"] /\ read' = [s \in Senders |-> 0]
  /\ pc' = [a \in Actors |-> IF a \notin Senders THEN "idle"
                             ELSE IF pc[a] = "ok" THEN "ok" ELSE "new"]
  /\ crashes' = crashes + 1
  /\ UNCHANGED <<late, faults, retries, cancels>>

Next ==
  \/ Open \/ TimerFires \/ Created \/ CreateFails \/ Lookup \/ Close \/ LateWrite \/ Crash
  \/ \E a \in Actors : Flush(a)
  \/ \E s \in Senders : \/ Send(s) \/ SearchReads(s) \/ SearchFails(s) \/ SearchAnswers(s)
                        \/ Wakes(s) \/ Retry(s) \/ Cancel(s)

Spec == Init /\ [][Next]_vars

(* The event loop runs what can run, timers fire and requests are answered.*)
Fairness ==
  /\ WF_vars(Open) /\ WF_vars(TimerFires) /\ WF_vars(Close)
  /\ WF_vars(Created \/ CreateFails) /\ WF_vars(Lookup)
  /\ \A a \in Actors : WF_vars(Flush(a))
  /\ \A s \in Senders : WF_vars(Send(s)) /\ WF_vars(SearchReads(s) \/ SearchFails(s))
                        /\ WF_vars(SearchAnswers(s)) /\ WF_vars(Wakes(s))
FairSpec == Spec /\ Fairness

--------------------------------------------------------------------------------
(* The type invariant of the sink: at most one batch holds the lane, a     *)
(* buffered key is pending, and the batch in the lane is not buffered.     *)
TypeOK ==
  /\ table \in [Keys -> Nat] /\ loaded \in {"no", "yes", "refused"}
  /\ keys \subseteq Keys /\ uncertain \subseteq Keys
  /\ pend \in [Keys -> SUBSET Senders]
  /\ Buffered(order) \subseteq Held(pend) /\ Len(order) = Cardinality(Buffered(order))
  /\ DOMAIN pc = Actors
  /\ fut \in [Senders -> {"none", "pending", "ok", "failed"}] /\ read \in [Senders -> Nat]
  /\ Cardinality(lane) <= 1
  /\ \A a \in Actors : pc[a] = "hold" <=> \E b \in lane : b.by = a
  /\ \A b \in lane : (b.todo \cup b.rest) \cap Buffered(order) = {}

(* A send that returned without an error left a record of its key in the   *)
(* table (_confirm_created, _confirm_found and the index).                 *)
ConfirmedWritten == \A s \in Senders : pc[s] = "ok" => table[KeyOf(s)] > 0

(* The insert sink creates one record per key, whatever becomes of its     *)
(* requests: an uncertain key is searched before it is written again.      *)
OneRecord == \A k \in Keys : table[k] <= 1

(* A record of the table is in the index, doubted, or in the batch of a    *)
(* pending key: the sink never takes a key that it wrote for a new one.    *)
KnownOrDoubted ==
  loaded = "yes" =>
    \A k \in Keys : table[k] > 0 => k \in keys \cup uncertain \cup Held(pend)

(* close() does not reach its assertion with a key pending, and no waiter  *)
(* is left without an outcome after it.                                    *)
CloseClean ==
  /\ pc[Closer] # "broken"
  /\ pc[Closer] = "closed" => \A s \in Senders : pc[s] = "wait" => fut[s] # "pending"

(* Every waiting send ends: a threshold, timer or close flush settles its  *)
(* key.                                                                    *)
SendsEnd == \A s \in Senders : pc[s] = "wait" ~> pc[s] # "wait"
================================================================================
