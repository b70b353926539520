----------------------------- MODULE MongoSource -----------------------------
(***************************************************************************)
(* The MongoDB polling and change-stream sources (onestep_mongodb): both   *)
(* hand out deliveries in the order of a cursor, let them settle in any    *)
(* order, and save the greatest cursor whose predecessors have all been    *)
(* settled.  A retry invalidates the generation of deliveries it belongs   *)
(* to and the source reads again from the cursor last saved.               *)
(*                                                                         *)
(* Documents, or change events, are numbered in cursor order; a token is   *)
(* the number of its document and 0 stands for no cursor.                  *)
(***************************************************************************)
EXTENDS Integers, Sequences, FiniteSets

CONSTANTS Stream,        \* TRUE: change stream, FALSE: polling
          N,             \* documents
          Saved,         \* the cursor saved by an earlier process
          BatchSize, Concurrency,
          MaxRetries, MaxSaveFaults, MaxFetchFaults, MaxCrashes

VARIABLES head,        \* documents the server holds
          store,       \* the cursor in the durable store
          committed,   \* _committed or _resume_token
          scan,        \* _scan: where the next poll begins
          stream,      \* position of the open change stream, or NoStream
          log,         \* deliveries of this process, in the order of tracker.add
          popped,      \* how many of them have left _pending
          generation, invalidated,
          fetching,    \* position the awaited fetch reads from, or NoFetch
          asked,       \* the number of documents it asks for
          alive,       \* the runner has not died of an exception
          settled,     \* documents whose handler has finished, with success or not
          origin,      \* documents up to here are not this source's to deliver
          raced,       \* history: the current generation was given up under an awaited fetch
          faults       \* retries, failed saves, failed fetches and crashes so far

tracker == <<log, popped, generation, invalidated>>
vars == <<head, store, committed, scan, stream, tracker, fetching, asked, alive, settled, origin, raced, faults>>

NoStream == -1
NoFetch == -1

(* A delivery: handling; unsaved, its ack has raised; refused, its fail has raised; *)
(* retrying, given back but not completed; lost, its retry has raised; done.         *)
States == {"handling", "unsaved", "refused", "retrying", "lost", "done"}
Entry == [gen : Nat, tok : 1..N, st : States, adv : BOOLEAN]

\* The type invariant.
TypeOK ==
    /\ head \in 0..N /\ store \in 0..head /\ committed \in 0..head /\ scan \in 0..N /\ stream \in {NoStream} \cup 0..N
    /\ log \in Seq(Entry) /\ popped \in 0..Len(log) /\ generation \in Nat /\ invalidated \subseteq 0..(generation - 1)
    /\ fetching \in {NoFetch} \cup 0..N /\ asked \in Int /\ alive \in BOOLEAN /\ settled \subseteq 1..head /\ origin \in 0..N
    /\ raced \in BOOLEAN

Init ==
    /\ head = Saved /\ store = Saved /\ committed = Saved /\ scan = Saved /\ stream = NoStream
    /\ log = <<>> /\ popped = 0 /\ generation = 0 /\ invalidated = {}
    /\ fetching = NoFetch /\ asked = 0 /\ alive = TRUE /\ settled = {} /\ origin = Saved /\ raced = FALSE
    /\ faults = [retries |-> 0, saves |-> 0, fetches |-> 0, crashes |-> 0]

Publish == head < N /\ head' = head + 1 /\ UNCHANGED <<store, committed, scan, stream, tracker, fetching, asked, alive, settled, origin, raced, faults>>

-----------------------------------------------------------------------------
Outstanding == {i \in DOMAIN log : log[i].st # "done"}

(* The handlers that are still at work; the other deliveries have left the runner. *)
InHand == {i \in DOMAIN log : log[i].st \notin {"done", "lost"}}

Smallest(a, b) == IF a < b THEN a ELSE b

(* No fetch while a delivery of an invalidated generation is outstanding. *)
can_fetch == \A i \in Outstanding : log[i].gen \notin invalidated

(* fetch begins, with as many as the runner has room for now: open loads   *)
(* the cursor once and opens the stream, after the resume token if there   *)
(* is one and at the server's position if not.                             *)
FetchStart ==
    /\ alive /\ fetching = NoFetch /\ Cardinality(InHand) < Concurrency /\ can_fetch
    /\ IF Stream /\ stream = NoStream
       THEN /\ stream' = IF committed # 0 THEN committed ELSE head
            /\ origin' = IF log = <<>> /\ store = 0 THEN head ELSE origin
       ELSE UNCHANGED <<stream, origin>>
    /\ fetching' = IF Stream THEN stream' ELSE scan
    /\ asked' = Smallest(BatchSize, Concurrency - Cardinality(InHand))
    /\ UNCHANGED <<head, store, committed, scan, tracker, alive, settled, raced, faults>>

(* The documents of one fetch: the next ones after the position, at most   *)
(* as many as it asked for.                                                *)
Fetched ==
    [k \in 1..Smallest(asked, head - fetching) |->
        [gen |-> generation, tok |-> fetching + k, st |-> "handling", adv |-> FALSE]]

(* The poll returns the documents after the position its query was built   *)
(* with; they join the generation that is current now.                     *)
PollReturns ==
    /\ ~Stream /\ fetching # NoFetch /\ fetching' = NoFetch /\ asked' = 0
    /\ log' = log \o Fetched /\ scan' = IF Fetched = <<>> THEN scan ELSE fetching + Len(Fetched)
    /\ UNCHANGED <<head, store, committed, stream, popped, generation, invalidated, alive, settled, origin, raced, faults>>

(* The change stream has answered try_next until the batch is full or      *)
(* nothing is left.                                                        *)
StreamReturns ==
    /\ Stream /\ fetching # NoFetch /\ fetching' = NoFetch /\ asked' = 0
    /\ log' = log \o Fetched
    /\ stream' = IF stream = NoStream THEN NoStream ELSE fetching + Len(Fetched)
    /\ UNCHANGED <<head, store, committed, scan, popped, generation, invalidated, alive, settled, origin, raced, faults>>

(* tracker.invalidate: the generation is given up and a new one begins. *)
Invalidated(gen, entries) ==
    IF gen # generation THEN UNCHANGED <<generation, invalidated>> /\ log' = entries
    ELSE /\ generation' = generation + 1 /\ invalidated' = invalidated \cup {gen}
         /\ log' = [i \in DOMAIN entries |-> IF entries[i].gen = gen THEN [entries[i] EXCEPT !.adv = FALSE] ELSE entries[i]]

(* A retryable error: the poll is simply made again, the change stream     *)
(* gives up its generation and is opened again.                            *)
FetchFails ==
    /\ fetching # NoFetch /\ fetching' = NoFetch /\ asked' = 0 /\ faults.fetches < MaxFetchFaults
    /\ faults' = [faults EXCEPT !.fetches = @ + 1]
    /\ IF Stream THEN Invalidated(generation, log) /\ stream' = NoStream
                 ELSE UNCHANGED <<log, generation, invalidated, stream>>
    /\ UNCHANGED <<head, store, committed, scan, popped, alive, settled, origin, raced>>

(* The stream was taken away from a fetch in its loop: the AttributeError  *)
(* is no connector error and ends the runner.                              *)
FetchBreaks ==
    /\ Stream /\ fetching # NoFetch /\ stream = NoStream /\ fetching' = NoFetch /\ asked' = 0 /\ alive' = FALSE
    /\ Invalidated(generation, log)
    /\ UNCHANGED <<head, store, committed, scan, stream, popped, settled, origin, raced, faults>>

-----------------------------------------------------------------------------

(* complete: the entry is done; the done entries at the front of _pending  *)
(* leave it, and the last of them that advances is saved.                  *)
Done(i, advance) ==
    [log EXCEPT ![i].st = "done", ![i].adv = advance /\ log[i].gen \notin invalidated]

Front(entries) ==
    CHOOSE k \in popped..Len(entries) :
        /\ \A j \in (popped + 1)..k : entries[j].st = "done"
        /\ k = Len(entries) \/ entries[k + 1].st # "done"

(* Mutant: every done entry may be saved, whatever is before it. *)
Advanced(entries) ==
    LET adv == {entries[j].tok : j \in {x \in (popped + 1)..Len(entries) : entries[x].st = "done" /\ entries[x].adv}}
    IN  IF adv = {} THEN 0 ELSE CHOOSE t \in adv : \A x \in adv : x <= t

ToSave(entries) ==
    LET adv == {j \in (popped + 1)..Front(entries) : entries[j].adv}
    IN  IF adv = {} THEN 0 ELSE entries[CHOOSE j \in adv : \A x \in adv : x <= j].tok

(* The generations with nothing outstanding are forgotten. *)
StillInvalidated(entries) == {g \in invalidated : \E j \in DOMAIN entries : entries[j].gen = g /\ entries[j].st # "done"}

Complete(i, advance) ==
    LET entries == Done(i, advance)
    IN  /\ log' = entries /\ popped' = Front(entries) /\ invalidated' = StillInvalidated(entries)
        /\ IF ToSave(entries) # 0 THEN store' = ToSave(entries) /\ committed' = ToSave(entries)
                                  ELSE UNCHANGED <<store, committed>>
        /\ UNCHANGED generation

(* ack, and a terminal fail: the handler is done with the document.  An ack *)
(* that raised is followed by a fail when the policy gives the document up. *)
Settle(i) ==
    /\ log[i].st \in {"handling", "unsaved"} /\ Complete(i, TRUE) /\ settled' = settled \cup {log[i].tok}
    /\ UNCHANGED <<head, scan, stream, fetching, asked, alive, origin, raced, faults>>

(* The cursor store refuses the save of an ack or a fail: the entry is as  *)
(* before, and the executor goes on to retry or fail what it acknowledged, *)
(* and to retry what it failed.                                            *)
SaveFails(i) ==
    /\ faults.saves < MaxSaveFaults /\ faults' = [faults EXCEPT !.saves = @ + 1]
    /\ log[i].st \in {"handling", "unsaved"} /\ ToSave(Done(i, TRUE)) # 0
    /\ \E st \in IF log[i].st = "handling" THEN {"unsaved", "refused"} ELSE {"refused"} :
         log' = [log EXCEPT ![i].st = st]
    /\ settled' = settled \cup {log[i].tok}
    /\ UNCHANGED <<head, store, committed, scan, stream, popped, generation, invalidated, fetching, asked, alive, origin, raced>>

(* retry and release_unstarted, also while a fetch is awaited: first the   *)
(* generation is given up and the position goes back to the cursor last    *)
(* saved ...                                                               *)
Retry(i) ==
    /\ log[i].st \in {"handling", "unsaved", "refused"}
    /\ log[i].st # "refused" => faults.retries < MaxRetries
    /\ faults' = [faults EXCEPT !.retries = IF log[i].st = "refused" THEN @ ELSE @ + 1]
    /\ Invalidated(log[i].gen, [log EXCEPT ![i].st = "retrying"])
    /\ IF Stream THEN stream' = NoStream /\ UNCHANGED scan ELSE scan' = committed /\ UNCHANGED stream
    /\ raced' = (raced \/ (fetching # NoFetch /\ log[i].gen = generation))
    /\ UNCHANGED <<head, store, committed, popped, fetching, asked, alive, settled, origin>>

(* ... and then the delivery is completed without an advance, ... *)
Retried(i) ==
    /\ log[i].st = "retrying" /\ Complete(i, FALSE)
    /\ UNCHANGED <<head, scan, stream, fetching, asked, alive, settled, origin, raced, faults>>

(* ... or, when that has a cursor to save and cannot, the retry raises and *)
(* the executor has nothing left to try.                                   *)
RetryFails(i) ==
    /\ faults.saves < MaxSaveFaults /\ faults' = [faults EXCEPT !.saves = @ + 1]
    /\ log[i].st = "retrying" /\ ToSave(Done(i, FALSE)) # 0
    /\ log' = [log EXCEPT ![i].st = "lost"]
    /\ UNCHANGED <<head, store, committed, scan, stream, popped, generation, invalidated, fetching, asked, alive, settled, origin, raced>>

(* The process ends, or is restarted after its runner has died. *)
Crash ==
    /\ faults.crashes < MaxCrashes
    /\ faults' = [faults EXCEPT !.crashes = @ + 1]
    /\ committed' = store /\ scan' = store /\ stream' = NoStream
    /\ log' = <<>> /\ popped' = 0 /\ generation' = 0 /\ invalidated' = {} /\ fetching' = NoFetch /\ asked' = 0 /\ alive' = TRUE
    /\ UNCHANGED <<head, store, settled, origin, raced>>

Fetch == PollReturns \/ StreamReturns

Next ==
    \/ Publish \/ FetchStart \/ PollReturns \/ StreamReturns \/ FetchFails \/ FetchBreaks \/ Crash
    \/ \E i \in DOMAIN log : Settle(i) \/ SaveFails(i) \/ Retry(i) \/ Retried(i) \/ RetryFails(i)

Spec == Init /\ [][Next]_vars

(* A handler comes to its end, and a delivery whose fail has raised is given back. *)
Ends(i) == Settle(i) \/ Retried(i) \/ (log[i].st = "refused" /\ Retry(i))
FairSpec == Spec /\ WF_vars(Publish) /\ WF_vars(FetchStart) /\ WF_vars(Fetch)
                 /\ WF_vars(\E i \in DOMAIN log : Ends(i))

-----------------------------------------------------------------------------
(* The saved cursor passes no document of this source whose handler has    *)
(* not finished (after a restart it would never be delivered), unless the  *)
(* current generation was once given up while a fetch was awaited: the     *)
(* fetch then brings the documents after its old position into the new     *)
(* generation, and the acknowledgement of these skips the earlier ones.    *)
NothingSkipped == raced \/ \A d \in (origin + 1)..store : d \in settled

(* Two handlers of one process never work on the same document, with the   *)
(* same exception.                                                         *)
OneHandler == raced \/ \A i, j \in DOMAIN log : i # j /\ log[i].tok = log[j].tok => "done" \in {log[i].st, log[j].st}

(* Acknowledgements of a generation that was given up, early or late, do   *)
(* not move the cursor, even when they come while a fetch is awaited.      *)
StaleNeverAdvances == \A i \in DOMAIN log : log[i].gen \in invalidated => ~log[i].adv

(* The saved cursor never moves back, with the same exception.             *)
CursorMonotone == raced' \/ store' >= store

=============================================================================
