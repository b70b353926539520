----------------------------- MODULE BinlogSource -----------------------------
(* The change-data-capture source of onestep-sql (mysql/connector.py): events *)
(* of the binary log, each with several rows, are delivered row by row, and   *)
(* the position of an event is saved once every row up to it is acknowledged. *)
EXTENDS Integers, Sequences, FiniteSets, Functions

CONSTANTS Ends,       \* Ends[e]: the rows of the first e events of the log, without the
                      \* events that self.events leaves out
          Limit,      \* rows asked for by one fetch
          Retries,    \* may handlers ask for a retry, or fail?
          Reopens,    \* may the source be closed and opened again in the process?
          MaxFaults, MaxCrashes   \* bounds

VARIABLES log,      \* events written so far
          saved,    \* the position in the cursor store, -1 when there is none
          loaded, committed,
          stream,   \* the next event to read, 0 when there is no stream
          buffered, pending, acked,
          saving,   \* the position being saved under the commit lock, 0 if none
          hand,     \* deliveries of a row whose handlers run
          done,
          dropped,  \* rows in the queue that nobody handles
          missed,   \* rows a cancelled fetch has taken from the stream, in this process
          faults, crashes
src == <<loaded, committed, stream, buffered, pending, acked, saving>>
hist == <<done, dropped, missed>>
vars == <<log, saved, src, hand, hist, faults, crashes>>

\* A row, for the _BinlogToken that names its event and its index in the event,
\* is its number in the log; the position of an event is the event's number.
Through(e) == IF e \in DOMAIN Ends THEN Ends[e] ELSE 0
AllRows == 1..Through(Len(Ends))
EventOf(t) == CHOOSE e \in DOMAIN Ends : Through(e - 1) < t /\ t <= Through(e)
RowsBetween(a, b) == [i \in 1..b - a |-> a + i]

Init ==
  /\ log = 0 /\ saved = -1 /\ loaded = FALSE /\ committed = -1 /\ stream = 0
  /\ buffered = <<>> /\ pending = <<>> /\ acked = {} /\ saving = 0
  /\ hand = [t \in AllRows |-> 0] /\ done = {} /\ dropped = {} /\ missed = {}
  /\ faults = 0 /\ crashes = 0

\* MySQL writes an event.
Write ==
  /\ log < Len(Ends) /\ log' = log + 1
  /\ UNCHANGED <<saved, src, hand, hist, faults, crashes>>

\* open: the saved position, or the current end of the log, which is saved.
Open ==
  /\ ~loaded /\ loaded' = TRUE
  /\ committed' = IF saved = -1 THEN log ELSE saved
  /\ saved' = committed'
  /\ UNCHANGED <<log, stream, buffered, pending, acked, saving, hand, hist, faults, crashes>>

\* _fetch_sync over the stream that _ensure_stream starts after committed: what is
\* buffered comes first, an event is never split between stream and buffer.
From == IF stream = 0 THEN committed + 1 ELSE stream
Read(e) == buffered \o RowsBetween(Through(From - 1), Through(e))
Given(e) == IF Len(Read(e)) < Limit THEN Len(Read(e)) ELSE Limit
Out(e) == SubSeq(Read(e), 1, Given(e))
\* Up to event e: no event is asked for once there are rows enough.
Takes(e) ==
  /\ \A f \in From - 1..e - 1 : Len(Read(f)) < Limit
  /\ stream' = e + 1 /\ buffered' = SubSeq(Read(e), Given(e) + 1, Len(Read(e)))
  /\ stream' # stream \/ buffered' # buffered
Fetch ==
  /\ loaded
  /\ \E e \in From - 1..log :
       /\ Takes(e) /\ (e = log \/ Len(Read(e)) >= Limit)
       /\ pending' = pending \o Out(e)
       /\ hand' = [t \in AllRows |-> hand[t] + Cardinality({i \in 1..Given(e) : Out(e)[i] = t})]
  /\ UNCHANGED <<log, saved, loaded, committed, acked, saving, hist, faults, crashes>>
\* A pause, drain or stop together with the fetched rows, or found on the return of
\* fetch: nobody starts their handlers, and release_unstarted does nothing.
FetchDropped ==
  /\ loaded /\ faults < MaxFaults /\ faults' = faults + 1
  /\ \E e \in From - 1..log :
       /\ Takes(e) /\ (e = log \/ Len(Read(e)) >= Limit)
       /\ pending' = pending \o Out(e)
       /\ dropped' = dropped \cup Range(Out(e))
  /\ UNCHANGED <<log, saved, loaded, committed, acked, saving, hand, done, missed, crashes>>
\* The fetch is cancelled: the source says that is safe, but the thread of _fetch_sync
\* goes on, and the rows it takes reach neither the queue nor a handler.  It may
\* have to leave the next events to the thread of a later fetch.
FetchCancelled ==
  /\ loaded /\ faults < MaxFaults /\ faults' = faults + 1
  /\ \E e \in From - 1..log : Takes(e) /\ missed' = missed \cup Range(Out(e))
  /\ UNCHANGED <<log, saved, loaded, committed, pending, acked, saving, hand, done, dropped, crashes>>

-----------------------------------------------------------------------------
(* Outcomes *)

\* A token that was popped is no longer acknowledged: a second copy has to wait.
Pops(done_, i) == pending[i] \in done_ /\ \A j \in 1..i - 1 : pending[j] # pending[i]
Popped(done_) == CHOOSE n \in 0..Len(pending) :
                   /\ \A i \in 1..n : Pops(done_, i)
                   /\ n = Len(pending) \/ ~Pops(done_, n + 1)
\* Mutant: the position moves with every row of the event.
LastRowOrNot(t) == TRUE
LastRow(t) == t = Through(EventOf(t))
\* ack_token, under the commit lock: the acknowledged head leaves the queue, and
\* when it ends with the last row of an event the position is to be saved.
Ack(t) ==
  /\ hand[t] > 0 /\ saving = 0 /\ hand' = [hand EXCEPT ![t] = @ - 1] /\ done' = done \cup {t}
  /\ LET n == Popped(acked \cup {t}) IN
       /\ pending' = SubSeq(pending, n + 1, Len(pending))
       /\ acked' = (acked \cup {t}) \ {pending[i] : i \in 1..n}
       /\ IF n > 0 /\ LastRow(pending[n])
            THEN committed' = EventOf(pending[n]) /\ saving' = committed'
            ELSE UNCHANGED <<committed, saving>>
  /\ UNCHANGED <<log, saved, loaded, stream, buffered, dropped, missed, faults, crashes>>
Save ==
  /\ saving # 0 /\ saved' = saving /\ saving' = 0
  /\ UNCHANGED <<log, loaded, committed, stream, buffered, pending, acked, hand, hist, faults, crashes>>
SaveFails ==
  /\ saving # 0 /\ faults < MaxFaults /\ faults' = faults + 1 /\ saving' = 0
  /\ UNCHANGED <<log, saved, loaded, committed, stream, buffered, pending, acked, hand, hist, crashes>>
\* retry sleeps and fail returns: the row is not delivered again.  So the retry of a
\* row whose ack raised changes nothing.
Drop(t) ==
  /\ Retries /\ hand[t] > 0 /\ hand' = [hand EXCEPT ![t] = @ - 1] /\ dropped' = dropped \cup {t}
  /\ UNCHANGED <<log, saved, src, done, missed, faults, crashes>>

\* close drops the stream and keeps the queues; a later fetch reads again from
\* the committed position.
Reopen ==
  /\ Reopens /\ stream # 0 /\ (\A t \in AllRows : hand[t] = 0) /\ saving = 0 /\ faults < MaxFaults /\ faults' = faults + 1
  /\ stream' = 0
  /\ UNCHANGED <<log, saved, loaded, committed, buffered, pending, acked, saving, hand, hist, crashes>>

Crash ==
  /\ crashes < MaxCrashes /\ crashes' = crashes + 1
  /\ loaded' = FALSE /\ committed' = -1 /\ stream' = 0 /\ buffered' = <<>> /\ pending' = <<>>
  /\ acked' = {} /\ saving' = 0 /\ hand' = [t \in AllRows |-> 0] /\ dropped' = {} /\ missed' = {}
  /\ UNCHANGED <<log, saved, done, faults>>

Next ==
  \/ Write \/ Open \/ Fetch \/ FetchDropped \/ FetchCancelled \/ Save \/ SaveFails \/ Reopen \/ Crash
  \/ \E t \in AllRows : Ack(t) \/ Drop(t)
Spec == Init /\ [][Next]_vars
FairSpec == Spec /\ WF_vars(Open) /\ WF_vars(Fetch) /\ WF_vars(Save)
                 /\ \A t \in AllRows : WF_vars(Ack(t))

-----------------------------------------------------------------------------
(* Properties *)

\* The type invariant.
TypeOK ==
  /\ log \in 0..Len(Ends) /\ saved \in -1..log /\ committed \in -1..log /\ stream \in 0..log + 1
  /\ Range(pending) \cup Range(buffered) \cup acked \cup done \subseteq AllRows
  /\ saving \in 0..log /\ hand \in [AllRows -> Nat]

\* The saved position passes a row only when its handler has succeeded, or when a
\* cancelled fetch of this process has swallowed it: with events of several rows,
\* rows acknowledged out of order, rows that nobody starts and saves that fail.
NothingSkipped ==
  saved # -1 /\ saved' # saved =>
    \A t \in AllRows : Through(saved) < t /\ t <= Through(saved') => t \in done' \cup missed'

\* A position that was saved is behind or at the committed one: a failed save is
\* made up for by a later one, and the position never moves back.
SavedFollows == saved' >= saved

\* A row is held at most once by the queue as long as the source stays open.
HeldOnce == \A i, j \in 1..Len(pending) : i # j => pending[i] # pending[j]

\* Once the source has started, every later row is handled in the end, unless its
\* fetch was cancelled or dropped.
EveryRowHandled ==
  \A t \in AllRows :
    (loaded /\ Through(committed) < t /\ t <= Through(log)) ~> (t \in done \cup missed \cup dropped)

==============================================================================
