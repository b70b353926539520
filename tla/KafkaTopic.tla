------------------------------ MODULE KafkaTopic ------------------------------
(* One partition read through onestep-kafka: the offset tracker, commits of   *)
(* the completed prefix, and retries and releases that seek the consumer.     *)
EXTENDS Integers, FiniteSets

CONSTANTS LastOffset,  \* records have the offsets 1..LastOffset
          Gaps,        \* offsets that hold no record (compaction, transactions)
          Batch,       \* batch_size
          OneByOne,    \* is a fetch made only while no record is in hand (concurrency 1)?
          Rebalances,  \* may the partition move to another consumer and come back?
          MaxRetries, MaxStops, MaxFaults, MaxCrashes   \* bounds

Offsets == 1..LastOffset + 1
Records == 1..LastOffset \ Gaps

VARIABLES broker,    \* the group's committed offset
          position,  \* the consumer's position, 0 before it is opened
          next,      \* next_commit_offset of the tracker, 0 before it has a state
          fetched, started, completed,
          fresh,     \* records a fetch returned, not started yet
          hand,      \* number of handlers at work on a record
          commit,    \* the offset being committed under the lock, 0 if none
          done,      \* records acknowledged or failed for good
          retries, stops, faults, crashes
tracker == <<next, fetched, started, completed>>
bounds == <<retries, stops, faults, crashes>>
vars == <<broker, position, tracker, fresh, hand, commit, done, bounds>>

Init ==
  /\ broker = 1 /\ position = 0 /\ next = 0
  /\ fetched = {} /\ started = {} /\ completed = {}
  /\ fresh = {} /\ hand = [r \in Records |-> 0] /\ commit = 0 /\ done = {}
  /\ retries = 0 /\ stops = 0 /\ faults = 0 /\ crashes = 0

\* _state: the next offset to commit is created by the first record and moved
\* back by a record below it.
State(o) == IF next = 0 \/ o < next THEN o ELSE next
Smallest(S) == CHOOSE o \in S : \A p \in S : o <= p
Largest(S) == CHOOSE o \in S : \A p \in S : p <= o

-----------------------------------------------------------------------------
(* Fetching *)

\* _open_consumer: the group's committed offset is where reading starts.
OpenConsumer ==
  /\ position = 0 /\ position' = broker
  /\ UNCHANGED <<broker, tracker, fresh, hand, commit, done, bounds>>

Available == {r \in Records : r >= position}
Taken(n) == {r \in Available : Cardinality({q \in Available : q < r}) < n}
\* fetch: getmany, then every record is marked under the offset lock.
Fetch(n) ==
  /\ position # 0 /\ fresh = {} /\ commit = 0 /\ n \in 1..Batch /\ Available # {}
  /\ OneByOne => \A r \in Records : hand[r] = 0
  /\ LET out == Taken(n) IN
       /\ fresh' = out /\ position' = 1 + Largest(out)
       /\ fetched' = fetched \cup out
       /\ next' = State(Smallest(out))
  /\ UNCHANGED <<broker, started, completed, hand, commit, done, bounds>>

\* mark_started for the records the runner hands to handlers.
Start ==
  /\ fresh # {} /\ commit = 0
  /\ started' = started \cup fresh
  /\ next' = State(Smallest(fresh))
  /\ hand' = [r \in Records |-> IF r \in fresh THEN hand[r] + 1 ELSE hand[r]]
  /\ fresh' = {}
  /\ UNCHANGED <<broker, position, fetched, completed, commit, done, bounds>>

\* release_unstarted_record for each fetched record in turn, by offset: the last
\* seek wins.
Released == fresh \ (started \cup completed)
Release ==
  /\ fresh # {} /\ commit = 0 /\ stops < MaxStops /\ stops' = stops + 1
  /\ next' = State(Smallest(fresh))
  /\ fetched' = fetched \ Released
  /\ position' = IF Released = {} THEN position ELSE Largest(Released)
  /\ fresh' = {}
  /\ UNCHANGED <<broker, started, completed, hand, commit, done, retries, faults, crashes>>

-----------------------------------------------------------------------------
(* Outcomes *)

\* Mutant: whatever is completed is committable.
CommittableMax(n, S) == IF S = {} THEN n ELSE 1 + Largest(S)
\* _next_committable_offset: past the completed offsets that follow each other.
Committable(n, S) ==
  CHOOSE o \in n..LastOffset + 1 : (\A p \in n..o - 1 : p \in S) /\ o \notin S
\* ack_record: mark_completed, and a commit when the prefix has grown.
Ack(r) ==
  /\ hand[r] > 0 /\ commit = 0 /\ hand' = [hand EXCEPT ![r] = @ - 1]
  /\ done' = done \cup {r} /\ completed' = completed \cup {r}
  /\ next' = State(r)
  /\ commit' = IF Committable(next', completed') = next' THEN 0
               ELSE Committable(next', completed')
  /\ UNCHANGED <<broker, position, fetched, started, fresh, bounds>>
\* The commit is answered: mark_committed forgets everything below it.
Committed ==
  /\ commit # 0 /\ broker' = commit /\ commit' = 0
  /\ next' = commit
  /\ fetched' = {o \in fetched : o >= commit} /\ started' = {o \in started : o >= commit}
  /\ completed' = {o \in completed : o >= commit}
  /\ UNCHANGED <<position, fresh, hand, done, bounds>>
CommitFails ==
  /\ commit # 0 /\ faults < MaxFaults /\ faults' = faults + 1 /\ commit' = 0
  /\ broker' \in {broker, commit}
  /\ UNCHANGED <<position, tracker, fresh, hand, done, retries, stops, crashes>>

\* retry: after the delay the consumer is sent back to the record.
Retry(r) ==
  /\ hand[r] > 0 /\ commit = 0 /\ retries < MaxRetries /\ retries' = retries + 1
  /\ hand' = [hand EXCEPT ![r] = @ - 1]
  /\ position' = r
  /\ UNCHANGED <<broker, tracker, fresh, commit, done, stops, faults, crashes>>

-----------------------------------------------------------------------------
(* Faults *)

Crash ==
  /\ crashes < MaxCrashes /\ crashes' = crashes + 1
  /\ position' = 0 /\ next' = 0 /\ fetched' = {} /\ started' = {} /\ completed' = {}
  /\ fresh' = {} /\ hand' = [r \in Records |-> 0] /\ commit' = 0
  /\ UNCHANGED <<broker, done, retries, stops, faults>>
\* The partition goes to another consumer of the group, which handles some
\* records, and comes back; the tracker is not told.
Rebalance(o) ==
  /\ Rebalances /\ stops < MaxStops /\ stops' = stops + 1
  /\ position # 0 /\ fresh = {} /\ commit = 0 /\ \A r \in Records : hand[r] = 0
  /\ o > broker /\ o <= LastOffset /\ broker' = o /\ position' = o
  /\ done' = done \cup {r \in Records : r < o}
  /\ UNCHANGED <<tracker, fresh, hand, commit, retries, faults, crashes>>

Next ==
  \/ OpenConsumer \/ Start \/ Release \/ Committed \/ CommitFails \/ Crash
  \/ \E n \in 1..Batch : Fetch(n)
  \/ \E r \in Records : Ack(r) \/ Retry(r)
  \/ \E o \in Offsets : Rebalance(o)
Spec == Init /\ [][Next]_vars
FairSpec == Spec /\ WF_vars(OpenConsumer) /\ WF_vars(Fetch(Batch)) /\ WF_vars(Start)
                 /\ WF_vars(Committed) /\ \A r \in Records : WF_vars(Ack(r))

-----------------------------------------------------------------------------
(* Properties *)

\* The offsets stay in the log, and only handled records count as completed.
TypeOK ==
  /\ broker \in Offsets /\ {position, next, commit} \subseteq 0..LastOffset + 1
  /\ completed \subseteq done /\ started \subseteq Records /\ fetched \subseteq Records
  /\ hand \in [Records -> Nat]

\* The committed offset never passes a record that was not acknowledged, with
\* records completed in any order, delivered again by a seek, or replayed.
NothingSkipped == \A r \in Records : r < broker => r \in done

\* Every record is handled in the end.
EveryRecordHandled == \A r \in Records : <>(r \in done)

\* Once everything is handled the group's offset catches up.
OffsetCatchesUp == (Records \subseteq done) ~> (broker = LastOffset + 1)
==============================================================================
