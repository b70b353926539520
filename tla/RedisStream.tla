------------------------------ MODULE RedisStream -----------------------------
(* A Redis stream read through a consumer group by onestep-redis: new entries *)
(* and the consumer's pending entries list (PEL), retries that leave an entry *)
(* pending, trimming by senders, and restarts under a new or the same name.   *)
EXTENDS Integers, FiniteSets, FiniteSetsExt

CONSTANTS MaxAdded,   \* entries are 1..MaxAdded
          Bad,        \* entries without a body that decodes
          Batch,      \* batch_size
          MaxLen,     \* maxlen of XADD, 0 if not set
          Named,      \* is the consumer's name configured?
          Concurrency, \* the task's handler slots
          MaxRetries, MaxCrashes, MaxFaults   \* bounds
Entries == 1..MaxAdded

VARIABLES added,     \* entries 1..added were sent
          floor,     \* entries up to here were trimmed
          cursor,    \* the group's last delivered entry, -1 without a group
          start,     \* where the group was created
          pel,       \* consumer -> its pending entries
          me,        \* this process's consumer name
          opened, refs,
          hand,      \* entry -> handlers at work on it
          done,      \* entries handled for good
          retries, crashes, faults
bounds == <<retries, crashes, faults>>
vars == <<added, floor, cursor, start, pel, me, opened, refs, hand, done, bounds>>

Init ==
  /\ added = 0 /\ floor = 0 /\ cursor = -1 /\ start = -1 /\ me = 0 /\ opened = FALSE /\ refs = 0
  /\ pel = [c \in 0..MaxCrashes |-> {}] /\ hand = [e \in Entries |-> 0] /\ done = {}
  /\ retries = 0 /\ crashes = 0 /\ faults = 0

-----------------------------------------------------------------------------
(* The connection *)

\* open: acquire, then XGROUP CREATE at "$"; an existing group is kept.
Open ==
  /\ ~opened /\ opened' = TRUE /\ refs' = refs + 1
  /\ cursor' = IF cursor = -1 THEN added ELSE cursor
  /\ start' = IF cursor = -1 THEN added ELSE start
  /\ UNCHANGED <<added, floor, pel, me, hand, done, bounds>>
\* XGROUP CREATE fails: the acquired reference is kept.
OpenFails ==
  /\ ~opened /\ faults < MaxFaults /\ faults' = faults + 1 /\ refs' = refs + 1
  /\ UNCHANGED <<added, floor, cursor, start, pel, me, opened, hand, done, retries, crashes>>
\* _reset_transport_state after a failed fetch or send, and close.
Reset ==
  /\ opened /\ faults < MaxFaults /\ faults' = faults + 1 /\ opened' = FALSE
  /\ refs' = IF refs > 0 THEN refs - 1 ELSE 0
  /\ UNCHANGED <<added, floor, cursor, start, pel, me, hand, done, retries, crashes>>

-----------------------------------------------------------------------------
(* The stream *)

\* send: XADD, which trims the stream to maxlen entries, read or not.
Send ==
  /\ opened /\ added < MaxAdded /\ added' = added + 1
  /\ floor' = IF MaxLen > 0 /\ added + 1 - MaxLen > floor THEN added + 1 - MaxLen ELSE floor
  /\ UNCHANGED <<cursor, start, pel, me, opened, refs, hand, done, bounds>>

\* The n smallest entries of S.
First(S, n) == {e \in S : Cardinality({f \in S : f < e}) < n}
\* _process_messages: entries without a body that decodes are skipped; a
\* trimmed entry has none any more.
ProcessMessages(S) == {e \in S : e \notin Bad /\ e > floor}
\* The runner asks for at most as many entries as it has free slots.
Limits == 1..Min({Batch, Concurrency - MapThenSumSet(LAMBDA e : hand[e], Entries)})
Handed(S) == [e \in Entries |-> IF e \in S THEN hand[e] + 1 ELSE hand[e]]

\* Mutant: only new entries are read.
PendingNone(n) == {}
\* The first read of fetch: this consumer's pending entries, in order, whether
\* or not a handler is at work on them.
Pending(n) == ProcessMessages(First(pel[me], n))
FetchPending(n) ==
  /\ opened /\ n \in Limits /\ Pending(n) # {}
  /\ hand' = Handed(Pending(n))
  /\ UNCHANGED <<added, floor, cursor, start, pel, me, opened, refs, done, bounds>>
\* The second read, when the first gave no delivery: entries past the cursor.
FetchNew(n) ==
  /\ opened /\ n \in Limits /\ Pending(n) = {}
  /\ LET out == First({e \in Entries : e > cursor /\ e > floor /\ e <= added}, n) IN
       /\ out # {} /\ cursor' = Max(out)
       /\ pel' = [pel EXCEPT ![me] = @ \cup out]
       /\ hand' = Handed(ProcessMessages(out))
  /\ UNCHANGED <<added, floor, start, me, opened, refs, done, bounds>>

\* ack, or fail: XACK takes the entry off the list.
Ack(e) ==
  /\ hand[e] > 0 /\ hand' = [hand EXCEPT ![e] = @ - 1] /\ done' = done \cup {e}
  /\ pel' = [c \in DOMAIN pel |-> pel[c] \ {e}]
  /\ UNCHANGED <<added, floor, cursor, start, me, opened, refs, bounds>>
\* retry: the entry is left pending.
Retry(e) ==
  /\ hand[e] > 0 /\ retries < MaxRetries /\ retries' = retries + 1
  /\ hand' = [hand EXCEPT ![e] = @ - 1]
  /\ UNCHANGED <<added, floor, cursor, start, pel, me, opened, refs, done, crashes, faults>>

\* The process ends; the next one has another default name.
Crash ==
  /\ crashes < MaxCrashes /\ crashes' = crashes + 1
  /\ opened' = FALSE /\ refs' = 0 /\ hand' = [e \in Entries |-> 0]
  /\ me' = IF Named THEN me ELSE me + 1
  /\ UNCHANGED <<added, floor, cursor, start, pel, done, retries, faults>>

Next ==
  \/ Open \/ OpenFails \/ Reset \/ Send \/ Crash
  \/ \E n \in 1..Batch : FetchPending(n) \/ FetchNew(n)
  \/ \E e \in Entries : Ack(e) \/ Retry(e)
Spec == Init /\ [][Next]_vars
FairSpec == Spec /\ WF_vars(Open) /\ WF_vars(FetchPending(1)) /\ WF_vars(FetchNew(1))
                 /\ \A e \in Entries : SF_vars(Ack(e))

-----------------------------------------------------------------------------
(* Properties *)

\* Only acknowledged entries leave the lists, entries in hand are pending
\* unless another handler settled them, and there is at most one list entry.
TypeOK ==
  /\ floor <= added /\ cursor <= added /\ refs \in Nat
  /\ \A c \in DOMAIN pel : pel[c] \subseteq 1..added /\ pel[c] \cap done = {}
  /\ \A e \in Entries : hand[e] > 0 => e \in pel[me] \cup done
  /\ \A c, d \in DOMAIN pel : c # d => pel[c] \cap pel[d] = {}

\* No entry that the group has delivered is forgotten before it is settled,
\* whatever retries, crashes, resets and trimming happen: it is on some list.
NoneForgotten ==
  \A e \in Entries : start < e /\ e <= cursor /\ e > floor /\ e \notin done
     => \E c \in DOMAIN pel : e \in pel[c]

\* An entry is fetched again only when no handler is at work on it.
OneHandler == \A e \in Entries : hand[e] <= 1

\* Every entry that can be handled is handled in the end.
EveryEntryHandled == \A e \in Entries : (cursor # -1 /\ cursor < e /\ e <= added /\ e \notin Bad) ~> (e \in done \/ e <= floor)
==============================================================================
