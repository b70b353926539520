------------------------------ MODULE TableQueue ------------------------------
(* A database table used as a task queue (onestep-sql, mysql/connector.py;    *)
(* sqlite claims in one statement).  Rows move between the values that where, *)
(* claim, ack and nack name; nothing in the table says who claimed a row.     *)
EXTENDS Integers, FiniteSets

CONSTANTS Rows,       \* keys: integers, claimed in this order
          Consumers, Batch,
          OneStatement,  \* SQLite: UPDATE ... RETURNING instead of FOR UPDATE
          Nack,       \* what nack sets: "ready", "failed", or "none" when it is empty
          MaxNacks, MaxCrashes   \* bounds

VARIABLES status,   \* committed value of a row
          lock,     \* who holds its row lock
          tx,       \* the claiming transaction of a consumer: rows selected
          hand,     \* rows whose deliveries a consumer has
          refused,  \* rows whose ack has raised, before they are retried or failed
          sleeping, \* rows whose retry waits for its delay
          done,     \* rows whose ack has returned
          doubted,  \* rows with an update that was committed and answered by an error,
                    \* which their consumer therefore settles again
          lost,     \* rows left claimed: their process died, or their last nack failed
          nacks, crashes
held == <<hand, refused, sleeping>>
vars == <<status, lock, tx, held, done, doubted, lost, nacks, crashes>>

Free == "free"
First(S) == {r \in S : Cardinality({q \in S : q < r}) < Batch}
Matching == {r \in Rows : status[r] = "ready"}

Init ==
  /\ status = [r \in Rows |-> "ready"] /\ lock = [r \in Rows |-> Free]
  /\ tx = [c \in Consumers |-> {}] /\ hand = [c \in Consumers |-> {}]
  /\ refused = [c \in Consumers |-> {}] /\ sleeping = [c \in Consumers |-> {}]
  /\ done = {} /\ doubted = {} /\ lost = {} /\ nacks = 0 /\ crashes = 0

-----------------------------------------------------------------------------
(* Claiming *)

\* _fetch: SELECT ... WHERE ... FOR UPDATE SKIP LOCKED, in key order.
Select(c) ==
  /\ ~OneStatement /\ tx[c] = {}
  /\ LET ids == First({r \in Matching : lock[r] = Free}) IN
       /\ ids # {} /\ tx' = [tx EXCEPT ![c] = ids]
       /\ lock' = [r \in Rows |-> IF r \in ids THEN c ELSE lock[r]]
  /\ UNCHANGED <<status, held, done, doubted, lost, nacks, crashes>>
\* The claim is written and committed, the rows are read again and delivered.  Two
\* deliveries of a row to one consumer, which only a doubted row has, are one here.
Claim(c) ==
  /\ tx[c] # {}
  /\ status' = [r \in Rows |-> IF r \in tx[c] THEN "claimed" ELSE status[r]]
  /\ lock' = [r \in Rows |-> IF lock[r] = c THEN Free ELSE lock[r]]
  /\ hand' = [hand EXCEPT ![c] = @ \cup tx[c]] /\ tx' = [tx EXCEPT ![c] = {}]
  /\ UNCHANGED <<refused, sleeping, done, doubted, lost, nacks, crashes>>
\* SQLite: one UPDATE under the write lock selects, claims and returns the rows.
ClaimReturning(c) ==
  /\ OneStatement
  /\ LET ids == First(Matching) IN
       /\ ids # {} /\ hand' = [hand EXCEPT ![c] = @ \cup ids]
       /\ status' = [r \in Rows |-> IF r \in ids THEN "claimed" ELSE status[r]]
  /\ UNCHANGED <<lock, tx, refused, sleeping, done, doubted, lost, nacks, crashes>>
\* The claiming transaction fails and is rolled back.
Rollback(c) ==
  /\ tx[c] # {} /\ nacks < MaxNacks /\ nacks' = nacks + 1
  /\ lock' = [r \in Rows |-> IF lock[r] = c THEN Free ELSE lock[r]]
  /\ tx' = [tx EXCEPT ![c] = {}]
  /\ UNCHANGED <<status, held, done, doubted, lost, crashes>>
\* The claim is committed and its answer is lost: fetch raises, nobody has the rows.
ClaimUnanswered(c) ==
  /\ nacks < MaxNacks /\ nacks' = nacks + 1
  /\ LET ids == IF OneStatement THEN First(Matching) ELSE tx[c] IN
       /\ ids # {} /\ lost' = lost \cup ids
       /\ status' = [r \in Rows |-> IF r \in ids THEN "claimed" ELSE status[r]]
  /\ lock' = [r \in Rows |-> IF lock[r] = c THEN Free ELSE lock[r]]
  /\ tx' = [tx EXCEPT ![c] = {}]
  /\ UNCHANGED <<held, done, doubted, crashes>>

-----------------------------------------------------------------------------
(* Settling: updates by key, whatever the row holds by then *)

Takes(from, c, r) == [from EXCEPT ![c] = @ \ {r}]
Adds(to, c, r) == [to EXCEPT ![c] = @ \cup {r}]
\* The UPDATE waits for the lock of a claiming transaction; an empty one is not sent.
Updates(r, value) ==
  IF value = "none" THEN status' = status
                ELSE lock[r] = Free /\ status' = [status EXCEPT ![r] = value]
\* An update that raises: it failed, or its answer was lost after the commit.
Unanswered(r, value) ==
  /\ value # "none" /\ nacks < MaxNacks /\ nacks' = nacks + 1
  /\ \/ UNCHANGED <<status, doubted>>
     \/ Updates(r, value) /\ doubted' = doubted \cup {r}

\* ack_row
Ack(c, r) ==
  /\ r \in hand[c] /\ hand' = Takes(hand, c, r)
  /\ Updates(r, "done") /\ done' = done \cup {r}
  /\ UNCHANGED <<lock, tx, refused, sleeping, doubted, lost, nacks, crashes>>
\* The ack raises: the executor handles it like an exception of the handler and
\* retries or fails the delivery.
AckFails(c, r) ==
  /\ r \in hand[c] /\ hand' = Takes(hand, c, r) /\ refused' = Adds(refused, c, r)
  /\ Unanswered(r, "done")
  /\ UNCHANGED <<lock, tx, sleeping, done, lost, crashes>>

\* What the executor retries or fails: a handler's exception, or an ack that raised.
Handled(c, r) ==
  \/ /\ r \in hand[c] /\ hand' = Takes(hand, c, r) /\ refused' = refused
     /\ nacks < MaxNacks /\ nacks' = nacks + 1
  \/ /\ r \in refused[c] /\ refused' = Takes(refused, c, r) /\ hand' = hand
     /\ nacks' = nacks
\* Mutant: the row is given back at once and again after the delay.
RetryTwice(c, r) ==
  /\ Handled(c, r) /\ sleeping' = Adds(sleeping, c, r)
  /\ Updates(r, Nack)
  /\ UNCHANGED <<lock, tx, done, doubted, lost, crashes>>
\* retry_row sleeps for the delay before the row is given back.
Retry(c, r) ==
  /\ Handled(c, r) /\ sleeping' = Adds(sleeping, c, r)
  /\ UNCHANGED <<status, lock, tx, done, doubted, lost, crashes>>
RetryWakes(c, r) ==
  /\ r \in sleeping[c] /\ sleeping' = Takes(sleeping, c, r)
  /\ Updates(r, Nack)
  /\ UNCHANGED <<lock, tx, hand, refused, done, doubted, lost, nacks, crashes>>
\* fail_row and release_row: nack at once.
Fail(c, r) ==
  /\ Handled(c, r) /\ Updates(r, Nack)
  /\ UNCHANGED <<lock, tx, sleeping, done, doubted, lost, crashes>>
\* fail_row raises: the executor retries the delivery instead, without a delay.
FailFails(c, r) ==
  /\ \/ r \in hand[c] /\ hand' = Takes(hand, c, r) /\ refused' = refused
     \/ r \in refused[c] /\ refused' = Takes(refused, c, r) /\ hand' = hand
  /\ sleeping' = Adds(sleeping, c, r) /\ Unanswered(r, Nack)
  /\ UNCHANGED <<lock, tx, done, lost, crashes>>
\* The nack of a retry or of a release raises: nobody settles the row again.
NackFails(c, r) ==
  /\ \/ r \in hand[c] /\ hand' = Takes(hand, c, r) /\ sleeping' = sleeping
     \/ r \in sleeping[c] /\ sleeping' = Takes(sleeping, c, r) /\ hand' = hand
  /\ Nack # "none" /\ nacks < MaxNacks /\ nacks' = nacks + 1
  /\ \/ status' = status /\ lost' = lost \cup {r}
     \/ Updates(r, Nack) /\ lost' = lost
  /\ UNCHANGED <<lock, tx, refused, done, doubted, crashes>>
GiveBack(c, r) == r \in refused[c] /\ Retry(c, r)

\* A consumer dies: its transaction is rolled back, its claims stay.
Crash(c) ==
  /\ crashes < MaxCrashes /\ crashes' = crashes + 1
  /\ lock' = [r \in Rows |-> IF lock[r] = c THEN Free ELSE lock[r]]
  /\ lost' = lost \cup hand[c] \cup refused[c] \cup sleeping[c]
  /\ tx' = [tx EXCEPT ![c] = {}] /\ hand' = [hand EXCEPT ![c] = {}]
  /\ refused' = [refused EXCEPT ![c] = {}] /\ sleeping' = [sleeping EXCEPT ![c] = {}]
  /\ UNCHANGED <<status, done, doubted, nacks>>

Next ==
  \E c \in Consumers :
    \/ Select(c) \/ Claim(c) \/ ClaimReturning(c) \/ Rollback(c)
    \/ ClaimUnanswered(c) \/ Crash(c)
    \/ \E r \in Rows : \/ Ack(c, r) \/ Retry(c, r) \/ RetryWakes(c, r) \/ Fail(c, r)
                       \/ AckFails(c, r) \/ FailFails(c, r) \/ NackFails(c, r)
Spec == Init /\ [][Next]_vars
\* Consumers poll, handlers end, delays pass.
FairSpec == Spec /\ \A c \in Consumers :
                      /\ WF_vars(Select(c) \/ Claim(c) \/ ClaimReturning(c))
                      /\ \A r \in Rows : /\ WF_vars(Ack(c, r)) /\ WF_vars(RetryWakes(c, r))
                                         /\ WF_vars(GiveBack(c, r))

-----------------------------------------------------------------------------
(* Properties *)

\* The type invariant.
TypeOK ==
  /\ status \in [Rows -> {"ready", "claimed", "done", "failed"}]
  /\ lock \in [Rows -> Consumers \cup {Free}]
  /\ \A c \in Consumers :
       /\ tx[c] = {r \in Rows : lock[r] = c}
       /\ (hand[c] \cap refused[c]) \cup (hand[c] \cap sleeping[c])
            \cup (refused[c] \cap sleeping[c]) \subseteq doubted
  /\ done \cup doubted \cup lost \subseteq Rows

\* Two consumers work on the same row only after the answer of a settlement of that
\* row was lost and the executor settled it again: however claims, retries,
\* failures, failed updates and crashes interleave, the claim keeps them apart.
OneWorker ==
  \A c, d \in Consumers : c # d =>
    (tx[c] \cup hand[c] \cup refused[c] \cup sleeping[c])
      \cap (tx[d] \cup hand[d] \cup refused[d] \cup sleeping[d]) \subseteq doubted

\* Of the rows no answer was lost about, those marked done are the ones whose ack
\* returned: a late nack never gives back a row that someone acknowledged.
DoneIsDone == \A r \in Rows \ doubted : status[r] = "done" <=> r \in done

\* Every row is handled in the end, or left claimed.
EveryRowDone == \A r \in Rows : <>(status[r] = "done" \/ r \in lost)

==============================================================================
