-------------------------- MODULE ExecutionBackend --------------------------
(***************************************************************************)
(* The PostgreSQL execution backend of onestep-sql                         *)
(* (plugins/onestep-sql/.../postgres/execution_backend.py).                *)
(*                                                                         *)
(* State: the executions table, the attempts table, the database clock and *)
(* the claim transactions in progress.  Every other operation is one short *)
(* transaction, hence one action.  A client may call heartbeat, complete   *)
(* and release with ANY lease that was ever issued, at any time: crashed   *)
(* workers, lost replies, retried calls and workers that outlive their     *)
(* lease are all behaviours of that client.                                *)
(*                                                                         *)
(* Claim is the one transaction that reads candidates and updates them     *)
(* later without having locked them (READ COMMITTED), so it is two steps,  *)
(* BeginClaim and FinishClaim, and anything may commit in between.         *)
(*                                                                         *)
(* A lease token (and the attempt id issued with it) is modelled by the    *)
(* position of its attempt in the execution's append-only attempt history: *)
(* every query that uses a token also names the execution, so tokens only  *)
(* have to be fresh per execution.                                         *)
(***************************************************************************)
EXTENDS Integers, Sequences, FiniteSets

CONSTANTS
    Ids,            \* execution ids
    Claimers,       \* sources that call claim()
    TaskNames,      \* TaskNames[c]: the tasks claimer c asks for
    Requests,       \* submissions: [task, key, digest, delay, expires]
    Completions,    \* completions: [status, result, error, delay]
    Unencodable,    \* results that encode_value refuses or that are too large
    LeaseDuration,  \* lease_duration_s
    ClaimLimit,     \* the limit a source passes to claim()
    ReclaimBatch,   \* reclaim_batch_size
    MaxLag,         \* how far a transaction timestamp may lie in the past
    MaxTime,        \* bound on the database clock
    MaxAttempts,    \* bound on the attempts of one execution
    NULL

Waiting  == {"queued", "retrying"}
Leased   == {"running", "cancel_requested"}
Terminal == {"succeeded", "failed", "cancelled", "expired"}
CompletionStatuses == {"succeeded", "retrying", "failed", "cancelled"}
AttemptStatuses == {"running", "lease_lost"} \cup CompletionStatuses

ASSUME BoundsAssumption ==
    /\ LeaseDuration \in Nat \ {0}
    /\ ClaimLimit \in Nat \ {0}
    /\ ReclaimBatch \in Nat \ {0}
    /\ MaxLag \in Nat
    /\ MaxTime \in Nat
    /\ MaxAttempts \in Nat

ASSUME NullAssumption ==
    /\ NULL \notin Nat
    /\ NULL \notin Ids

ASSUME RequestAssumption ==
    \A r \in Requests : r.delay \in Nat /\ r.expires \in Nat \cup {NULL}

ASSUME CompletionAssumption ==
    \A k \in Completions : k.status \in CompletionStatuses /\ k.delay \in Nat

VARIABLES
    exec,      \* exec[i]: row of the executions table, status "absent" before insert
    att,       \* att[i]: rows of the attempts table, in insertion order
    claim,     \* claim[c]: the claim transaction of c in progress
    clock,     \* the database clock
    accepted,  \* submissions answered with an execution, as <<request, id>>
    acked      \* completions answered with a row, as [id, asked, got]

vars == <<exec, att, claim, clock, accepted, acked>>

Absent ==
    [status |-> "absent", req |-> NULL, attempts |-> 0, availableAt |-> 0,
     token |-> NULL, leaseExpires |-> NULL, cancelAsked |-> FALSE,
     result |-> NULL, error |-> NULL, version |-> 0]

Idle == [active |-> FALSE, now |-> 0, expire |-> {}, cancel |-> {}, release |-> {}]

Init ==
    /\ exec = [i \in Ids |-> Absent]
    /\ att = [i \in Ids |-> <<>>]
    /\ claim = [c \in Claimers |-> Idle]
    /\ clock = 0
    /\ accepted = {}
    /\ acked = {}

\* The transaction timestamps a transaction that acts now can have read: its
\* start, which precedes the row locks it had to wait for.
TxnNow == {t \in 0..clock : clock - t <= MaxLag}
-----------------------------------------------------------------------------
(* Submission and cancellation *)

\* The rows the unique index on (namespace, task_name, idempotency_key) compares.
SameKey(r) ==
    {i \in Ids : /\ exec[i].status # "absent"
                 /\ r.key # NULL
                 /\ exec[i].req.task = r.task
                 /\ exec[i].req.key = r.key}

Remember(r, i) == accepted' = IF r.key = NULL THEN accepted ELSE accepted \cup {<<r, i>>}

SubmitInsert(i, r) ==
    /\ exec[i].status = "absent"
    /\ SameKey(r) = {}
    /\ \E now \in TxnNow :
          exec' = [exec EXCEPT ![i] =
                      [Absent EXCEPT !.status = "queued", !.req = r,
                                     !.availableAt = now + r.delay]]
    /\ Remember(r, i)
    /\ UNCHANGED <<att, claim, clock, acked>>

\* Mutant: the digest is not compared.
AnySubmission(i, r) == TRUE

\* The digest decides whether the insert the index refused is a replay; a
\* different digest raises ExecutionConflict and changes nothing.
SameSubmission(i, r) == exec[i].req.digest = r.digest

SubmitReplay(i, r) ==
    /\ i \in SameKey(r)
    /\ SameSubmission(i, r)
    /\ Remember(r, i)
    /\ UNCHANGED <<exec, att, claim, clock, acked>>

\* FOR UPDATE on the row; a terminal or already cancelling row is returned as is.
CancelledRow(row) ==
    [row EXCEPT !.status = IF row.status \in Waiting THEN "cancelled" ELSE "cancel_requested",
                !.cancelAsked = TRUE,
                !.version = @ + 1]

RequestCancel(i) ==
    /\ exec[i].status \in Waiting \cup {"running"}
    /\ exec' = [exec EXCEPT ![i] = CancelledRow(exec[i])]
    /\ UNCHANGED <<att, claim, clock, accepted, acked>>
-----------------------------------------------------------------------------
(* Calls of a lease holder.  The compare-and-swap is on the row as it is at *)
(* the moment of the update, the time is the transaction's.                 *)

HoldsLease(i, t, statuses, now) ==
    /\ exec[i].token = t
    /\ exec[i].status \in statuses
    /\ exec[i].leaseExpires # NULL
    /\ exec[i].leaseExpires > now

AttemptRunning(i, t) == t \in DOMAIN att[i] /\ att[i][t].status = "running"

FinishAttempt(h, t, s) == [h EXCEPT ![t] = [@ EXCEPT !.status = s]]

DropLease(row, s) ==
    [row EXCEPT !.status = s, !.token = NULL, !.leaseExpires = NULL,
                !.version = @ + 1]

RequeuedRow(row, s, now) == [DropLease(row, s) EXCEPT !.availableAt = now]

\* The lease is extended and the version is NOT advanced.
Heartbeat(i, t) ==
    \E now \in TxnNow :
        /\ HoldsLease(i, t, Leased, now)
        /\ AttemptRunning(i, t)
        /\ exec' = [exec EXCEPT ![i].leaseExpires = now + LeaseDuration]
        /\ UNCHANGED <<att, claim, clock, accepted, acked>>

ExpectedStatuses(k) ==
    IF k.status \in {"succeeded", "cancelled"} THEN Leased ELSE {"running"}

CancelWon(row, k) == k.status = "succeeded" /\ row.status = "cancel_requested"

EffectiveStatus(row, k) == IF CancelWon(row, k) THEN "cancelled" ELSE k.status

PersistedResult(k) == IF k.status = "succeeded" THEN k.result ELSE NULL

CompletedRow(row, k, now) ==
    [DropLease(row, EffectiveStatus(row, k)) EXCEPT
        !.result = IF CancelWon(row, k) THEN NULL ELSE PersistedResult(k),
        !.error = IF CancelWon(row, k) THEN NULL ELSE k.error,
        !.availableAt = IF k.status = "retrying" THEN now + k.delay ELSE @]

\* A result that cannot be stored raises ExecutionEncodingError inside the
\* transaction, before the update, unless the cancellation discards it anyway.
Storable(row, k) == k.status = "succeeded" /\ ~CancelWon(row, k) => k.result \notin Unencodable

Acknowledge(i, k, got) ==
    acked' = acked \cup {[id |-> i, asked |-> k, got |-> got]}

Complete(i, t, k) ==
    \E now \in TxnNow :
        /\ Storable(exec[i], k)
        /\ HoldsLease(i, t, ExpectedStatuses(k), now)
        /\ AttemptRunning(i, t)
        /\ exec' = [exec EXCEPT ![i] = CompletedRow(exec[i], k, now)]
        /\ att' = [att EXCEPT ![i] = FinishAttempt(att[i], t, EffectiveStatus(exec[i], k))]
        /\ Acknowledge(i, k, EffectiveStatus(exec[i], k))
        /\ UNCHANGED <<claim, clock, accepted>>

\* Mutant: the replay compares the status only.
SameStatus(i, k) == exec[i].status = k.status /\ exec[i].status \in Terminal

\* The compare-and-swap failed, but the row already says exactly what the
\* caller asked for: the call is answered as if it had made the change.
SameOutcome(i, k) ==
    /\ exec[i].status = k.status
    /\ exec[i].status \in Terminal
    /\ exec[i].result = PersistedResult(k)
    /\ exec[i].error = k.error

CompleteReplay(i, t, k) ==
    /\ \E now \in TxnNow : ~HoldsLease(i, t, ExpectedStatuses(k), now)
    /\ Storable(exec[i], k)
    /\ SameOutcome(i, k)
    /\ Acknowledge(i, k, exec[i].status)
    /\ UNCHANGED <<exec, att, claim, clock, accepted>>

\* Mutant: a release is not refused when a cancellation was requested meanwhile.
ReleaseCancelled(i, t) ==
    \E now \in TxnNow :
        /\ HoldsLease(i, t, Leased, now)
        /\ AttemptRunning(i, t)
        /\ exec' = [exec EXCEPT ![i] = RequeuedRow(exec[i], "queued", now)]
        /\ att' = [att EXCEPT ![i] = FinishAttempt(att[i], t, "lease_lost")]
        /\ UNCHANGED <<claim, clock, accepted, acked>>

\* release(): a delivery that was claimed and never started goes back to the queue.
Release(i, t) ==
    \E now \in TxnNow :
        /\ HoldsLease(i, t, {"running"}, now)
        /\ AttemptRunning(i, t)
        /\ exec' = [exec EXCEPT ![i] = RequeuedRow(exec[i], "queued", now)]
        /\ att' = [att EXCEPT ![i] = FinishAttempt(att[i], t, "lease_lost")]
        /\ UNCHANGED <<claim, clock, accepted, acked>>
-----------------------------------------------------------------------------
(* Claim *)

\* ORDER BY key LIMIT n over the rows S; the tie-break (created_at, id) is arbitrary.
OldestFirst(S, key, n) ==
    {T \in SUBSET S :
        /\ Cardinality(T) = IF Cardinality(S) < n THEN Cardinality(S) ELSE n
        /\ \A x \in T, y \in S \ T : key[x] <= key[y]}

\* Mutant: a lost lease gives no exemption from the deadline.
NoExemption(i) == FALSE

LeaseLostRetry(i) ==
    /\ exec[i].status = "retrying"
    /\ \E t \in DOMAIN att[i] : /\ att[i][t].no = exec[i].attempts
                                /\ att[i][t].status = "lease_lost"

Overdue(i, now) ==
    /\ exec[i].status \in Waiting
    /\ exec[i].req.expires # NULL
    /\ exec[i].req.expires <= now
    /\ ~LeaseLostRetry(i)

LeaseOver(i, s, now) ==
    /\ exec[i].status = s
    /\ exec[i].leaseExpires # NULL
    /\ exec[i].leaseExpires <= now

Candidate(i) == [id |-> i, version |-> exec[i].version, token |-> exec[i].token]

\* The three reclaiming SELECTs; they lock nothing.
BeginClaim(c) ==
    /\ ~claim[c].active
    /\ LET overdue    == {i \in Ids : Overdue(i, clock)}
           cancelling == {i \in Ids : LeaseOver(i, "cancel_requested", clock)}
           lost       == {i \in Ids : LeaseOver(i, "running", clock)}
       IN  \E E \in OldestFirst(overdue, [i \in overdue |-> exec[i].req.expires], ReclaimBatch),
              C \in OldestFirst(cancelling, [i \in cancelling |-> exec[i].leaseExpires], ReclaimBatch),
              R \in OldestFirst(lost, [i \in lost |-> exec[i].leaseExpires], ReclaimBatch) :
              claim' = [claim EXCEPT ![c] =
                           [active |-> TRUE, now |-> clock,
                            expire |-> {Candidate(i) : i \in E},
                            cancel |-> {Candidate(i) : i \in C},
                            release |-> {Candidate(i) : i \in R}]]
    /\ UNCHANGED <<exec, att, clock, accepted, acked>>

\* The UPDATE of a candidate re-evaluates the whole predicate on the current row.
Unchanged(cand) == exec[cand.id].version = cand.version

\* Mutant: the UPDATE trusts what the SELECT saw.
ExpireUnchecked(c) == {x.id : x \in claim[c].expire}

ToExpire(c) ==
    {i \in Ids : \E x \in claim[c].expire :
        x.id = i /\ Unchanged(x) /\ Overdue(i, claim[c].now)}

ToCancel(c) ==
    {i \in Ids : \E x \in claim[c].cancel :
        /\ x.id = i /\ Unchanged(x) /\ exec[i].token = x.token
        /\ LeaseOver(i, "cancel_requested", claim[c].now)}

\* Mutant: the lease is not checked again; a heartbeat does not change the version.
ReleaseUnchecked(c) ==
    {i \in Ids : \E x \in claim[c].release :
        x.id = i /\ Unchanged(x) /\ exec[i].token = x.token}

ToRelease(c) ==
    {i \in Ids : \E x \in claim[c].release :
        /\ x.id = i /\ Unchanged(x) /\ exec[i].token = x.token
        /\ LeaseOver(i, "running", claim[c].now)}

ExpiredRow(row) == [row EXCEPT !.status = "expired", !.version = @ + 1]

ReclaimedRow(c, i) ==
    IF i \in ToExpire(c) THEN ExpiredRow(exec[i])
    ELSE IF i \in ToCancel(c) THEN DropLease(exec[i], "cancelled")
    ELSE IF i \in ToRelease(c) THEN RequeuedRow(exec[i], "retrying", claim[c].now)
    ELSE exec[i]

ReclaimedAttempts(c, i) ==
    IF ~AttemptRunning(i, exec[i].token) THEN att[i]
    ELSE IF i \in ToCancel(c) THEN FinishAttempt(att[i], exec[i].token, "cancelled")
    ELSE IF i \in ToRelease(c) THEN FinishAttempt(att[i], exec[i].token, "lease_lost")
    ELSE att[i]

\* What the claiming SELECT sees: rows reclaimed by this transaction included.
Claimable(c, i) ==
    /\ ReclaimedRow(c, i).status \in Waiting
    /\ exec[i].req.task \in TaskNames[c]
    /\ ReclaimedRow(c, i).availableAt <= claim[c].now
    /\ \/ exec[i].req.expires = NULL
       \/ exec[i].req.expires > claim[c].now
       \/ i \in ToRelease(c)
       \/ LeaseLostRetry(i)
    /\ exec[i].attempts < MaxAttempts

ClaimedRow(row, t, now) ==
    [row EXCEPT !.status = "running",
                !.attempts = @ + 1,
                !.token = t,
                !.leaseExpires = now + LeaseDuration,
                !.version = @ + 1]

NewAttempt(row) == [no |-> row.attempts + 1, status |-> "running"]

\* The reclaiming UPDATEs, the SELECT ... FOR UPDATE SKIP LOCKED that passes over
\* the rows other transactions have locked, and one UPDATE and INSERT per row.
FinishClaimSkipping(c, locked) ==
    LET free == {i \in Ids \ locked : Claimable(c, i)}
    IN  /\ \E T \in OldestFirst(free, [i \in free |-> ReclaimedRow(c, i).availableAt], ClaimLimit) :
              /\ exec' = [i \in Ids |->
                            IF i \in T
                            THEN ClaimedRow(ReclaimedRow(c, i), Len(att[i]) + 1, claim[c].now)
                            ELSE ReclaimedRow(c, i)]
              /\ att' = [i \in Ids |->
                            IF i \in T THEN Append(ReclaimedAttempts(c, i), NewAttempt(exec[i]))
                                       ELSE ReclaimedAttempts(c, i)]
        /\ claim' = [claim EXCEPT ![c] = Idle]
        /\ UNCHANGED <<clock, accepted, acked>>

FinishClaim(c) ==
    /\ claim[c].active
    /\ \E locked \in SUBSET (Ids \ (ToExpire(c) \cup ToCancel(c) \cup ToRelease(c))) :
          FinishClaimSkipping(c, locked)

\* The connection is lost or the claimer dies: the transaction is rolled back.
AbortClaim(c) ==
    /\ claim[c].active
    /\ claim' = [claim EXCEPT ![c] = Idle]
    /\ UNCHANGED <<exec, att, clock, accepted, acked>>

Tick ==
    /\ clock < MaxTime
    /\ clock' = clock + 1
    /\ UNCHANGED <<exec, att, claim, accepted, acked>>
-----------------------------------------------------------------------------
HolderCall(i, t) ==
    \/ Heartbeat(i, t)
    \/ Release(i, t)
    \/ \E k \in Completions : Complete(i, t, k) \/ CompleteReplay(i, t, k)

ClaimStep(c) == BeginClaim(c) \/ FinishClaim(c) \/ AbortClaim(c)

Next ==
    \/ \E i \in Ids, r \in Requests : SubmitInsert(i, r) \/ SubmitReplay(i, r)
    \/ \E i \in Ids : RequestCancel(i)
    \/ \E i \in Ids : \E t \in DOMAIN att[i] : HolderCall(i, t)
    \/ \E c \in Claimers : ClaimStep(c)
    \/ Tick

Spec == Init /\ [][Next]_vars
-----------------------------------------------------------------------------
(* Properties *)

Statuses == {"absent"} \cup Waiting \cup Leased \cup Terminal

ResultValues == {k.result : k \in Completions} \cup {NULL}
ErrorValues  == {k.error : k \in Completions} \cup {NULL}

Row ==
    [status : Statuses, req : Requests \cup {NULL}, attempts : Nat, availableAt : Nat,
     token : Nat \cup {NULL}, leaseExpires : Nat \cup {NULL}, cancelAsked : BOOLEAN,
     result : ResultValues, error : ErrorValues, version : Nat]

Attempt == [no : Nat, status : AttemptStatuses]

CandidateRow == [id : Ids, version : Nat, token : Nat \cup {NULL}]

ClaimTxn ==
    [active : BOOLEAN, now : Nat, expire : SUBSET CandidateRow,
     cancel : SUBSET CandidateRow, release : SUBSET CandidateRow]

\* The tables, the transactions in progress and the clock keep their types
\* (execution_schema.py: column types and the two status CHECK constraints),
\* and no transaction has a timestamp from the future.
TypeOK ==
    /\ exec \in [Ids -> Row]
    /\ att \in [Ids -> Seq(Attempt)]
    /\ claim \in [Claimers -> ClaimTxn]
    /\ clock \in Nat
    /\ \A c \in Claimers : claim[c].now <= clock
    /\ accepted \subseteq Requests \X Ids
    /\ acked \subseteq [id : Ids, asked : Completions, got : CompletionStatuses]

Agree(row, h) ==
    /\ row.attempts = Len(h)
    /\ (row.status \in Leased) <=> (row.token # NULL)
    /\ (row.token # NULL) <=> (row.leaseExpires # NULL)
    /\ row.token # NULL => row.token = Len(h) /\ Len(h) > 0
    /\ \A t \in DOMAIN h : h[t].no = t
    /\ \A t \in DOMAIN h : (h[t].status = "running") <=> (row.token = t)

\* The executions row and the attempts table agree after every transaction: a
\* row carries a lease exactly while it is running or being cancelled, that
\* lease is the newest attempt, which is the only unfinished one, and the
\* attempts counter is the number of attempts (claim, complete, release and
\* both lease-reclaiming phases each update the two tables separately).
LeaseMatchesAttempt == \A i \in Ids : Agree(exec[i], att[i])

\* Every answer complete() ever gave stays true: a caller told "succeeded" or
\* "failed" finds exactly its result and error in the row for ever, whoever
\* else held the execution before or after (the idempotent-replay branch).
AnswersHold ==
    \A a \in acked :
        a.got \in Terminal =>
            /\ exec[a.id].status = a.got
            /\ a.got = a.asked.status =>
                  /\ exec[a.id].result = PersistedResult(a.asked)
                  /\ exec[a.id].error = a.asked.error

\* One idempotency key names one execution and one submission: two accepted
\* submissions of a task under one key got the same execution and had the same
\* digest (the unique index and the digest comparison of _submit).
KeysAgree ==
    \A x, y \in accepted :
        x[1].task = y[1].task /\ x[1].key = y[1].key =>
            x[2] = y[2] /\ x[1].digest = y[1].digest

\* A cancellation that was accepted is never lost: whatever the worker, the
\* reclaimer or a late completion does, the execution can only end cancelled
\* and its result is never stored (_request_cancel and cancel_won of _complete).
CancelWins ==
    \A i \in Ids :
        exec[i].cancelAsked => /\ exec[i].status \in {"cancel_requested", "cancelled"}
                               /\ exec[i].result = NULL

\* What else holds of one execution and its attempts after every transaction,
\* as far as the proofs need it: agreement of the two tables, a row that is not
\* there has no attempts, only a success has a result, and CancelWins.
RowInv(row, h) ==
    /\ Agree(row, h)
    /\ row.status = "absent" => row.attempts = 0
    /\ row.status # "absent" => row.req \in Requests
    /\ row.status # "succeeded" => row.result = NULL
    /\ row.cancelAsked => row.status \in {"cancel_requested", "cancelled"}

\* The inductive invariant of the proofs.
Inductive == TypeOK /\ \A i \in Ids : RowInv(exec[i], att[i])

\* A finished execution is never touched again, by a late worker, a replayed
\* call or a claim that selected it before it finished.
TerminalIsFinal ==
    [][\A i \in Ids : exec[i].status \in Terminal =>
          exec'[i] = exec[i] /\ att'[i] = att[i]]_vars

\* No execution changes hands while its lease is live: a new attempt starts
\* only on a row without a lease or with one that is over, even though a
\* heartbeat may have landed between the reclaimer's SELECT and its UPDATE.
NoTakeover ==
    [][\A i \in Ids : exec'[i].attempts # exec[i].attempts =>
          exec[i].leaseExpires = NULL \/ exec[i].leaseExpires <= clock]_vars

\* The business deadline bounds starts and never discards work that was lost to
\* a dead worker: an execution becomes "expired" only past its deadline and
\* only if it is not waiting to be re-run after a lost lease, and a start past
\* the deadline is a re-run after a lost lease (_lease_lost_retry_predicate).
DeadlineRule ==
    [][\A i \in Ids :
          LET d           == exec[i].req.expires
              interrupted == /\ exec[i].status \in {"retrying", "running"}
                             /\ att[i] # <<>>
                             /\ att[i][Len(att[i])].status \in {"lease_lost", "running"}
          IN  /\ (exec[i].status # "expired" /\ exec'[i].status = "expired") =>
                     d # NULL /\ d <= clock /\ ~interrupted
              /\ (exec'[i].attempts # exec[i].attempts /\ d # NULL /\ ~interrupted) =>
                     \E c \in Claimers : claim[c].active /\ claim[c].now < d]_vars
-----------------------------------------------------------------------------
(* Refinement *)

PhaseOf(status) ==
    CASE status = "absent"           -> "unknown"
      [] status \in Waiting          -> "waiting"
      [] status = "running"          -> "active"
      [] status = "cancel_requested" -> "stopping"
      [] OTHER                       -> status

JobOf(row) == [phase |-> PhaseOf(row.status), runs |-> row.attempts, result |-> row.result]

Jobs == [i \in Ids |-> JobOf(exec[i])]

Lifecycle == INSTANCE ExecutionLifecycle WITH Jobs <- Ids, Nothing <- NULL, job <- Jobs

\* The backend implements the lifecycle its users see: whatever transactions
\* interleave, every step is, for each execution, one legal move or none.
ImplementsLifecycle == Lifecycle!LifecycleSpec
=============================================================================
