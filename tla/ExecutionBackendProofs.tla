----------------------- MODULE ExecutionBackendProofs -----------------------
(***************************************************************************)
(* Proofs about ExecutionBackend for every set of executions, claimers and *)
(* submissions and every value of the bounds.                              *)
(***************************************************************************)
EXTENDS ExecutionBackend, SequenceTheorems, TLAPS

-----------------------------------------------------------------------------
(* Lemmas about the row operators *)

\* Giving up a lease keeps a row a row and touches only the lease, the status
\* and the version.
LEMMA DropLeaseRow ==
    ASSUME NEW row \in Row, NEW s \in Statuses
    PROVE  /\ DropLease(row, s) \in Row
           /\ DropLease(row, s).status = s
           /\ DropLease(row, s).token = NULL
           /\ DropLease(row, s).leaseExpires = NULL
           /\ DropLease(row, s).attempts = row.attempts
           /\ DropLease(row, s).req = row.req
           /\ DropLease(row, s).cancelAsked = row.cancelAsked
           /\ DropLease(row, s).result = row.result
           /\ DropLease(row, s).error = row.error
  <1>1. row.version + 1 \in Nat
    BY DEF Row
  <1>2. DropLease(row, s) \in Row
    BY <1>1 DEF DropLease, Row
  <1> QED
    BY <1>2 DEF DropLease, Row

\* The same for a row that also becomes available again.
LEMMA RequeuedRowOK ==
    ASSUME NEW row \in Row, NEW s \in Statuses, NEW now \in Nat
    PROVE  /\ RequeuedRow(row, s, now) \in Row
           /\ RequeuedRow(row, s, now).status = s
           /\ RequeuedRow(row, s, now).token = NULL
           /\ RequeuedRow(row, s, now).leaseExpires = NULL
           /\ RequeuedRow(row, s, now).attempts = row.attempts
           /\ RequeuedRow(row, s, now).req = row.req
           /\ RequeuedRow(row, s, now).cancelAsked = row.cancelAsked
           /\ RequeuedRow(row, s, now).result = row.result
           /\ RequeuedRow(row, s, now).error = row.error
  <1> DEFINE d == DropLease(row, s)
  <1>1. /\ d \in Row
        /\ d.status = s /\ d.token = NULL /\ d.leaseExpires = NULL
        /\ d.attempts = row.attempts /\ d.req = row.req
        /\ d.cancelAsked = row.cancelAsked
        /\ d.result = row.result /\ d.error = row.error
    BY DropLeaseRow
  <1> HIDE DEF d
  <1>2. RequeuedRow(row, s, now) = [d EXCEPT !.availableAt = now]
    BY DEF RequeuedRow, d
  <1>3. [d EXCEPT !.availableAt = now] \in Row
    BY <1>1 DEF Row
  <1> QED
    BY <1>1, <1>2, <1>3 DEF Row

\* Finishing the attempt of a history changes that attempt's status only.
LEMMA FinishAttemptHistory ==
    ASSUME NEW h \in Seq(Attempt), NEW t \in DOMAIN h, NEW s \in AttemptStatuses
    PROVE  /\ FinishAttempt(h, t, s) \in Seq(Attempt)
           /\ Len(FinishAttempt(h, t, s)) = Len(h)
           /\ DOMAIN FinishAttempt(h, t, s) = DOMAIN h
           /\ \A u \in DOMAIN h : FinishAttempt(h, t, s)[u].no = h[u].no
           /\ FinishAttempt(h, t, s)[t].status = s
           /\ \A u \in DOMAIN h \ {t} : FinishAttempt(h, t, s)[u] = h[u]
  <1>1. h[t] \in Attempt
    OBVIOUS
  <1>2. [h[t] EXCEPT !.status = s] \in Attempt
    BY <1>1 DEF Attempt
  <1>3. /\ FinishAttempt(h, t, s) \in Seq(Attempt)
        /\ Len(FinishAttempt(h, t, s)) = Len(h)
    BY <1>2, ExceptSeq DEF FinishAttempt
  <1>4. DOMAIN FinishAttempt(h, t, s) = DOMAIN h
    BY DEF FinishAttempt
  <1>5. FinishAttempt(h, t, s)[t] = [h[t] EXCEPT !.status = s]
    BY DEF FinishAttempt
  <1>6. \A u \in DOMAIN h \ {t} : FinishAttempt(h, t, s)[u] = h[u]
    BY DEF FinishAttempt
  <1>7. [h[t] EXCEPT !.status = s].no = h[t].no /\ [h[t] EXCEPT !.status = s].status = s
    BY <1>1 DEF Attempt
  <1> QED
    BY <1>3, <1>4, <1>5, <1>6, <1>7

\* A row that gives up its lease together with its attempt stays in agreement.
LEMMA FinishAgrees ==
    ASSUME NEW row \in Row, NEW h \in Seq(Attempt), Agree(row, h),
           NEW t \in DOMAIN h, row.token = t,
           NEW s \in AttemptStatuses \ {"running"},
           NEW new \in Row, new.status \notin Leased,
           new.token = NULL, new.leaseExpires = NULL, new.attempts = row.attempts
    PROVE  Agree(new, FinishAttempt(h, t, s))
  <1> DEFINE g == FinishAttempt(h, t, s)
  <1>1. /\ Len(g) = Len(h)
        /\ DOMAIN g = DOMAIN h
        /\ \A u \in DOMAIN h : g[u].no = h[u].no
        /\ g[t].status = s
        /\ \A u \in DOMAIN h \ {t} : g[u] = h[u]
    BY FinishAttemptHistory
  <1>2. \A u \in DOMAIN h : g[u].status # "running"
    BY <1>1 DEF Agree
  <1>3. \A u \in DOMAIN h : u # NULL
    BY NullAssumption
  <1> HIDE DEF g
  <1>4. Agree(new, g)
    BY <1>1, <1>2, <1>3 DEF Agree
  <1> QED
    BY <1>4 DEF g

\* A waiting row that is claimed gets a lease and the attempt for it.
LEMMA ClaimAgrees ==
    ASSUME NEW row \in Row, NEW h \in Seq(Attempt), Agree(row, h),
           row.status \in Waiting, NEW now \in Nat
    PROVE  /\ ClaimedRow(row, Len(h) + 1, now) \in Row
           /\ Append(h, NewAttempt(row)) \in Seq(Attempt)
           /\ Agree(ClaimedRow(row, Len(h) + 1, now), Append(h, NewAttempt(row)))
  <1> DEFINE n == Len(h) + 1
             new == ClaimedRow(row, n, now)
             a == NewAttempt(row)
             g == Append(h, a)
  <1>1. n \in Nat /\ n # NULL
    BY NullAssumption
  <1>2. /\ new \in Row
        /\ new.status = "running" /\ new.token = n
        /\ new.attempts = row.attempts + 1
        /\ new.leaseExpires \in Nat
    <2>1. /\ row.version + 1 \in Nat /\ row.attempts + 1 \in Nat
          /\ now + LeaseDuration \in Nat /\ n \in Nat \cup {NULL}
          /\ "running" \in Statuses
      BY <1>1, BoundsAssumption DEF Row, Statuses, Leased
    <2>2. new \in Row
      BY <2>1 DEF ClaimedRow, Row
    <2> QED
      BY <2>1, <2>2 DEF ClaimedRow, Row
  <1>3. a \in Attempt /\ a.no = n /\ a.status = "running"
    BY DEF NewAttempt, Attempt, Row, Agree, AttemptStatuses
  <1>4. /\ g \in Seq(Attempt) /\ Len(g) = n /\ DOMAIN g = 1..n
        /\ g[n] = a
        /\ \A u \in 1..Len(h) : g[u] = h[u]
    BY <1>3
  <1>5. row.token = NULL /\ row.attempts = Len(h)
    BY DEF Agree, Waiting, Leased
  <1>6. \A u \in 1..Len(h) : h[u].no = u /\ h[u].status # "running"
    BY <1>5, NullAssumption DEF Agree
  <1>7. \A u \in DOMAIN g : u \in 1..Len(h) \/ u = n
    BY <1>4
  <1>8. \A u \in 1..Len(h) : u # n
    OBVIOUS
  <1>9. \A u \in DOMAIN g : g[u].no = u
    BY <1>3, <1>4, <1>6, <1>7
  <1>10. \A u \in DOMAIN g : (g[u].status = "running") <=> (u = n)
    BY <1>3, <1>4, <1>6, <1>7, <1>8
  <1>11. new.leaseExpires # NULL
    BY <1>2, NullAssumption
  <1> HIDE DEF new, g, a
  <1>12. Agree(new, g)
    BY <1>1, <1>2, <1>4, <1>5, <1>9, <1>10, <1>11 DEF Agree, Leased
  <1> QED
    BY <1>2, <1>4, <1>12 DEF new, g, a
-----------------------------------------------------------------------------
(* Every step of the system, seen from one execution *)

Inserted(row, h, new, g) ==
    /\ row.status = "absent" /\ g = h
    /\ \E r \in Requests, a \in Nat :
          new = [Absent EXCEPT !.status = "queued", !.req = r, !.availableAt = a]

CancelAsked(row, h, new, g) ==
    row.status \in Waiting \cup {"running"} /\ new = CancelledRow(row) /\ g = h

Extended(row, h, new, g) ==
    /\ row.status \in Leased /\ g = h
    /\ \E e \in Nat : new = [row EXCEPT !.leaseExpires = e]

\* Any way of giving up a lease: complete, release or a reclaimed lease.
GaveUp(row, h, new, g) ==
    /\ row.status \in Leased /\ row.token \in DOMAIN h
    /\ \E s \in AttemptStatuses \ {"running"} : g = FinishAttempt(h, row.token, s)
    /\ new \in Row
    /\ new.token = NULL /\ new.leaseExpires = NULL
    /\ new.attempts = row.attempts /\ new.req = row.req
    /\ new.cancelAsked = row.cancelAsked
    /\ new.status \in Waiting \cup {"succeeded", "failed", "cancelled"}
    /\ row.status = "cancel_requested" => new.status = "cancelled"
    /\ new.status # "succeeded" => new.result = NULL

DeadlinePassed(row, h, new, g) ==
    row.status \in Waiting /\ new = ExpiredRow(row) /\ g = h

Claimed(row, h, new, g) ==
    /\ row.status \in Waiting
    /\ g = Append(h, NewAttempt(row))
    /\ \E now \in Nat : new = ClaimedRow(row, Len(h) + 1, now)

\* The lease is over, it is reclaimed and the execution claimed again in one
\* transaction.
Reclaimed(row, h, new, g) ==
    /\ row.status = "running" /\ row.token \in DOMAIN h
    /\ row.leaseExpires <= clock
    /\ g = Append(FinishAttempt(h, row.token, "lease_lost"), NewAttempt(row))
    /\ \E now \in Nat :
          new = ClaimedRow(RequeuedRow(row, "retrying", now), Len(h) + 1, now)

RowStep(row, h, new, g) ==
    \/ new = row /\ g = h
    \/ Inserted(row, h, new, g)
    \/ CancelAsked(row, h, new, g)
    \/ Extended(row, h, new, g)
    \/ GaveUp(row, h, new, g)
    \/ DeadlinePassed(row, h, new, g)
    \/ Claimed(row, h, new, g)
    \/ Reclaimed(row, h, new, g)

\* A row that is not there is a row.
LEMMA AbsentRow == Absent \in Row
  BY DEF Absent, Row, Statuses, ResultValues, ErrorValues

\* The two ways a lease is taken away keep the row invariant.
LEMMA GaveUpInv ==
    ASSUME NEW row \in Row, NEW h \in Seq(Attempt), RowInv(row, h),
           NEW new, NEW g, GaveUp(row, h, new, g)
    PROVE  new \in Row /\ g \in Seq(Attempt) /\ RowInv(new, g)
  <1>1. PICK s \in AttemptStatuses \ {"running"} : g = FinishAttempt(h, row.token, s)
    BY DEF GaveUp
  <1>2. g \in Seq(Attempt)
    BY <1>1, FinishAttemptHistory DEF GaveUp
  <1>3. new.status \notin Leased
    BY DEF GaveUp, Leased, Waiting
  <1>4. Agree(new, g)
    BY <1>1, <1>3, FinishAgrees DEF GaveUp, RowInv
  <1> QED
    BY <1>2, <1>4 DEF GaveUp, RowInv, Leased, Waiting

\* Reclaiming leaves each row and its attempts in agreement.
LEMMA ReclaimedInv ==
    ASSUME NEW row \in Row, NEW h \in Seq(Attempt), RowInv(row, h),
           NEW new, NEW g, Reclaimed(row, h, new, g)
    PROVE  new \in Row /\ g \in Seq(Attempt) /\ RowInv(new, g)
  <1>1. PICK now \in Nat :
            new = ClaimedRow(RequeuedRow(row, "retrying", now), Len(h) + 1, now)
    BY DEF Reclaimed
  <1> DEFINE mid == RequeuedRow(row, "retrying", now)
             k == FinishAttempt(h, row.token, "lease_lost")
  <1>2. /\ mid \in Row /\ mid.status = "retrying" /\ mid.token = NULL
        /\ mid.leaseExpires = NULL /\ mid.attempts = row.attempts
        /\ mid.req = row.req /\ mid.cancelAsked = row.cancelAsked
        /\ mid.result = row.result
    BY RequeuedRowOK DEF Statuses, Waiting
  <1>3. k \in Seq(Attempt) /\ Len(k) = Len(h)
    BY FinishAttemptHistory DEF Reclaimed, AttemptStatuses
  <1>4. Agree(mid, k)
    BY <1>2, FinishAgrees DEF Reclaimed, RowInv, AttemptStatuses, Leased
  <1>5. mid.status \in Waiting
    BY <1>2 DEF Waiting
  <1> HIDE DEF mid, k
  <1>6. NewAttempt(mid) = NewAttempt(row)
    BY <1>2 DEF NewAttempt
  <1>7. /\ ClaimedRow(mid, Len(k) + 1, now) \in Row
        /\ Append(k, NewAttempt(mid)) \in Seq(Attempt)
        /\ Agree(ClaimedRow(mid, Len(k) + 1, now), Append(k, NewAttempt(mid)))
    BY <1>2, <1>3, <1>4, <1>5, ClaimAgrees
  <1>8. new = ClaimedRow(mid, Len(k) + 1, now) /\ g = Append(k, NewAttempt(mid))
    BY <1>1, <1>3, <1>6 DEF Reclaimed, mid, k
  <1>9. /\ new.status = "running" /\ new.cancelAsked = mid.cancelAsked
        /\ new.req = mid.req /\ new.result = mid.result
    BY <1>2, <1>8 DEF ClaimedRow, Row
  <1>10. row.status = "running"
    BY DEF Reclaimed
  <1> QED
    BY <1>2, <1>7, <1>8, <1>9, <1>10 DEF RowInv

\* Every row step keeps the row invariant.
LEMMA RowStepInv ==
    ASSUME NEW row \in Row, NEW h \in Seq(Attempt), RowInv(row, h),
           NEW new, NEW g, RowStep(row, h, new, g)
    PROVE  new \in Row /\ g \in Seq(Attempt) /\ RowInv(new, g)
  <1>1. CASE new = row /\ g = h
    BY <1>1
  <1>2. CASE Inserted(row, h, new, g)
    <2>1. PICK r \in Requests, a \in Nat :
              new = [Absent EXCEPT !.status = "queued", !.req = r, !.availableAt = a]
      BY <1>2 DEF Inserted
    <2>2. /\ new \in Row /\ new.status = "queued" /\ new.req = r
          /\ new.attempts = 0 /\ new.token = NULL /\ new.leaseExpires = NULL
          /\ new.result = NULL /\ new.cancelAsked = FALSE
      BY <2>1, AbsentRow DEF Absent, Row, Statuses, Waiting
    <2>3. row.attempts = 0 /\ row.token = NULL /\ g = h
      BY <1>2 DEF Inserted, RowInv, Agree, Leased
    <2>4. Agree(new, h)
      BY <2>2, <2>3 DEF RowInv, Agree, Leased
    <2> QED
      BY <2>2, <2>3, <2>4 DEF RowInv
  <1>3. CASE CancelAsked(row, h, new, g)
    <2>1. row.version + 1 \in Nat
      BY DEF Row
    <2>2. new \in Row
      BY <1>3, <2>1 DEF CancelAsked, CancelledRow, Row, Statuses, Leased, Terminal
    <2>3. /\ new.status = IF row.status \in Waiting THEN "cancelled" ELSE "cancel_requested"
          /\ new.token = row.token /\ new.leaseExpires = row.leaseExpires
          /\ new.attempts = row.attempts /\ new.req = row.req /\ new.result = row.result
      BY <1>3 DEF CancelAsked, CancelledRow, Row
    <2>4. (new.status \in Leased) <=> (row.status \in Leased)
      BY <1>3, <2>3 DEF CancelAsked, Waiting, Leased
    <2>5. Agree(new, h)
      BY <2>3, <2>4 DEF RowInv, Agree
    <2>6. row.status \notin {"absent", "succeeded"} /\ g = h
      BY <1>3 DEF CancelAsked, Waiting
    <2> QED
      BY <2>2, <2>3, <2>5, <2>6 DEF RowInv
  <1>4. CASE Extended(row, h, new, g)
    <2>1. PICK e \in Nat : new = [row EXCEPT !.leaseExpires = e]
      BY <1>4 DEF Extended
    <2>2. /\ new \in Row /\ new.leaseExpires = e
          /\ new.token = row.token /\ new.status = row.status
          /\ new.attempts = row.attempts /\ new.req = row.req
          /\ new.result = row.result /\ new.cancelAsked = row.cancelAsked
      BY <2>1 DEF Row
    <2>3. e # NULL /\ row.leaseExpires # NULL /\ g = h
      BY <1>4, NullAssumption DEF Extended, RowInv, Agree
    <2>4. Agree(new, h)
      BY <2>2, <2>3 DEF RowInv, Agree
    <2> QED
      BY <2>2, <2>3, <2>4 DEF RowInv
  <1>5. CASE GaveUp(row, h, new, g)
    BY <1>5, GaveUpInv
  <1>6. CASE DeadlinePassed(row, h, new, g)
    <2>1. row.version + 1 \in Nat
      BY DEF Row
    <2>2. new \in Row
      BY <1>6, <2>1 DEF DeadlinePassed, ExpiredRow, Row, Statuses, Terminal
    <2>3. /\ new.status = "expired" /\ new.token = row.token
          /\ new.leaseExpires = row.leaseExpires /\ new.attempts = row.attempts
          /\ new.req = row.req /\ new.result = row.result
          /\ new.cancelAsked = row.cancelAsked
      BY <1>6 DEF DeadlinePassed, ExpiredRow, Row
    <2>4. row.status \in Waiting /\ g = h
      BY <1>6 DEF DeadlinePassed
    <2>5. Agree(new, h)
      BY <2>3, <2>4 DEF RowInv, Agree, Waiting, Leased
    <2> QED
      BY <2>2, <2>3, <2>4, <2>5 DEF RowInv, Waiting
  <1>7. CASE Claimed(row, h, new, g)
    <2>1. PICK now \in Nat : new = ClaimedRow(row, Len(h) + 1, now)
      BY <1>7 DEF Claimed
    <2>2. new \in Row /\ g \in Seq(Attempt) /\ Agree(new, g)
      BY <1>7, <2>1, ClaimAgrees DEF Claimed, RowInv
    <2>3. /\ new.status = "running" /\ new.cancelAsked = row.cancelAsked
          /\ new.req = row.req /\ new.result = row.result
      BY <2>1 DEF ClaimedRow, Row
    <2> QED
      BY <1>7, <2>2, <2>3 DEF Claimed, RowInv, Waiting
  <1>8. CASE Reclaimed(row, h, new, g)
    BY <1>8, ReclaimedInv
  <1> QED
    BY <1>1, <1>2, <1>3, <1>4, <1>5, <1>6, <1>7, <1>8 DEF RowStep
-----------------------------------------------------------------------------
(* Every action is a row step of every execution *)

\* What the invariant says of one execution.
LEMMA RowFacts ==
    ASSUME Inductive, NEW i \in Ids
    PROVE  exec[i] \in Row /\ att[i] \in Seq(Attempt) /\ RowInv(exec[i], att[i])
  BY DEF Inductive, TypeOK

\* A step that rewrites the row and the attempts of one execution.
LEMMA OneRow ==
    ASSUME Inductive, NEW i \in Ids, NEW row, NEW h,
           exec' = [exec EXCEPT ![i] = row], att' = [att EXCEPT ![i] = h],
           RowStep(exec[i], att[i], row, h)
    PROVE  /\ exec' = [j \in Ids |-> exec'[j]] /\ att' = [j \in Ids |-> att'[j]]
           /\ \A j \in Ids : RowStep(exec[j], att[j], exec'[j], att'[j])
  <1>1. exec = [j \in Ids |-> exec[j]] /\ att = [j \in Ids |-> att[j]]
    BY DEF Inductive, TypeOK
  <1>2. exec' = [j \in Ids |-> exec'[j]] /\ att' = [j \in Ids |-> att'[j]]
    BY <1>1
  <1>3. ASSUME NEW j \in Ids PROVE RowStep(exec[j], att[j], exec'[j], att'[j])
    <2>1. CASE j = i
      BY <1>1, <2>1
    <2>2. CASE j # i
      BY <1>1, <2>2 DEF RowStep
    <2> QED
      BY <2>1, <2>2
  <1> QED
    BY <1>2, <1>3

\* What the compare-and-swap of a lease holder's call establishes.
LEMMA HolderFacts ==
    ASSUME Inductive, NEW i \in Ids, NEW t \in DOMAIN att[i], NEW S, NEW now,
           HoldsLease(i, t, S, now)
    PROVE  exec[i].status \in Leased /\ exec[i].token = t /\ exec[i].status \in S
  <1>1. t # NULL
    BY RowFacts, NullAssumption
  <1> QED
    BY <1>1, RowFacts DEF HoldsLease, RowInv, Agree

\* heartbeat() is a legal step of every row.
LEMMA HeartbeatRows ==
    ASSUME Inductive, NEW i \in Ids, NEW t \in DOMAIN att[i], Heartbeat(i, t)
    PROVE  /\ exec' = [j \in Ids |-> exec'[j]] /\ att' = [j \in Ids |-> att'[j]]
           /\ \A j \in Ids : RowStep(exec[j], att[j], exec'[j], att'[j])
  <1>1. PICK now \in TxnNow : /\ HoldsLease(i, t, Leased, now)
                              /\ exec' = [exec EXCEPT ![i].leaseExpires = now + LeaseDuration]
                              /\ att' = att
    BY DEF Heartbeat
  <1> DEFINE row == [exec[i] EXCEPT !.leaseExpires = now + LeaseDuration]
  <1>2. now + LeaseDuration \in Nat
    BY BoundsAssumption DEF TxnNow
  <1>3. exec[i].status \in Leased
    BY <1>1, HolderFacts
  <1>4. RowStep(exec[i], att[i], row, att[i])
    BY <1>2, <1>3 DEF RowStep, Extended
  <1>5. exec' = [exec EXCEPT ![i] = row] /\ att' = [att EXCEPT ![i] = att[i]]
    BY <1>1 DEF Inductive, TypeOK
  <1> HIDE DEF row
  <1> QED
    BY <1>4, <1>5, OneRow

\* The row complete() writes.
LEMMA CompletedRowOK ==
    ASSUME NEW row \in Row, NEW k \in Completions, NEW now \in Nat,
           row.status \in ExpectedStatuses(k)
    PROVE  /\ CompletedRow(row, k, now) \in Row
           /\ CompletedRow(row, k, now).status = EffectiveStatus(row, k)
           /\ CompletedRow(row, k, now).token = NULL
           /\ CompletedRow(row, k, now).leaseExpires = NULL
           /\ CompletedRow(row, k, now).attempts = row.attempts
           /\ CompletedRow(row, k, now).req = row.req
           /\ CompletedRow(row, k, now).cancelAsked = row.cancelAsked
           /\ EffectiveStatus(row, k) \in CompletionStatuses
           /\ EffectiveStatus(row, k) # "succeeded" => CompletedRow(row, k, now).result = NULL
           /\ row.status = "cancel_requested" => EffectiveStatus(row, k) = "cancelled"
           /\ EffectiveStatus(row, k) = k.status =>
                 /\ CompletedRow(row, k, now).result = PersistedResult(k)
                 /\ ~CancelWon(row, k)
           /\ ~CancelWon(row, k) => CompletedRow(row, k, now).error = k.error
  <1> DEFINE s == EffectiveStatus(row, k)
             d == DropLease(row, s)
             res == IF CancelWon(row, k) THEN NULL ELSE PersistedResult(k)
             err == IF CancelWon(row, k) THEN NULL ELSE k.error
  <1>1. s \in CompletionStatuses
    BY CompletionAssumption DEF EffectiveStatus, CompletionStatuses
  <1>2. s \in Statuses
    BY <1>1 DEF CompletionStatuses, Statuses, Waiting, Terminal
  <1>3. /\ d \in Row /\ d.status = s /\ d.token = NULL /\ d.leaseExpires = NULL
        /\ d.attempts = row.attempts /\ d.req = row.req /\ d.cancelAsked = row.cancelAsked
    BY <1>2, DropLeaseRow
  <1>4. res \in ResultValues /\ err \in ErrorValues
    BY DEF PersistedResult, ResultValues, ErrorValues
  <1>5. s # "succeeded" => res = NULL
    BY DEF EffectiveStatus, PersistedResult
  <1>6. row.status = "cancel_requested" => s = "cancelled"
    BY CompletionAssumption
       DEF ExpectedStatuses, EffectiveStatus, CancelWon, CompletionStatuses
  <1>7. s = k.status => ~CancelWon(row, k)
    BY DEF EffectiveStatus, CancelWon
  <1>8. now + k.delay \in Nat
    BY CompletionAssumption
  <1> DEFINE av == IF k.status = "retrying" THEN now + k.delay ELSE d.availableAt
  <1>9. av \in Nat
    BY <1>3, <1>8 DEF Row
  <1>10. CompletedRow(row, k, now)
           = [d EXCEPT !.result = res, !.error = err, !.availableAt = av]
    BY DEF CompletedRow
  <1> HIDE DEF s, d, res, err, av
  <1>11. [d EXCEPT !.result = res, !.error = err, !.availableAt = av] \in Row
    BY <1>3, <1>4, <1>9 DEF Row
  <1>12. /\ CompletedRow(row, k, now).result = res
         /\ CompletedRow(row, k, now).error = err
         /\ CompletedRow(row, k, now).status = s
         /\ CompletedRow(row, k, now).token = NULL
         /\ CompletedRow(row, k, now).leaseExpires = NULL
         /\ CompletedRow(row, k, now).attempts = row.attempts
         /\ CompletedRow(row, k, now).req = row.req
         /\ CompletedRow(row, k, now).cancelAsked = row.cancelAsked
    BY <1>3, <1>10 DEF Row
  <1> QED
    BY <1>1, <1>5, <1>6, <1>7, <1>10, <1>11, <1>12 DEF s, res, err

\* complete() is a legal step of every row.
LEMMA CompleteRows ==
    ASSUME Inductive, NEW i \in Ids, NEW t \in DOMAIN att[i], NEW k \in Completions,
           Complete(i, t, k)
    PROVE  /\ exec' = [j \in Ids |-> exec'[j]] /\ att' = [j \in Ids |-> att'[j]]
           /\ \A j \in Ids : RowStep(exec[j], att[j], exec'[j], att'[j])
  <1> DEFINE s == EffectiveStatus(exec[i], k)
  <1>1. PICK now \in TxnNow :
            /\ HoldsLease(i, t, ExpectedStatuses(k), now)
            /\ exec' = [exec EXCEPT ![i] = CompletedRow(exec[i], k, now)]
            /\ att' = [att EXCEPT ![i] = FinishAttempt(att[i], t, s)]
    BY DEF Complete
  <1>2. now \in Nat
    BY DEF TxnNow
  <1>3. /\ exec[i].status \in Leased /\ exec[i].token = t
        /\ exec[i].status \in ExpectedStatuses(k)
    BY <1>1, HolderFacts
  <1> DEFINE new == CompletedRow(exec[i], k, now)
  <1>4. /\ new \in Row /\ new.status = s
        /\ new.token = NULL /\ new.leaseExpires = NULL
        /\ new.attempts = exec[i].attempts /\ new.req = exec[i].req
        /\ new.cancelAsked = exec[i].cancelAsked
        /\ s \in CompletionStatuses
        /\ s # "succeeded" => new.result = NULL
        /\ exec[i].status = "cancel_requested" => s = "cancelled"
    BY <1>2, <1>3, RowFacts, CompletedRowOK
  <1>5. s \in AttemptStatuses \ {"running"}
    BY <1>4 DEF AttemptStatuses, CompletionStatuses
  <1>6. s \in Waiting \cup {"succeeded", "failed", "cancelled"}
    BY <1>4 DEF Waiting, CompletionStatuses
  <1> HIDE DEF s, new
  <1>7. GaveUp(exec[i], att[i], new, FinishAttempt(att[i], t, s))
    BY <1>3, <1>4, <1>5, <1>6 DEF GaveUp
  <1>8. exec' = [exec EXCEPT ![i] = new]
    BY <1>1 DEF new
  <1> QED
    BY <1>1, <1>7, <1>8, OneRow DEF RowStep

\* release() is a legal step of every row.
LEMMA ReleaseRows ==
    ASSUME Inductive, NEW i \in Ids, NEW t \in DOMAIN att[i], Release(i, t)
    PROVE  /\ exec' = [j \in Ids |-> exec'[j]] /\ att' = [j \in Ids |-> att'[j]]
           /\ \A j \in Ids : RowStep(exec[j], att[j], exec'[j], att'[j])
  <1>1. PICK now \in TxnNow :
            /\ HoldsLease(i, t, {"running"}, now)
            /\ exec' = [exec EXCEPT ![i] = RequeuedRow(exec[i], "queued", now)]
            /\ att' = [att EXCEPT ![i] = FinishAttempt(att[i], t, "lease_lost")]
    BY DEF Release
  <1>2. now \in Nat
    BY DEF TxnNow
  <1>3. exec[i].status = "running" /\ exec[i].token = t
    BY <1>1, HolderFacts
  <1> DEFINE new == RequeuedRow(exec[i], "queued", now)
  <1>4. /\ new \in Row /\ new.status = "queued"
        /\ new.token = NULL /\ new.leaseExpires = NULL
        /\ new.attempts = exec[i].attempts /\ new.req = exec[i].req
        /\ new.cancelAsked = exec[i].cancelAsked /\ new.result = exec[i].result
    BY <1>2, RowFacts, RequeuedRowOK DEF Statuses, Waiting
  <1>5. exec[i].result = NULL
    BY <1>3, RowFacts DEF RowInv
  <1>6. exec' = [exec EXCEPT ![i] = new]
    BY <1>1
  <1> HIDE DEF new
  <1>7. GaveUp(exec[i], att[i], new, FinishAttempt(att[i], t, "lease_lost"))
    BY <1>3, <1>4, <1>5 DEF GaveUp, Leased, Waiting, AttemptStatuses
  <1> QED
    BY <1>1, <1>6, <1>7, OneRow DEF RowStep

\* The attempt of a row that carries a lease is in the history and running.
LEMMA LeasedAttempt ==
    ASSUME Inductive, NEW i \in Ids, exec[i].status \in Leased
    PROVE  exec[i].token \in DOMAIN att[i] /\ AttemptRunning(i, exec[i].token)
  <1>1. exec[i].token = Len(att[i]) /\ Len(att[i]) > 0
    BY RowFacts DEF RowInv, Agree
  <1>2. exec[i].token \in DOMAIN att[i]
    BY <1>1, RowFacts
  <1> QED
    BY <1>2, RowFacts DEF RowInv, Agree, AttemptRunning

\* What a claim transaction does to one execution it reclaims.
LEMMA ReclaimFacts ==
    ASSUME Inductive, NEW c \in Claimers, NEW i \in Ids
    PROVE  /\ i \in ToExpire(c) => /\ exec[i].status \in Waiting
                                   /\ ReclaimedRow(c, i) = ExpiredRow(exec[i])
                                   /\ ReclaimedAttempts(c, i) = att[i]
           /\ i \in ToCancel(c) =>
                 /\ exec[i].status = "cancel_requested"
                 /\ ReclaimedRow(c, i) = DropLease(exec[i], "cancelled")
                 /\ ReclaimedAttempts(c, i) = FinishAttempt(att[i], exec[i].token, "cancelled")
           /\ i \in ToRelease(c) =>
                 /\ exec[i].status = "running"
                 /\ ReclaimedRow(c, i) = RequeuedRow(exec[i], "retrying", claim[c].now)
                 /\ ReclaimedAttempts(c, i) = FinishAttempt(att[i], exec[i].token, "lease_lost")
           /\ i \notin ToExpire(c) \cup ToCancel(c) \cup ToRelease(c) =>
                 ReclaimedRow(c, i) = exec[i] /\ ReclaimedAttempts(c, i) = att[i]
  <1>1. /\ i \in ToExpire(c) => exec[i].status \in Waiting
        /\ i \in ToCancel(c) => exec[i].status = "cancel_requested"
        /\ i \in ToRelease(c) => exec[i].status = "running"
    BY DEF ToExpire, ToCancel, ToRelease, Overdue, LeaseOver
  <1>2. /\ i \in ToExpire(c) => i \notin ToCancel(c) /\ i \notin ToRelease(c)
        /\ i \in ToCancel(c) => i \notin ToExpire(c) /\ i \notin ToRelease(c)
        /\ i \in ToRelease(c) => i \notin ToExpire(c) /\ i \notin ToCancel(c)
    BY <1>1 DEF Waiting
  <1>3. i \in ToCancel(c) \cup ToRelease(c) => AttemptRunning(i, exec[i].token)
    BY <1>1, LeasedAttempt DEF Leased
  <1> QED
    BY <1>1, <1>2, <1>3 DEF ReclaimedRow, ReclaimedAttempts

\* The second half of claim() is a legal step of every row, whatever was
\* committed since its SELECTs.
LEMMA FinishClaimRows ==
    ASSUME Inductive, NEW c \in Claimers, FinishClaim(c)
    PROVE  /\ exec' = [j \in Ids |-> exec'[j]] /\ att' = [j \in Ids |-> att'[j]]
           /\ \A j \in Ids : RowStep(exec[j], att[j], exec'[j], att'[j])
  <1>1. PICK locked : FinishClaimSkipping(c, locked)
    BY DEF FinishClaim
  <1>2. PICK T \in SUBSET {i \in Ids \ locked : Claimable(c, i)} :
          /\ exec' = [i \in Ids |->
                        IF i \in T
                        THEN ClaimedRow(ReclaimedRow(c, i), Len(att[i]) + 1, claim[c].now)
                        ELSE ReclaimedRow(c, i)]
          /\ att' = [i \in Ids |->
                        IF i \in T THEN Append(ReclaimedAttempts(c, i), NewAttempt(exec[i]))
                                   ELSE ReclaimedAttempts(c, i)]
    BY <1>1 DEF FinishClaimSkipping, OldestFirst
  <1>3. claim[c].now \in Nat
    BY DEF Inductive, TypeOK, ClaimTxn
  <1>4. ASSUME NEW i \in Ids PROVE RowStep(exec[i], att[i], exec'[i], att'[i])
    <2> DEFINE row == exec[i]
               h == att[i]
    <2>1. row \in Row /\ h \in Seq(Attempt) /\ RowInv(row, h)
      BY RowFacts
    <2>2. i \in T => ReclaimedRow(c, i).status \in Waiting
      BY <1>2 DEF Claimable
    <2>3. CASE i \in ToExpire(c)
      <3>1. row.status \in Waiting /\ ReclaimedRow(c, i) = ExpiredRow(row)
            /\ ReclaimedAttempts(c, i) = h
        BY <2>3, ReclaimFacts
      <3>2. ExpiredRow(row).status = "expired"
        BY <2>1 DEF ExpiredRow, Row
      <3>3. i \notin T
        BY <2>2, <3>1, <3>2 DEF Waiting
      <3> QED
        BY <1>2, <3>1, <3>3 DEF RowStep, DeadlinePassed
    <2>4. CASE i \in ToCancel(c)
      <3>1. /\ row.status = "cancel_requested"
            /\ ReclaimedRow(c, i) = DropLease(row, "cancelled")
            /\ ReclaimedAttempts(c, i) = FinishAttempt(h, row.token, "cancelled")
        BY <2>4, ReclaimFacts
      <3> DEFINE new == DropLease(row, "cancelled")
      <3>2. /\ new \in Row /\ new.status = "cancelled"
            /\ new.token = NULL /\ new.leaseExpires = NULL
            /\ new.attempts = row.attempts /\ new.req = row.req
            /\ new.cancelAsked = row.cancelAsked /\ new.result = row.result
        BY <2>1, DropLeaseRow DEF Statuses, Terminal
      <3>3. i \notin T
        BY <2>2, <3>1, <3>2 DEF Waiting
      <3>4. row.result = NULL
        BY <2>1, <3>1 DEF RowInv
      <3>5. row.status \in Leased /\ row.token \in DOMAIN h
        BY <3>1, LeasedAttempt DEF Leased
      <3>6. exec'[i] = new /\ att'[i] = FinishAttempt(h, row.token, "cancelled")
        BY <1>2, <3>1, <3>3
      <3> HIDE DEF new
      <3>7. GaveUp(row, h, new, FinishAttempt(h, row.token, "cancelled"))
        BY <3>1, <3>2, <3>4, <3>5 DEF GaveUp, AttemptStatuses, CompletionStatuses
      <3> QED
        BY <3>6, <3>7 DEF RowStep
    <2>5. CASE i \in ToRelease(c)
      <3>1. /\ row.status = "running"
            /\ ReclaimedRow(c, i) = RequeuedRow(row, "retrying", claim[c].now)
            /\ ReclaimedAttempts(c, i) = FinishAttempt(h, row.token, "lease_lost")
        BY <2>5, ReclaimFacts
      <3>2. row.status \in Leased /\ row.token \in DOMAIN h
        BY <3>1, LeasedAttempt DEF Leased
      <3>3. CASE i \in T
        <4>1. /\ exec'[i] = ClaimedRow(RequeuedRow(row, "retrying", claim[c].now),
                                       Len(h) + 1, claim[c].now)
              /\ att'[i] = Append(FinishAttempt(h, row.token, "lease_lost"), NewAttempt(row))
          BY <1>2, <3>1, <3>3
        <4>2. row.leaseExpires \in Nat /\ row.leaseExpires <= claim[c].now
          BY <2>1, <2>5 DEF ToRelease, LeaseOver, Row
        <4>3. row.leaseExpires <= clock
          BY <1>3, <4>2 DEF Inductive, TypeOK
        <4>4. Reclaimed(row, h, exec'[i], att'[i])
          BY <1>3, <3>1, <3>2, <4>1, <4>3 DEF Reclaimed
        <4> QED
          BY <4>4 DEF RowStep
      <3>4. CASE i \notin T
        <4> DEFINE new == RequeuedRow(row, "retrying", claim[c].now)
        <4>1. /\ new \in Row /\ new.status = "retrying"
              /\ new.token = NULL /\ new.leaseExpires = NULL
              /\ new.attempts = row.attempts /\ new.req = row.req
              /\ new.cancelAsked = row.cancelAsked /\ new.result = row.result
          <5>1. "retrying" \in Statuses
            BY DEF Statuses, Waiting
          <5> HIDE DEF row, h
          <5> QED
            BY <1>3, <2>1, <5>1, RequeuedRowOK
        <4>2. row.result = NULL
          BY <2>1, <3>1 DEF RowInv
        <4>3. exec'[i] = new /\ att'[i] = FinishAttempt(h, row.token, "lease_lost")
          BY <1>2, <3>1, <3>4
        <4> HIDE DEF new
        <4>4. GaveUp(row, h, new, FinishAttempt(h, row.token, "lease_lost"))
          BY <3>1, <3>2, <4>1, <4>2 DEF GaveUp, Waiting, AttemptStatuses
        <4> QED
          BY <4>3, <4>4 DEF RowStep
      <3> QED
        BY <3>3, <3>4
    <2>6. CASE i \notin ToExpire(c) \cup ToCancel(c) \cup ToRelease(c)
      <3>1. ReclaimedRow(c, i) = row /\ ReclaimedAttempts(c, i) = h
        BY <2>6, ReclaimFacts
      <3>2. CASE i \in T
        <4>1. Claimed(row, h, exec'[i], att'[i])
          BY <1>2, <1>3, <2>2, <3>1, <3>2 DEF Claimed
        <4> QED
          BY <4>1 DEF RowStep
      <3>3. CASE i \notin T
        BY <1>2, <3>1, <3>3 DEF RowStep
      <3> QED
        BY <3>2, <3>3
    <2> QED
      BY <2>3, <2>4, <2>5, <2>6
  <1>5. exec' = [j \in Ids |-> exec'[j]]
    BY <1>2
  <1>6. att' = [j \in Ids |-> att'[j]]
    BY <1>2
  <1> QED
    BY <1>4, <1>5, <1>6

\* Every step of the system is a row step of every execution.
LEMMA NextRows ==
    ASSUME Inductive, [Next]_vars
    PROVE  /\ exec' = [j \in Ids |-> exec'[j]] /\ att' = [j \in Ids |-> att'[j]]
           /\ \A j \in Ids : RowStep(exec[j], att[j], exec'[j], att'[j])
  <1>1. ASSUME exec' = exec, att' = att
        PROVE  /\ exec' = [j \in Ids |-> exec'[j]] /\ att' = [j \in Ids |-> att'[j]]
               /\ \A j \in Ids : RowStep(exec[j], att[j], exec'[j], att'[j])
    BY <1>1 DEF Inductive, TypeOK, RowStep
  <1>2. ASSUME NEW i \in Ids, NEW r \in Requests, SubmitInsert(i, r)
        PROVE  /\ exec' = [j \in Ids |-> exec'[j]] /\ att' = [j \in Ids |-> att'[j]]
               /\ \A j \in Ids : RowStep(exec[j], att[j], exec'[j], att'[j])
    <2>1. PICK now \in TxnNow :
              exec' = [exec EXCEPT ![i] =
                        [Absent EXCEPT !.status = "queued", !.req = r,
                                       !.availableAt = now + r.delay]]
      BY <1>2 DEF SubmitInsert
    <2>2. now + r.delay \in Nat
      BY RequestAssumption DEF TxnNow
    <2> DEFINE new == [Absent EXCEPT !.status = "queued", !.req = r,
                                     !.availableAt = now + r.delay]
    <2>3. Inserted(exec[i], att[i], new, att[i])
      BY <1>2, <2>2 DEF SubmitInsert, Inserted
    <2>4. exec' = [exec EXCEPT ![i] = new] /\ att' = [att EXCEPT ![i] = att[i]]
      BY <1>2, <2>1 DEF SubmitInsert, Inductive, TypeOK
    <2> HIDE DEF new
    <2> QED
      BY <2>3, <2>4, OneRow DEF RowStep
  <1>3. ASSUME NEW i \in Ids, RequestCancel(i)
        PROVE  /\ exec' = [j \in Ids |-> exec'[j]] /\ att' = [j \in Ids |-> att'[j]]
               /\ \A j \in Ids : RowStep(exec[j], att[j], exec'[j], att'[j])
    <2>1. CancelAsked(exec[i], att[i], CancelledRow(exec[i]), att[i])
      BY <1>3 DEF RequestCancel, CancelAsked
    <2>2. /\ exec' = [exec EXCEPT ![i] = CancelledRow(exec[i])]
          /\ att' = [att EXCEPT ![i] = att[i]]
      BY <1>3 DEF RequestCancel, Inductive, TypeOK
    <2> QED
      BY <2>1, <2>2, OneRow DEF RowStep
  <1>4. ASSUME NEW i \in Ids, NEW t \in DOMAIN att[i], HolderCall(i, t)
        PROVE  /\ exec' = [j \in Ids |-> exec'[j]] /\ att' = [j \in Ids |-> att'[j]]
               /\ \A j \in Ids : RowStep(exec[j], att[j], exec'[j], att'[j])
    <2>1. CASE Heartbeat(i, t)
      BY <2>1, HeartbeatRows
    <2>2. CASE Release(i, t)
      BY <2>2, ReleaseRows
    <2>3. ASSUME NEW k \in Completions, Complete(i, t, k)
          PROVE  /\ exec' = [j \in Ids |-> exec'[j]] /\ att' = [j \in Ids |-> att'[j]]
                 /\ \A j \in Ids : RowStep(exec[j], att[j], exec'[j], att'[j])
      BY <2>3, CompleteRows
    <2>4. CASE \E k \in Completions : CompleteReplay(i, t, k)
      BY <1>1, <2>4 DEF CompleteReplay
    <2> QED
      BY <1>4, <2>1, <2>2, <2>3, <2>4 DEF HolderCall
  <1>5. ASSUME NEW c \in Claimers, ClaimStep(c)
        PROVE  /\ exec' = [j \in Ids |-> exec'[j]] /\ att' = [j \in Ids |-> att'[j]]
               /\ \A j \in Ids : RowStep(exec[j], att[j], exec'[j], att'[j])
    <2>1. CASE FinishClaim(c)
      BY <2>1, FinishClaimRows
    <2>2. CASE BeginClaim(c) \/ AbortClaim(c)
      BY <1>1, <2>2 DEF BeginClaim, AbortClaim
    <2> QED
      BY <1>5, <2>1, <2>2 DEF ClaimStep
  <1>6. CASE Tick
    BY <1>1, <1>6 DEF Tick
  <1>7. CASE \E i \in Ids, r \in Requests : SubmitReplay(i, r)
    BY <1>1, <1>7 DEF SubmitReplay
  <1>8. CASE vars' = vars
    BY <1>1, <1>8 DEF vars
  <1> QED
    BY <1>2, <1>3, <1>4, <1>5, <1>6, <1>7, <1>8 DEF Next
-----------------------------------------------------------------------------
(* The inductive invariant *)

\* The part of the state that is not the two tables: the claim transactions,
\* the clock and the recorded answers.
LEMMA OtherTypes ==
    ASSUME Inductive, [Next]_vars
    PROVE  /\ claim' \in [Claimers -> ClaimTxn]
           /\ clock' \in Nat
           /\ \A c \in Claimers : claim'[c].now <= clock'
           /\ accepted' \subseteq Requests \X Ids
           /\ acked' \subseteq [id : Ids, asked : Completions, got : CompletionStatuses]
  <1>0. /\ claim \in [Claimers -> ClaimTxn] /\ clock \in Nat
        /\ \A c \in Claimers : claim[c].now <= clock
        /\ accepted \subseteq Requests \X Ids
        /\ acked \subseteq [id : Ids, asked : Completions, got : CompletionStatuses]
    BY DEF Inductive, TypeOK
  <1>1. Idle \in ClaimTxn /\ Idle.now = 0
    BY DEF Idle, ClaimTxn
  <1>2. ASSUME NEW c \in Claimers, BeginClaim(c)
        PROVE  claim' \in [Claimers -> ClaimTxn] /\ \A d \in Claimers : claim'[d].now <= clock
    <2>1. PICK E \in SUBSET Ids, C \in SUBSET Ids, R \in SUBSET Ids :
              claim' = [claim EXCEPT ![c] =
                           [active |-> TRUE, now |-> clock,
                            expire |-> {Candidate(i) : i \in E},
                            cancel |-> {Candidate(i) : i \in C},
                            release |-> {Candidate(i) : i \in R}]]
      BY <1>2 DEF BeginClaim, OldestFirst
    <2>2. \A i \in Ids : Candidate(i) \in CandidateRow
      BY RowFacts DEF Candidate, CandidateRow, Row
    <2> DEFINE txn == [active |-> TRUE, now |-> clock,
                       expire |-> {Candidate(i) : i \in E},
                       cancel |-> {Candidate(i) : i \in C},
                       release |-> {Candidate(i) : i \in R}]
    <2>3. /\ {Candidate(i) : i \in E} \in SUBSET CandidateRow
          /\ {Candidate(i) : i \in C} \in SUBSET CandidateRow
          /\ {Candidate(i) : i \in R} \in SUBSET CandidateRow
      BY <2>2
    <2>4. txn \in ClaimTxn /\ txn.now = clock
      BY <1>0, <2>3 DEF ClaimTxn
    <2>5. claim' = [claim EXCEPT ![c] = txn]
      BY <2>1
    <2> HIDE DEF txn
    <2> QED
      BY <1>0, <2>4, <2>5
  <1>3. ASSUME NEW c \in Claimers, claim' = [claim EXCEPT ![c] = Idle]
        PROVE  claim' \in [Claimers -> ClaimTxn] /\ \A d \in Claimers : claim'[d].now <= clock
    BY <1>0, <1>1, <1>3
  <1>4. ASSUME NEW i \in Ids, NEW k \in Completions, NEW s \in CompletionStatuses,
               Acknowledge(i, k, s)
        PROVE  acked' \subseteq [id : Ids, asked : Completions, got : CompletionStatuses]
    BY <1>0, <1>4 DEF Acknowledge
  <1>5. ASSUME NEW i \in Ids, NEW k \in Completions
        PROVE  EffectiveStatus(exec[i], k) \in CompletionStatuses
    BY CompletionAssumption DEF EffectiveStatus, CompletionStatuses
  <1>6. ASSUME NEW i \in Ids, NEW r \in Requests, SubmitInsert(i, r) \/ SubmitReplay(i, r)
        PROVE  /\ accepted' \subseteq Requests \X Ids
               /\ UNCHANGED <<claim, clock, acked>>
    <2>1. <<r, i>> \in Requests \X Ids
      OBVIOUS
    <2>2. Remember(r, i) /\ UNCHANGED <<claim, clock, acked>>
      BY <1>6 DEF SubmitInsert, SubmitReplay
    <2>3. accepted' = accepted \/ accepted' = accepted \cup {<<r, i>>}
      BY <2>2 DEF Remember
    <2> QED
      BY <1>0, <2>1, <2>2, <2>3
  <1>7. ASSUME NEW i \in Ids, NEW t \in DOMAIN att[i], NEW k \in Completions,
               Complete(i, t, k) \/ CompleteReplay(i, t, k)
        PROVE  /\ acked' \subseteq [id : Ids, asked : Completions, got : CompletionStatuses]
               /\ UNCHANGED <<claim, clock, accepted>>
    <2>1. CASE Complete(i, t, k)
      BY <1>4, <1>5, <2>1 DEF Complete
    <2>2. CASE CompleteReplay(i, t, k)
      <3>1. exec[i].status \in CompletionStatuses
        BY <2>2, CompletionAssumption DEF CompleteReplay, SameOutcome
      <3> QED
        BY <1>4, <2>2, <3>1 DEF CompleteReplay
    <2> QED
      BY <1>7, <2>1, <2>2
  <1>8. CASE \E i \in Ids, r \in Requests : SubmitInsert(i, r) \/ SubmitReplay(i, r)
    BY <1>0, <1>6, <1>8
  <1>9. CASE \E i \in Ids : RequestCancel(i)
    BY <1>0, <1>9 DEF RequestCancel
  <1>10. CASE \E i \in Ids : \E t \in DOMAIN att[i] : HolderCall(i, t)
    <2>0. PICK i \in Ids : \E t \in DOMAIN att[i] : HolderCall(i, t)
      BY <1>10
    <2>1. PICK t \in DOMAIN att[i] : HolderCall(i, t)
      BY <2>0
    <2>2. CASE Heartbeat(i, t)
      BY <1>0, <2>2 DEF Heartbeat
    <2>3. CASE Release(i, t)
      BY <1>0, <2>3 DEF Release
    <2>4. CASE \E k \in Completions : Complete(i, t, k) \/ CompleteReplay(i, t, k)
      BY <1>0, <1>7, <2>4
    <2> QED
      BY <2>1, <2>2, <2>3, <2>4 DEF HolderCall
  <1>11. CASE \E c \in Claimers : ClaimStep(c)
    <2>1. PICK c \in Claimers : ClaimStep(c)
      BY <1>11
    <2>2. CASE BeginClaim(c)
      BY <1>0, <1>2, <2>2 DEF BeginClaim
    <2>3. CASE FinishClaim(c)
      BY <1>0, <1>3, <2>3 DEF FinishClaim, FinishClaimSkipping
    <2>4. CASE AbortClaim(c)
      BY <1>0, <1>3, <2>4 DEF AbortClaim
    <2> QED
      BY <2>1, <2>2, <2>3, <2>4 DEF ClaimStep
  <1>12. CASE Tick
    <2>1. \A c \in Claimers : claim[c].now \in Nat
      BY <1>0 DEF ClaimTxn
    <2> QED
      BY <1>0, <1>12, <2>1 DEF Tick
  <1>13. CASE vars' = vars
    BY <1>0, <1>13 DEF vars
  <1> QED
    BY <1>8, <1>9, <1>10, <1>11, <1>12, <1>13 DEF Next

\* The empty tables satisfy the inductive invariant.
LEMMA InitInductive == Init => Inductive
  <1> SUFFICES ASSUME Init PROVE Inductive
    OBVIOUS
  <1>1. Absent \in Row /\ <<>> \in Seq(Attempt)
    BY AbsentRow
  <1>2. Idle \in ClaimTxn /\ Idle.now = 0
    BY DEF Idle, ClaimTxn
  <1>3. RowInv(Absent, <<>>)
    BY DEF RowInv, Agree, Absent, Leased
  <1>4. TypeOK
    BY <1>1, <1>2 DEF Init, TypeOK
  <1> QED
    BY <1>3, <1>4 DEF Init, Inductive

\* Every transaction, and every half of claim(), keeps the inductive invariant.
LEMMA NextInductive == Inductive /\ [Next]_vars => Inductive'
  <1> SUFFICES ASSUME Inductive, [Next]_vars PROVE Inductive'
    OBVIOUS
  <1>1. /\ exec' = [j \in Ids |-> exec'[j]] /\ att' = [j \in Ids |-> att'[j]]
        /\ \A j \in Ids : RowStep(exec[j], att[j], exec'[j], att'[j])
    BY NextRows
  <1>2. \A j \in Ids : /\ exec'[j] \in Row /\ att'[j] \in Seq(Attempt)
                       /\ RowInv(exec'[j], att'[j])
    BY <1>1, RowFacts, RowStepInv
  <1>3. exec' \in [Ids -> Row] /\ att' \in [Ids -> Seq(Attempt)]
    BY <1>1, <1>2
  <1>4. TypeOK'
    BY <1>3, OtherTypes DEF TypeOK
  <1> QED
    BY <1>2, <1>4 DEF Inductive

\* The inductive invariant holds in every reachable state of the backend.
THEOREM InductiveInvariant == Spec => []Inductive
  BY InitInductive, NextInductive, PTL DEF Spec

\* Type correctness: the tables satisfy the schema's CHECK constraints and no
\* transaction timestamp lies in the future, for any number of executions and
\* claimers.
THEOREM TypeCorrect == Spec => []TypeOK
  <1>1. Inductive => TypeOK
    BY DEF Inductive
  <1> QED
    BY <1>1, InductiveInvariant, PTL

\* The executions table and the attempts table agree after every transaction:
\* at most one attempt of an execution is running, it is the newest one, and it
\* runs exactly while the row carries its lease.
THEOREM TablesAgree == Spec => []LeaseMatchesAttempt
  <1>1. Inductive => LeaseMatchesAttempt
    BY DEF Inductive, RowInv, LeaseMatchesAttempt
  <1> QED
    BY <1>1, InductiveInvariant, PTL

\* An accepted cancellation is never lost and never followed by a result.
THEOREM CancellationWins == Spec => []CancelWins
  <1>1. Inductive => CancelWins
    BY DEF Inductive, RowInv, CancelWins
  <1> QED
    BY <1>1, InductiveInvariant, PTL

\* A row step leaves a finished row alone.
LEMMA TerminalRowStep ==
    ASSUME NEW row, NEW h, NEW new, NEW g, RowStep(row, h, new, g), row.status \in Terminal
    PROVE  new = row /\ g = h
  BY DEF RowStep, Inserted, CancelAsked, Extended, GaveUp, DeadlinePassed, Claimed,
         Reclaimed, Terminal, Waiting, Leased

\* No step of any worker, claimer or client changes a finished execution or its
\* attempts.
THEOREM FinishedForGood == Spec => TerminalIsFinal
  <1>1. Inductive /\ [Next]_vars =>
          [\A i \in Ids : exec[i].status \in Terminal =>
              exec'[i] = exec[i] /\ att'[i] = att[i]]_vars
    BY NextRows, TerminalRowStep
  <1> QED
    BY <1>1, InductiveInvariant, PTL DEF Spec, TerminalIsFinal

\* A row step that starts an attempt starts it on a row whose lease is gone or over.
LEMMA StartRowStep ==
    ASSUME NEW row \in Row, NEW h \in Seq(Attempt), RowInv(row, h),
           NEW new, NEW g, RowStep(row, h, new, g), new.attempts # row.attempts
    PROVE  row.leaseExpires = NULL \/ row.leaseExpires <= clock
  <1>1. CASE Claimed(row, h, new, g) \/ Inserted(row, h, new, g)
    BY <1>1 DEF Claimed, Inserted, RowInv, Agree, Waiting, Leased
  <1>2. CASE Reclaimed(row, h, new, g)
    BY <1>2 DEF Reclaimed
  <1>3. CancelAsked(row, h, new, g) => new.attempts = row.attempts
    BY DEF CancelAsked, CancelledRow, Row
  <1>4. Extended(row, h, new, g) => new.attempts = row.attempts
    BY DEF Extended, Row
  <1>5. GaveUp(row, h, new, g) => new.attempts = row.attempts
    BY DEF GaveUp
  <1>6. DeadlinePassed(row, h, new, g) => new.attempts = row.attempts
    BY DEF DeadlinePassed, ExpiredRow, Row
  <1> QED
    BY <1>1, <1>2, <1>3, <1>4, <1>5, <1>6 DEF RowStep

\* No execution changes hands while its lease is live, although the reclaiming
\* SELECT locks nothing.
THEOREM LeasesAreExclusive == Spec => NoTakeover
  <1>1. Inductive /\ [Next]_vars =>
          [\A i \in Ids : exec'[i].attempts # exec[i].attempts =>
              exec[i].leaseExpires = NULL \/ exec[i].leaseExpires <= clock]_vars
    BY NextRows, RowFacts, StartRowStep
  <1> QED
    BY <1>1, InductiveInvariant, PTL DEF Spec, NoTakeover
-----------------------------------------------------------------------------
(* Answers of complete() *)

\* A completion that is answered with a terminal status has made it so.
LEMMA AnswerTrue ==
    ASSUME Inductive, AnswersHold, [Next]_vars
    PROVE  AnswersHold'
  <1> SUFFICES ASSUME NEW a \in acked', a.got \in Terminal
               PROVE  /\ exec'[a.id].status = a.got
                      /\ a.got = a.asked.status =>
                            /\ exec'[a.id].result = PersistedResult(a.asked)
                            /\ exec'[a.id].error = a.asked.error
    BY DEF AnswersHold
  <1>1. CASE a \in acked
    <2>1. a.id \in Ids
      BY <1>1 DEF Inductive, TypeOK
    <2>2. exec[a.id].status \in Terminal
      BY <1>1 DEF AnswersHold
    <2>3. exec'[a.id] = exec[a.id]
      BY <2>1, <2>2, NextRows, TerminalRowStep
    <2> QED
      BY <1>1, <2>3 DEF AnswersHold
  <1>2. CASE a \notin acked
    <2>1. PICK i \in Ids : \E t \in DOMAIN att[i] : HolderCall(i, t)
      BY <1>2 DEF Next, vars, SubmitInsert, SubmitReplay, RequestCancel, ClaimStep,
                  BeginClaim, FinishClaim, FinishClaimSkipping, AbortClaim, Tick
    <2>2. PICK t \in DOMAIN att[i] : HolderCall(i, t)
      BY <2>1
    <2>3. PICK k \in Completions : Complete(i, t, k) \/ CompleteReplay(i, t, k)
      BY <1>2, <2>2 DEF HolderCall, Heartbeat, Release
    <2>4. exec[i] \in Row
      BY RowFacts
    <2>5. CASE Complete(i, t, k)
      <3>1. PICK now \in TxnNow :
              /\ HoldsLease(i, t, ExpectedStatuses(k), now)
              /\ exec' = [exec EXCEPT ![i] = CompletedRow(exec[i], k, now)]
              /\ Acknowledge(i, k, EffectiveStatus(exec[i], k))
        BY <2>5 DEF Complete
      <3>2. a = [id |-> i, asked |-> k, got |-> EffectiveStatus(exec[i], k)]
        BY <1>2, <3>1 DEF Acknowledge
      <3>3. exec'[i] = CompletedRow(exec[i], k, now)
        BY <3>1 DEF Inductive, TypeOK
      <3>4. now \in Nat /\ exec[i].status \in ExpectedStatuses(k)
        BY <3>1, HolderFacts DEF TxnNow
      <3>5. /\ exec'[i].status = EffectiveStatus(exec[i], k)
            /\ EffectiveStatus(exec[i], k) = k.status =>
                  exec'[i].result = PersistedResult(k) /\ exec'[i].error = k.error
        BY <2>4, <3>3, <3>4, CompletedRowOK
      <3> QED
        BY <3>2, <3>5
    <2>6. CASE CompleteReplay(i, t, k)
      <3>1. a = [id |-> i, asked |-> k, got |-> exec[i].status]
        BY <1>2, <2>6 DEF CompleteReplay, Acknowledge
      <3> QED
        BY <2>6, <3>1 DEF CompleteReplay, SameOutcome
    <2> QED
      BY <2>3, <2>5, <2>6
  <1> QED
    BY <1>1, <1>2

\* Every answer complete() ever gave about a finished execution stays true, for
\* callers that replay a completion or call it with a lease they have lost.
THEOREM AnswersStayTrue == Spec => []AnswersHold
  <1>1. Init => AnswersHold
    BY DEF Init, AnswersHold
  <1>2. Inductive /\ AnswersHold /\ [Next]_vars => AnswersHold'
    BY AnswerTrue
  <1> QED
    BY <1>1, <1>2, InductiveInvariant, PTL DEF Spec
-----------------------------------------------------------------------------
(* Refinement *)

\* A row step is one move of the abstract job, or none.
LEMMA RowStepMoves ==
    ASSUME NEW row \in Row, NEW h \in Seq(Attempt), RowInv(row, h),
           NEW new, NEW g, RowStep(row, h, new, g)
    PROVE  JobOf(new) = JobOf(row) \/ Lifecycle!Moved(JobOf(row), JobOf(new))
  <1> DEFINE a == JobOf(row)
             b == JobOf(new)
  <1>0. new \in Row
    BY RowStepInv
  <1>1. /\ a.phase = PhaseOf(row.status) /\ a.runs = row.attempts /\ a.result = row.result
        /\ b.phase = PhaseOf(new.status) /\ b.runs = new.attempts /\ b.result = new.result
    BY DEF JobOf
  <1>2. /\ a = [phase |-> a.phase, runs |-> a.runs, result |-> a.result]
        /\ b = [phase |-> b.phase, runs |-> b.runs, result |-> b.result]
    BY DEF JobOf
  <1>p. /\ PhaseOf("absent") = "unknown"
        /\ \A s \in Waiting : PhaseOf(s) = "waiting"
        /\ PhaseOf("running") = "active"
        /\ PhaseOf("cancel_requested") = "stopping"
        /\ \A s \in Terminal : PhaseOf(s) = s
    BY DEF PhaseOf, Waiting, Terminal
  <1>3. CASE new = row
    BY <1>3
  <1>4. CASE Inserted(row, h, new, g)
    <2>1. /\ new.status = "queued" /\ new.attempts = 0 /\ new.result = NULL
          /\ row.status = "absent" /\ row.attempts = 0 /\ row.result = NULL
      BY <1>4 DEF Inserted, Absent, RowInv
    <2>2. a.phase = "unknown" /\ b = [a EXCEPT !.phase = "waiting"]
      BY <1>1, <1>p, <2>1 DEF JobOf, Waiting
    <2> QED
      BY <2>2 DEF Lifecycle!Moved, Lifecycle!Submitted
  <1>5. CASE CancelAsked(row, h, new, g)
    <2>1. /\ new.status = IF row.status \in Waiting THEN "cancelled" ELSE "cancel_requested"
          /\ new.attempts = row.attempts /\ new.result = row.result
          /\ row.status \in Waiting \cup {"running"}
      BY <1>5 DEF CancelAsked, CancelledRow, Row
    <2>2. CASE row.status \in Waiting
      <3>1. a.phase = "waiting" /\ b = [a EXCEPT !.phase = "cancelled"]
        BY <1>1, <1>p, <2>1, <2>2 DEF JobOf, Terminal
      <3> QED
        BY <3>1 DEF Lifecycle!Moved, Lifecycle!Dropped
    <2>3. CASE row.status = "running"
      <3>1. a.phase = "active" /\ b = [a EXCEPT !.phase = "stopping"]
        BY <1>1, <1>p, <2>1, <2>3 DEF JobOf, Waiting
      <3> QED
        BY <3>1 DEF Lifecycle!Moved, Lifecycle!StopAsked
    <2> QED
      BY <2>1, <2>2, <2>3
  <1>6. CASE Extended(row, h, new, g)
    <2>1. new.status = row.status /\ new.attempts = row.attempts /\ new.result = row.result
      BY <1>6 DEF Extended, Row
    <2> QED
      BY <2>1 DEF JobOf
  <1>7. CASE GaveUp(row, h, new, g)
    <2>1. /\ row.status \in Leased /\ new.attempts = row.attempts
          /\ new.status \in Waiting \cup {"succeeded", "failed", "cancelled"}
          /\ row.status = "cancel_requested" => new.status = "cancelled"
          /\ new.status # "succeeded" => new.result = NULL
      BY <1>7 DEF GaveUp
    <2>2. CASE row.status = "running" /\ new.status \in Waiting
      <3>1. a.phase = "active" /\ b.phase = "waiting" /\ b.runs = a.runs /\ b.result = NULL
        BY <1>1, <1>p, <2>1, <2>2 DEF Waiting
      <3> QED
        BY <3>1 DEF Lifecycle!Moved, Lifecycle!PutBack
    <2>3. CASE row.status = "running" /\ new.status \notin Waiting
      <3>1. /\ a.phase = "active" /\ b.phase = new.status
            /\ new.status \in {"succeeded", "failed", "cancelled"}
            /\ b.runs = a.runs /\ (b.phase # "succeeded" => b.result = NULL)
        BY <1>1, <1>p, <2>1, <2>3 DEF Terminal
      <3> QED
        BY <3>1 DEF Lifecycle!Moved, Lifecycle!Finished
    <2>4. CASE row.status = "cancel_requested"
      <3>1. /\ a.phase = "stopping"
            /\ b = [phase |-> "cancelled", runs |-> a.runs, result |-> NULL]
        BY <1>1, <1>p, <2>1, <2>4 DEF JobOf, Terminal
      <3> QED
        BY <3>1 DEF Lifecycle!Moved, Lifecycle!Stopped
    <2> QED
      BY <2>1, <2>2, <2>3, <2>4 DEF Leased
  <1>8. CASE DeadlinePassed(row, h, new, g)
    <2>1. /\ row.status \in Waiting /\ new.status = "expired"
          /\ new.attempts = row.attempts /\ new.result = row.result
      BY <1>8 DEF DeadlinePassed, ExpiredRow, Row
    <2>2. a.phase = "waiting" /\ b = [a EXCEPT !.phase = "expired"]
      BY <1>1, <1>p, <2>1 DEF JobOf, Terminal
    <2> QED
      BY <2>2 DEF Lifecycle!Moved, Lifecycle!Dropped
  <1>9. CASE Claimed(row, h, new, g)
    <2>1. /\ row.status \in Waiting /\ new.status = "running"
          /\ new.attempts = row.attempts + 1 /\ new.result = row.result
      BY <1>9 DEF Claimed, ClaimedRow, Row
    <2>2. a.phase = "waiting" /\ b = [a EXCEPT !.phase = "active", !.runs = @ + 1]
      BY <1>1, <1>p, <2>1 DEF JobOf
    <2> QED
      BY <2>2 DEF Lifecycle!Moved, Lifecycle!Started
  <1>10. CASE Reclaimed(row, h, new, g)
    <2>1. PICK now \in Nat :
              new = ClaimedRow(RequeuedRow(row, "retrying", now), Len(h) + 1, now)
      BY <1>10 DEF Reclaimed
    <2> DEFINE mid == RequeuedRow(row, "retrying", now)
    <2>2. /\ mid \in Row /\ mid.attempts = row.attempts /\ mid.result = row.result
      <3>1. "retrying" \in Statuses
        BY DEF Statuses, Waiting
      <3> QED
        BY <3>1, RequeuedRowOK
    <2> HIDE DEF mid
    <2>3. new = ClaimedRow(mid, Len(h) + 1, now)
      BY <2>1 DEF mid
    <2>4. /\ row.status = "running" /\ new.status = "running"
          /\ new.attempts = row.attempts + 1 /\ new.result = row.result
      BY <1>10, <2>2, <2>3 DEF Reclaimed, ClaimedRow, Row
    <2>5. a.phase = "active" /\ b = [a EXCEPT !.runs = @ + 1]
      BY <1>1, <1>p, <2>4 DEF JobOf
    <2> QED
      BY <2>5 DEF Lifecycle!Moved, Lifecycle!TakenOver
  <1> QED
    BY <1>3, <1>4, <1>5, <1>6, <1>7, <1>8, <1>9, <1>10 DEF RowStep

\* The backend implements the lifecycle its users see: seen through JobOf, each
\* transaction moves every execution by one legal move or not at all.
THEOREM BackendImplementsLifecycle == Spec => ImplementsLifecycle
  <1>1. Init => Lifecycle!LifecycleInit
    <2>1. PhaseOf("absent") = "unknown"
      BY DEF PhaseOf, Waiting
    <2>2. JobOf(Absent) = [phase |-> "unknown", runs |-> 0, result |-> NULL]
      BY <2>1 DEF JobOf, Absent
    <2> QED
      BY <2>2 DEF Init, Lifecycle!LifecycleInit, Jobs
  <1>2. Inductive /\ [Next]_vars => [Lifecycle!LifecycleNext]_Jobs
    <2> SUFFICES ASSUME Inductive, [Next]_vars PROVE Lifecycle!LifecycleNext
      OBVIOUS
    <2>1. \A j \in Ids : Jobs[j] = JobOf(exec[j]) /\ Jobs'[j] = JobOf(exec'[j])
      BY DEF Jobs
    <2>2. ASSUME NEW j \in Ids
          PROVE  Jobs'[j] = Jobs[j] \/ Lifecycle!Moved(Jobs[j], Jobs'[j])
      <3>1. RowStep(exec[j], att[j], exec'[j], att'[j])
        BY NextRows
      <3>2. exec[j] \in Row /\ att[j] \in Seq(Attempt) /\ RowInv(exec[j], att[j])
        BY RowFacts
      <3>3. \/ JobOf(exec'[j]) = JobOf(exec[j])
            \/ Lifecycle!Moved(JobOf(exec[j]), JobOf(exec'[j]))
        BY <3>1, <3>2, RowStepMoves
      <3> QED
        BY <2>1, <3>3
    <2>3. Jobs' = [j \in Ids |-> Jobs'[j]]
      BY DEF Jobs
    <2> QED
      BY <2>2, <2>3 DEF Lifecycle!LifecycleNext
  <1> QED
    BY <1>1, <1>2, InductiveInvariant, PTL
       DEF Spec, ImplementsLifecycle, Lifecycle!LifecycleSpec

-----------------------------------------------------------------------------
(* Idempotency keys *)

\* What makes KeysAgree inductive: an accepted submission under a key is the one its
\* row keeps, and the unique index holds.
KeyInv ==
    /\ \A x \in accepted :
          /\ exec[x[2]].status # "absent" /\ x[1].key # NULL
          /\ exec[x[2]].req.task = x[1].task /\ exec[x[2]].req.key = x[1].key
          /\ exec[x[2]].req.digest = x[1].digest
    /\ \A i, j \in Ids :
          (/\ exec[i].status # "absent" /\ exec[j].status # "absent" /\ exec[i].req.key # NULL
           /\ exec[i].req.task = exec[j].req.task /\ exec[i].req.key = exec[j].req.key)
          => i = j

\* No step but an insert makes an execution.
AbsentStays == \A j \in Ids : exec[j].status = "absent" => exec'[j].status = "absent"

\* A row that is there stays, with the request it was submitted with.
LEMMA RequestKept ==
    ASSUME NEW row \in Row, NEW h, NEW new, NEW g, RowStep(row, h, new, g), row.status # "absent"
    PROVE  new.status # "absent" /\ new.req = row.req
  <1>1. CASE new = row
    BY <1>1
  <1>2. CASE CancelAsked(row, h, new, g)
    BY <1>2 DEF CancelAsked, CancelledRow, Row
  <1>3. CASE Extended(row, h, new, g)
    BY <1>3 DEF Extended, Row
  <1>4. CASE GaveUp(row, h, new, g)
    BY <1>4 DEF GaveUp, Waiting
  <1>5. CASE DeadlinePassed(row, h, new, g)
    BY <1>5 DEF DeadlinePassed, ExpiredRow, Row
  <1>6. CASE Claimed(row, h, new, g)
    BY <1>6 DEF Claimed, ClaimedRow, Row
  <1>7. CASE Reclaimed(row, h, new, g)
    BY <1>7 DEF Reclaimed, ClaimedRow, RequeuedRow, DropLease, Row
  <1> QED
    BY <1>1, <1>2, <1>3, <1>4, <1>5, <1>6, <1>7 DEF RowStep, Inserted

\* A claim does not make an execution: it updates rows that are there.
LEMMA ClaimMakesNone ==
    ASSUME Inductive, NEW c \in Claimers, FinishClaim(c)
    PROVE  AbsentStays
  <1>1. PICK locked : FinishClaimSkipping(c, locked)
    BY DEF FinishClaim
  <1>2. PICK T \in SUBSET {i \in Ids \ locked : Claimable(c, i)} :
          exec' = [i \in Ids |->
                     IF i \in T
                     THEN ClaimedRow(ReclaimedRow(c, i), Len(att[i]) + 1, claim[c].now)
                     ELSE ReclaimedRow(c, i)]
    BY <1>1 DEF FinishClaimSkipping, OldestFirst
  <1> SUFFICES ASSUME NEW j \in Ids, exec[j].status = "absent"
               PROVE  exec'[j].status = "absent"
    BY DEF AbsentStays
  <1>3. ReclaimedRow(c, j) = exec[j]
    BY ReclaimFacts DEF Waiting
  <1>4. j \notin T
    BY <1>2, <1>3 DEF Claimable, Waiting
  <1> QED
    BY <1>2, <1>3, <1>4

\* Steps that make no execution and accept no submission keep the keys apart.
LEMMA KeysKept ==
    ASSUME Inductive, KeyInv, [Next]_vars, AbsentStays, accepted' = accepted
    PROVE  KeyInv'
  <1>1. \A j \in Ids : exec[j].status # "absent" =>
            exec'[j].status # "absent" /\ exec'[j].req = exec[j].req
    BY NextRows, RowFacts, RequestKept
  <1>2. \A x \in accepted : x[2] \in Ids
    BY DEF Inductive, TypeOK
  <1> QED
    BY <1>1, <1>2 DEF KeyInv, AbsentStays

\* Every step, or none, keeps one key with one execution.
LEMMA NextKeys ==
    ASSUME Inductive, KeyInv, [Next]_vars
    PROVE  KeyInv'
  <1>0. /\ exec \in [Ids -> Row] /\ \A x \in accepted : x[2] \in Ids
        /\ \A r \in Requests, i \in Ids : <<r, i>>[1] = r /\ <<r, i>>[2] = i
    BY DEF Inductive, TypeOK
  <1>1. ASSUME NEW i \in Ids, NEW r \in Requests, SubmitInsert(i, r)
        PROVE  KeyInv'
    <2>1. PICK now \in TxnNow :
              exec' = [exec EXCEPT ![i] =
                        [Absent EXCEPT !.status = "queued", !.req = r,
                                       !.availableAt = now + r.delay]]
      BY <1>1 DEF SubmitInsert
    <2>2. /\ exec'[i].status = "queued" /\ exec'[i].req = r
          /\ \A j \in Ids : j # i => exec'[j] = exec[j]
      BY <1>0, <2>1 DEF Absent
    <2>3. /\ exec[i].status = "absent"
          /\ \A j \in Ids :
                exec[j].status # "absent" /\ r.key # NULL /\ exec[j].req.task = r.task
                    => exec[j].req.key # r.key
      BY <1>1 DEF SubmitInsert, SameKey
    <2>4. \A x \in accepted' : x \in accepted \/ (x = <<r, i>> /\ r.key # NULL)
      BY <1>1 DEF SubmitInsert, Remember
    <2>5. \A x \in accepted : x[2] # i /\ x[2] \in Ids
      BY <1>0, <2>3 DEF KeyInv
    <2>6. ASSUME NEW x \in accepted'
          PROVE  /\ exec'[x[2]].status # "absent" /\ x[1].key # NULL
                 /\ exec'[x[2]].req.task = x[1].task /\ exec'[x[2]].req.key = x[1].key
                 /\ exec'[x[2]].req.digest = x[1].digest
      <3>1. CASE x \in accepted
        BY <2>2, <2>5, <3>1 DEF KeyInv
      <3>2. CASE x = <<r, i>> /\ r.key # NULL
        BY <1>0, <2>2, <3>2
      <3> QED
        BY <2>4, <3>1, <3>2
    <2>7. ASSUME NEW j \in Ids, NEW k \in Ids,
                 exec'[j].status # "absent", exec'[k].status # "absent", exec'[j].req.key # NULL,
                 exec'[j].req.task = exec'[k].req.task, exec'[j].req.key = exec'[k].req.key
          PROVE  j = k
      <3>1. CASE j # i /\ k # i
        BY <2>2, <2>7, <3>1 DEF KeyInv
      <3>2. CASE j = i /\ k # i
        BY <2>2, <2>3, <2>7, <3>2
      <3>3. CASE j # i /\ k = i
        BY <2>2, <2>3, <2>7, <3>3
      <3> QED
        BY <3>1, <3>2, <3>3
    <2> QED
      BY <2>6, <2>7 DEF KeyInv
  <1>2. ASSUME NEW i \in Ids, NEW r \in Requests, SubmitReplay(i, r)
        PROVE  KeyInv'
    <2>1. /\ exec[i].status # "absent" /\ r.key # NULL
          /\ exec[i].req.task = r.task /\ exec[i].req.key = r.key
          /\ exec[i].req.digest = r.digest /\ exec' = exec
      BY <1>2 DEF SubmitReplay, SameKey, SameSubmission
    <2>2. \A x \in accepted' : x \in accepted \/ x = <<r, i>>
      BY <1>2 DEF SubmitReplay, Remember
    <2> QED
      BY <1>0, <2>1, <2>2 DEF KeyInv
  <1>3. ASSUME NEW i \in Ids, RequestCancel(i)
        PROVE  KeyInv'
    <2>1. AbsentStays /\ accepted' = accepted
      BY <1>0, <1>3 DEF RequestCancel, AbsentStays, Waiting
    <2> QED
      BY <2>1, KeysKept
  <1>4. ASSUME NEW i \in Ids, NEW t \in DOMAIN att[i], HolderCall(i, t)
        PROVE  KeyInv'
    <2>1. accepted' = accepted
      BY <1>4 DEF HolderCall, Heartbeat, Release, Complete, CompleteReplay
    <2>2. \/ exec' = exec
          \/ /\ exec[i].status \in Leased
             /\ \A j \in Ids : j # i => exec'[j] = exec[j]
      BY <1>0, <1>4 DEF HolderCall, Heartbeat, Release, Complete, CompleteReplay, HoldsLease,
                        ExpectedStatuses, Leased
    <2>3. AbsentStays
      BY <2>2 DEF AbsentStays, Leased
    <2> QED
      BY <2>1, <2>3, KeysKept
  <1>5. ASSUME NEW c \in Claimers, ClaimStep(c)
        PROVE  KeyInv'
    <2>1. CASE FinishClaim(c)
      <3>1. accepted' = accepted
        BY <2>1 DEF FinishClaim, FinishClaimSkipping
      <3> QED
        BY <2>1, <3>1, ClaimMakesNone, KeysKept
    <2>2. CASE BeginClaim(c) \/ AbortClaim(c)
      BY <2>2 DEF BeginClaim, AbortClaim, KeyInv
    <2> QED
      BY <1>5, <2>1, <2>2 DEF ClaimStep
  <1>6. CASE Tick \/ UNCHANGED vars
    BY <1>6 DEF Tick, vars, KeyInv
  <1> QED
    BY <1>1, <1>2, <1>3, <1>4, <1>5, <1>6 DEF Next

\* One idempotency key names one execution and one submission, for any number of
\* clients, claimers, retried submissions and executions.
THEOREM OneKeyOneExecution == Spec => []KeysAgree
  <1>1. Init => KeyInv
    BY DEF Init, KeyInv, Absent
  <1>2. Inductive /\ KeyInv /\ [Next]_vars => KeyInv'
    BY NextKeys
  <1>3. Inductive /\ KeyInv => KeysAgree
    <2> SUFFICES ASSUME Inductive, KeyInv, NEW x \in accepted, NEW y \in accepted,
                        x[1].task = y[1].task, x[1].key = y[1].key
                 PROVE  x[2] = y[2] /\ x[1].digest = y[1].digest
      BY DEF KeysAgree
    <2>1. x[2] \in Ids /\ y[2] \in Ids
      BY DEF Inductive, TypeOK
    <2>2. x[2] = y[2]
      BY <2>1 DEF KeyInv
    <2> QED
      BY <2>2 DEF KeyInv
  <1> QED
    BY <1>1, <1>2, <1>3, InductiveInvariant, PTL DEF Spec
-----------------------------------------------------------------------------
(* Deadlines *)

\* A run of the execution was cut off: its lease is live, over, or taken back and
\* nobody has started the execution again.
Interrupted(row, h) ==
    /\ row.status \in {"retrying", "running"}
    /\ h # <<>>
    /\ h[Len(h)].status \in {"lease_lost", "running"}

\* What a step of a claimer may do to execution i, as DeadlineRule says.
KeepsDeadline(i) ==
    /\ (exec[i].status # "expired" /\ exec'[i].status = "expired") =>
           /\ exec[i].req.expires # NULL /\ exec[i].req.expires <= clock
           /\ ~Interrupted(exec[i], att[i])
    /\ (/\ exec'[i].attempts # exec[i].attempts /\ exec[i].req.expires # NULL
        /\ ~Interrupted(exec[i], att[i])) =>
           \E c \in Claimers : claim[c].active /\ claim[c].now < exec[i].req.expires

\* The predicate of the queries finds the last attempt, by its number.
LEMMA LostRetry ==
    ASSUME Inductive, NEW i \in Ids, exec[i].status \in Waiting
    PROVE  LeaseLostRetry(i) <=> Interrupted(exec[i], att[i])
  <1> DEFINE row == exec[i]
             h == att[i]
  <1>1. row \in Row /\ h \in Seq(Attempt) /\ RowInv(row, h)
    BY RowFacts
  <1>2. row.attempts = Len(h) /\ row.token = NULL /\ \A t \in DOMAIN h : h[t].no = t
    BY <1>1 DEF RowInv, Agree, Waiting, Leased
  <1>3. \A t \in DOMAIN h : h[t].status # "running"
    BY <1>1, <1>2, NullAssumption DEF RowInv, Agree
  <1>4. \A t \in DOMAIN h : h[t].no = row.attempts <=> t = Len(h)
    BY <1>2
  <1>5. h # <<>> <=> Len(h) \in DOMAIN h
    BY <1>1
  <1> HIDE DEF row, h
  <1>6. (\E t \in DOMAIN h : h[t].no = row.attempts /\ h[t].status = "lease_lost")
          <=> h # <<>> /\ h[Len(h)].status \in {"lease_lost", "running"}
    BY <1>3, <1>4, <1>5
  <1>7. row.status # "running"
    BY DEF row, Waiting
  <1> QED
    BY <1>6, <1>7 DEF LeaseLostRetry, Interrupted, row, h

\* Nobody but a claimer starts an execution or lets it expire.
LEMMA OthersStartNothing ==
    ASSUME Inductive, [Next]_vars, \A c \in Claimers : ~FinishClaim(c), NEW j \in Ids
    PROVE  /\ exec'[j].attempts = exec[j].attempts
           /\ exec'[j].status = "expired" => exec[j].status = "expired"
  <1>1. exec[j] \in Row /\ RowInv(exec[j], att[j]) /\ exec = [i \in Ids |-> exec[i]]
    BY RowFacts DEF Inductive, TypeOK
  <1>2. ASSUME NEW i \in Ids, NEW new, exec' = [exec EXCEPT ![i] = new],
               new.attempts = exec[i].attempts, new.status # "expired"
        PROVE  /\ exec'[j].attempts = exec[j].attempts
               /\ exec'[j].status = "expired" => exec[j].status = "expired"
    BY <1>1, <1>2
  <1>3. ASSUME NEW i \in Ids, NEW r \in Requests, SubmitInsert(i, r)
        PROVE  /\ exec'[j].attempts = exec[j].attempts
               /\ exec'[j].status = "expired" => exec[j].status = "expired"
    <2>1. PICK now \in TxnNow :
              exec' = [exec EXCEPT ![i] =
                        [Absent EXCEPT !.status = "queued", !.req = r,
                                       !.availableAt = now + r.delay]]
      BY <1>3 DEF SubmitInsert, TxnNow
    <2> DEFINE new == [Absent EXCEPT !.status = "queued", !.req = r,
                                     !.availableAt = now + r.delay]
    <2>2. new.attempts = 0 /\ new.status = "queued"
      BY DEF Absent
    <2> HIDE DEF new
    <2>3. exec' = [exec EXCEPT ![i] = new]
      BY <2>1 DEF new
    <2>4. exec[i].attempts = 0
      BY <1>3, RowFacts DEF SubmitInsert, RowInv, Agree
    <2> QED
      BY <1>2, <2>2, <2>3, <2>4
  <1>4. ASSUME NEW i \in Ids, RequestCancel(i)
        PROVE  /\ exec'[j].attempts = exec[j].attempts
               /\ exec'[j].status = "expired" => exec[j].status = "expired"
    <2>1. /\ CancelledRow(exec[i]).attempts = exec[i].attempts
          /\ CancelledRow(exec[i]).status # "expired"
      BY RowFacts DEF CancelledRow, Row
    <2> QED
      BY <1>2, <1>4, <2>1 DEF RequestCancel
  <1>5. ASSUME NEW i \in Ids, NEW t \in DOMAIN att[i], Heartbeat(i, t)
        PROVE  /\ exec'[j].attempts = exec[j].attempts
               /\ exec'[j].status = "expired" => exec[j].status = "expired"
    BY <1>1, <1>5, RowFacts DEF Heartbeat, Row
  <1>6. ASSUME NEW i \in Ids, NEW t \in DOMAIN att[i], Release(i, t)
        PROVE  /\ exec'[j].attempts = exec[j].attempts
               /\ exec'[j].status = "expired" => exec[j].status = "expired"
    <2>1. PICK now \in TxnNow : exec' = [exec EXCEPT ![i] = RequeuedRow(exec[i], "queued", now)]
      BY <1>6 DEF Release
    <2>2. now \in Nat /\ "queued" \in Statuses
      BY DEF TxnNow, Statuses, Waiting
    <2>3. /\ RequeuedRow(exec[i], "queued", now).attempts = exec[i].attempts
          /\ RequeuedRow(exec[i], "queued", now).status # "expired"
      BY <2>2, RowFacts, RequeuedRowOK
    <2> QED
      BY <1>2, <2>1, <2>3
  <1>7. ASSUME NEW i \in Ids, NEW t \in DOMAIN att[i], NEW k \in Completions, Complete(i, t, k)
        PROVE  /\ exec'[j].attempts = exec[j].attempts
               /\ exec'[j].status = "expired" => exec[j].status = "expired"
    <2>1. PICK now \in TxnNow : /\ HoldsLease(i, t, ExpectedStatuses(k), now)
                                /\ exec' = [exec EXCEPT ![i] = CompletedRow(exec[i], k, now)]
      BY <1>7 DEF Complete
    <2>2. now \in Nat /\ exec[i].status \in ExpectedStatuses(k)
      BY <2>1, HolderFacts DEF TxnNow
    <2>3. /\ CompletedRow(exec[i], k, now).attempts = exec[i].attempts
          /\ CompletedRow(exec[i], k, now).status \in CompletionStatuses
      BY <2>2, RowFacts, CompletedRowOK
    <2> QED
      BY <1>2, <2>1, <2>3 DEF CompletionStatuses
  <1>8. ASSUME exec' = exec
        PROVE  /\ exec'[j].attempts = exec[j].attempts
               /\ exec'[j].status = "expired" => exec[j].status = "expired"
    BY <1>8
  <1>9. CASE \/ \E i \in Ids, r \in Requests : SubmitReplay(i, r)
             \/ \E i \in Ids : \E t \in DOMAIN att[i] : \E k \in Completions : CompleteReplay(i, t, k)
             \/ \E c \in Claimers : BeginClaim(c) \/ AbortClaim(c)
             \/ Tick \/ UNCHANGED vars
    BY <1>8, <1>9 DEF SubmitReplay, CompleteReplay, BeginClaim, AbortClaim, Tick, vars
  <1> QED
    BY <1>3, <1>4, <1>5, <1>6, <1>7, <1>9 DEF Next, HolderCall, ClaimStep

\* A claim lets an execution expire and starts it as the deadline allows, by the
\* row it finds when it updates.
LEMMA ClaimKeepsDeadline ==
    ASSUME Inductive, NEW c \in Claimers, FinishClaim(c), NEW i \in Ids
    PROVE  KeepsDeadline(i)
  <1> DEFINE row == exec[i]
             h == att[i]
             now == claim[c].now
  <1>1. row \in Row /\ h \in Seq(Attempt) /\ RowInv(row, h)
    BY RowFacts
  <1>2. PICK T \in SUBSET {j \in Ids : Claimable(c, j)} :
          exec' = [j \in Ids |->
                     IF j \in T THEN ClaimedRow(ReclaimedRow(c, j), Len(att[j]) + 1, claim[c].now)
                                ELSE ReclaimedRow(c, j)]
    BY DEF FinishClaim, FinishClaimSkipping, OldestFirst
  <1>3. now \in Nat /\ clock \in Nat /\ now <= clock /\ claim[c].active
    BY DEF Inductive, TypeOK, ClaimTxn, FinishClaim
  <1>4. i \in T => /\ ReclaimedRow(c, i).status \in Waiting
                   /\ \/ row.req.expires = NULL
                      \/ row.req.expires > now
                      \/ i \in ToRelease(c)
                      \/ LeaseLostRetry(i)
    BY <1>2 DEF Claimable
  <1>5. CASE i \in ToExpire(c)
    <2>1. row.status \in Waiting /\ ReclaimedRow(c, i) = ExpiredRow(row)
      BY <1>5, ReclaimFacts
    <2>2. ExpiredRow(row).status = "expired" /\ ExpiredRow(row).attempts = row.attempts
      BY <1>1 DEF ExpiredRow, Row
    <2>3. exec'[i] = ExpiredRow(row)
      BY <1>2, <1>4, <2>1, <2>2 DEF Waiting
    <2>4. Overdue(i, now)
      BY <1>5 DEF ToExpire
    <2>5. row.req.expires \in Nat
      BY <1>1, <2>1, <2>4, RequestAssumption DEF Overdue, RowInv, Row, Waiting
    <2>6. row.req.expires # NULL /\ row.req.expires <= clock
      BY <1>3, <2>4, <2>5 DEF Overdue
    <2>7. ~Interrupted(row, h)
      BY <2>1, <2>4, LostRetry DEF Overdue
    <2> QED
      BY <2>2, <2>3, <2>6, <2>7 DEF KeepsDeadline
  <1>6. CASE i \in ToCancel(c)
    <2>1. ReclaimedRow(c, i) = DropLease(row, "cancelled")
      BY <1>6, ReclaimFacts
    <2>2. /\ DropLease(row, "cancelled").status = "cancelled"
          /\ DropLease(row, "cancelled").attempts = row.attempts
      BY <1>1, DropLeaseRow DEF Statuses, Terminal
    <2>3. exec'[i] = DropLease(row, "cancelled")
      BY <1>2, <1>4, <2>1, <2>2 DEF Waiting
    <2> QED
      BY <2>2, <2>3 DEF KeepsDeadline
  <1>7. CASE i \in ToRelease(c)
    <2> DEFINE mid == RequeuedRow(row, "retrying", now)
    <2>1. row.status = "running" /\ ReclaimedRow(c, i) = mid
      BY <1>7, ReclaimFacts
    <2>2. Interrupted(row, h)
      <3>1. row.token = Len(h) /\ Len(h) > 0 /\ h[Len(h)].status = "running"
        BY <1>1, <2>1, LeasedAttempt DEF RowInv, Agree, Leased, AttemptRunning
      <3> QED
        BY <2>1, <3>1 DEF Interrupted
    <2>3. mid \in Row /\ mid.status = "retrying"
      BY <1>1, <1>3, RequeuedRowOK DEF Statuses, Waiting
    <2> HIDE DEF mid
    <2>4. ClaimedRow(mid, Len(h) + 1, now).status = "running"
      BY <2>3 DEF ClaimedRow, Row
    <2>5. exec'[i].status # "expired"
      BY <1>2, <2>1, <2>3, <2>4
    <2> QED
      BY <2>2, <2>5 DEF KeepsDeadline
  <1>8. CASE i \notin ToExpire(c) \cup ToCancel(c) \cup ToRelease(c)
    <2>1. ReclaimedRow(c, i) = row
      BY <1>8, ReclaimFacts
    <2>2. CASE i \in T
      <3>1. exec'[i].status = "running"
        <4>1. ClaimedRow(row, Len(h) + 1, now).status = "running"
          BY <1>1 DEF ClaimedRow, Row
        <4>2. exec'[i] = ClaimedRow(row, Len(h) + 1, now)
          BY <1>2, <2>1, <2>2
        <4> QED
          BY <4>1, <4>2
      <3>2. row.status \in Waiting
        BY <1>4, <2>1, <2>2
      <3>3. row.req.expires # NULL => row.req.expires \in Nat
        BY <1>1, <3>2, RequestAssumption DEF RowInv, Row, Waiting
      <3>4. row.req.expires = NULL \/ now < row.req.expires \/ Interrupted(row, h)
        BY <1>3, <1>4, <1>8, <2>2, <3>2, <3>3, LostRetry
      <3> QED
        BY <1>3, <3>1, <3>4 DEF KeepsDeadline
    <2>3. CASE i \notin T
      BY <1>2, <2>1, <2>3 DEF KeepsDeadline
    <2> QED
      BY <2>2, <2>3
  <1> QED
    BY <1>5, <1>6, <1>7, <1>8

\* An execution expires only past its deadline and never while it waits to be
\* re-run after a lost lease, and one that starts past its deadline is such a
\* re-run, although claim() selects candidates before it updates them.
THEOREM DeadlinesBoundStarts == Spec => DeadlineRule
  <1>1. Inductive /\ [Next]_vars =>
          [\A i \in Ids :
             LET d           == exec[i].req.expires
                 interrupted == /\ exec[i].status \in {"retrying", "running"}
                                /\ att[i] # <<>>
                                /\ att[i][Len(att[i])].status \in {"lease_lost", "running"}
             IN  /\ (exec[i].status # "expired" /\ exec'[i].status = "expired") =>
                        d # NULL /\ d <= clock /\ ~interrupted
                 /\ (exec'[i].attempts # exec[i].attempts /\ d # NULL /\ ~interrupted) =>
                        \E c \in Claimers : claim[c].active /\ claim[c].now < d]_vars
    <2> SUFFICES ASSUME Inductive, [Next]_vars, NEW i \in Ids
                 PROVE  KeepsDeadline(i)
      BY DEF KeepsDeadline, Interrupted
    <2>1. CASE \E c \in Claimers : FinishClaim(c)
      BY <2>1, ClaimKeepsDeadline
    <2>2. CASE \A c \in Claimers : ~FinishClaim(c)
      BY <2>2, OthersStartNothing DEF KeepsDeadline
    <2> QED
      BY <2>1, <2>2
  <1> QED
    BY <1>1, InductiveInvariant, PTL DEF Spec, DeadlineRule
=============================================================================
