-------------------------- MODULE DeliveryExecutor --------------------------
(***************************************************************************)
(* DeliveryExecutor.execute (runtime/executor.py) for one plain delivery,  *)
(* through all its redeliveries: start, hooks, handler, routing, sinks,    *)
(* ack, and the failure, dead-letter and cancellation paths.               *)
(*                                                                         *)
(* stage is the await the executor is suspended in.  Every call to the     *)
(* outside (handler, sink, source) may succeed, raise, or be cancelled     *)
(* there (a runner that drains too long, a crash of the process).  A call  *)
(* to a sink or to the source that raises or is cancelled may have taken   *)
(* effect all the same.                                                    *)
(*                                                                         *)
(* source is what the source has been told about the delivery.  A retried  *)
(* delivery comes back; a held one whose execution is over comes back only *)
(* if the source leases its deliveries (Leased).  Memory and SQL queues    *)
(* put a retried envelope back with one more attempt (Counts); RabbitMQ,   *)
(* Redis, Kafka and SQS hand out the same encoded envelope again.          *)
(***************************************************************************)
EXTENDS Naturals, FiniteSets, TLAPS

CONSTANTS
    Sinks,            \* the sinks of emit
    DeadLetterSinks,  \* the sinks of dead_letter
    Kinds,            \* failure kinds
    Limit,            \* Limit[k]: max_attempts of the policy for failures of kind k
    MaxLimit,         \* no policy allows more attempts
    SendAttempts,     \* _SEND_ATTEMPTS
    Leased,           \* the source takes back what nobody settles
    Counts,           \* a retry adds one to the attempts of the envelope
    Cancels,          \* the handler task may be cancelled, or the process die
    SettleFails       \* ack(), retry() and fail() may raise

ASSUME LimitAssumption == MaxLimit \in Nat /\ Limit \in [Kinds -> 1..MaxLimit]
ASSUME FlagsAssumption == {Leased, Counts, Cancels, SettleFails} \subseteq BOOLEAN
ASSUME SendAssumption == SendAttempts \in Nat \ {0}
ASSUME FiniteAssumption == IsFiniteSet(Sinks) /\ IsFiniteSet(DeadLetterSinks)

VARIABLES
    stage,     \* the await execute() is in
    attempts,  \* envelope.attempts, saturated where no policy looks further
    kind,      \* kind of the failure being handled
    chosen,    \* sinks the routes selected
    todo,      \* sinks still to send to
    tries,     \* failed sends to the current sink
    sent,      \* sinks that took this execution's output
    dead,      \* dead-letter sinks that took the delivery
    source,    \* "held", "acked", "retried" or "failed"
    hit        \* a cancellation reached this execution

vars == <<stage, attempts, kind, chosen, todo, tries, sent, dead, source, hit>>

Body == {"start", "before", "handler", "after", "route", "transform"}
Failing == {"failureHook", "retry", "deadLetter", "deadEvent", "fail", "failRetry"}
Cancelling == {"cancelEvent", "cancelRetry"}
Stages == {"queued", "sink", "sinkWait", "ack", "successEvent", "lastEvent", "ended"}
            \cup Body \cup Failing \cup Cancelling

\* Attempt numbers that no policy tells apart are identified.
Attempts == 0..MaxLimit

\* The attempts of the envelope that a retry puts back.
Counted(n) == IF Counts /\ n < MaxLimit THEN n + 1 ELSE n

Init ==
    /\ stage = "queued" /\ attempts = 0
    /\ kind \in Kinds
    /\ chosen = {} /\ todo = {} /\ tries = 0 /\ sent = {} /\ dead = {}
    /\ source = "held" /\ hit = FALSE

\* Sinks are served one after the other, in an order no property depends on.
Current == CHOOSE s \in todo : TRUE

progress == <<attempts, kind, chosen, todo, tries, sent, dead, hit>>
-----------------------------------------------------------------------------
(* The body of execute *)

Begin ==
    /\ stage = "queued"
    /\ stage' = "start"
    /\ source' = "held" /\ hit' = FALSE
    /\ chosen' = {} /\ todo' = {} /\ tries' = 0 /\ sent' = {} /\ dead' = {}
    /\ UNCHANGED <<attempts, kind>>

\* start_processing and STARTED, the hooks before the handler, and the handler.
Following == [start |-> "before", before |-> "handler", handler |-> "after"]

Advance ==
    /\ stage \in DOMAIN Following
    /\ stage' = Following[stage]
    /\ UNCHANGED <<progress, source>>

\* Nothing is emitted for a None result or without emit targets.
AfterHook ==
    /\ stage = "after"
    /\ stage' \in (IF Sinks = {} THEN {} ELSE {"route"}) \cup {"ack"}
    /\ UNCHANGED <<progress, source>>

\* _select_emit_bindings
Route ==
    /\ stage = "route"
    /\ stage' = "transform"
    /\ chosen' \in SUBSET Sinks
    /\ UNCHANGED <<attempts, kind, todo, tries, sent, dead, hit, source>>

\* _prepare_emit_envelopes: all bodies are built before the first send.
Transform ==
    /\ stage = "transform"
    /\ stage' = IF chosen = {} THEN "ack" ELSE "sink"
    /\ todo' = chosen
    /\ UNCHANGED <<attempts, kind, chosen, tries, sent, dead, hit, source>>

\* _send_to_sink: the send returned.
Send ==
    /\ stage = "sink"
    /\ sent' = sent \cup {Current} /\ todo' = todo \ {Current} /\ tries' = 0
    /\ stage' = IF todo = {Current} THEN "ack" ELSE "sink"
    /\ UNCHANGED <<attempts, kind, chosen, dead, hit, source>>

\* What a call to a sink that did not return may have delivered all the same.
MaySend == IF stage = "sink" THEN {sent, sent \cup {Current}} ELSE {sent}
MayPublish == IF stage = "deadLetter" THEN {dead, dead \cup {Current}} ELSE {dead}

\* Mutant: a sink that stays degraded is skipped.
SkipSink ==
    /\ stage = "sink"
    /\ sent' \in MaySend /\ todo' = todo \ {Current} /\ tries' = 0
    /\ stage' = IF todo = {Current} THEN "ack" ELSE "sink"
    /\ UNCHANGED <<attempts, kind, chosen, dead, hit, source>>

\* A retryable error before the last attempt: back off, then send again.
SendDegraded ==
    /\ stage = "sink"
    /\ tries < SendAttempts - 1
    /\ tries' = tries + 1
    /\ sent' \in MaySend
    /\ stage' = "sinkWait"
    /\ UNCHANGED <<attempts, kind, chosen, todo, dead, hit, source>>

\* Mutant: the wait for the next attempt has no timeout.
WaitForShutdown ==
    /\ stage = "sinkWait"
    /\ UNCHANGED <<stage, progress, source>>

SendAgain ==
    /\ stage = "sinkWait"
    /\ stage' = "sink"
    /\ UNCHANGED <<progress, source>>

\* Entering _handle_failure, up to its first await.
Fails(k) ==
    /\ stage' = "failureHook"
    /\ kind' = k
    /\ UNCHANGED <<attempts, chosen, todo, hit, dead>>

\* A hook, the handler, a predicate or a transform raised or timed out.
BodyFails ==
    /\ stage \in Body
    /\ \E k \in Kinds : Fails(k)
    /\ UNCHANGED <<tries, sent, source>>

\* The last attempt failed, the error is not retryable, or a shutdown ended the
\* wait before the next attempt.
SendFails ==
    /\ stage \in {"sink", "sinkWait"}
    /\ \E k \in Kinds : Fails(k)
    /\ tries' = 0
    /\ sent' \in MaySend
    /\ UNCHANGED source

Ack ==
    /\ stage = "ack"
    /\ stage' = "successEvent"
    /\ source' = "acked"
    /\ UNCHANGED progress

\* ack() raised: the delivery takes the failure path, acknowledged or not.
AckFails ==
    /\ SettleFails
    /\ stage = "ack"
    /\ \E k \in Kinds : Fails(k)
    /\ source' \in {source, "acked"}
    /\ UNCHANGED <<tries, sent>>

LastEvent ==
    /\ stage \in {"successEvent", "lastEvent"}
    /\ stage' = "ended"
    /\ UNCHANGED <<progress, source>>
-----------------------------------------------------------------------------
(* _handle_failure *)

\* Mutant: one attempt less than the policy allows.
GiveUpEarly == attempts + 2 < Limit[kind]

\* The policy: MaxAttempts, ExponentialBackoff, NoRetry (a limit of 1), or one
\* of them per failure kind.
Retryable == attempts + 1 < Limit[kind]

Decide ==
    /\ stage = "failureHook"
    /\ IF Retryable
       THEN stage' = "retry" /\ UNCHANGED todo
       ELSE IF DeadLetterSinks # {}
       THEN stage' = "deadLetter" /\ todo' = DeadLetterSinks
       ELSE stage' = "fail" /\ UNCHANGED todo
    /\ UNCHANGED <<attempts, kind, chosen, tries, sent, dead, hit, source>>

\* delivery.retry() of _apply_retry, of the cancellation path, and of the
\* fallback in _fail_delivery.
Retry ==
    /\ stage \in {"retry", "cancelRetry", "failRetry"}
    /\ stage' = "lastEvent"
    /\ source' = "retried"
    /\ UNCHANGED progress

\* The exception leaves execute(): nothing settles the delivery any more.
RetryFails ==
    /\ SettleFails
    /\ stage \in {"retry", "cancelRetry", "failRetry"}
    /\ stage' = "ended"
    /\ source' \in {source, "retried"}
    /\ UNCHANGED progress

PublishDeadLetter ==
    /\ stage = "deadLetter"
    /\ dead' = dead \cup {Current} /\ todo' = todo \ {Current}
    /\ stage' = IF todo = {Current} THEN "deadEvent" ELSE "deadLetter"
    /\ UNCHANGED <<attempts, kind, chosen, tries, sent, hit, source>>

\* Mutant: a dead letter that cannot be published is dropped.
DropDeadLetter ==
    /\ stage = "deadLetter"
    /\ stage' = "deadEvent"
    /\ UNCHANGED <<progress, source>>

\* A dead-letter sink raised: the original delivery is retried.
DeadLetterFails ==
    /\ stage = "deadLetter"
    /\ stage' = "retry"
    /\ dead' \in MayPublish
    /\ UNCHANGED <<attempts, kind, chosen, todo, tries, sent, hit, source>>

\* DEAD_LETTERED is emitted.
DeadLettered ==
    /\ stage = "deadEvent"
    /\ stage' = "fail"
    /\ UNCHANGED <<progress, source>>

Fail ==
    /\ stage = "fail"
    /\ stage' = "lastEvent"
    /\ source' = "failed"
    /\ UNCHANGED progress

\* fail() raised: the delivery is retried instead.
FailFails ==
    /\ SettleFails
    /\ stage = "fail"
    /\ stage' = "failRetry"
    /\ source' \in {source, "failed"}
    /\ UNCHANGED progress
-----------------------------------------------------------------------------
(* Cancellation, crash and redelivery *)

\* What a call in progress may have done when its caller is torn away.
Effect ==
    CASE stage = "ack"                                   -> {source, "acked"}
      [] stage = "fail"                                  -> {source, "failed"}
      [] stage \in {"retry", "cancelRetry", "failRetry"} -> {source, "retried"}
      [] OTHER                                           -> {source}

\* CancelledError inside the try block: _handle_cancelled runs.
CancelBody ==
    /\ Cancels
    /\ stage \in Body \cup {"sink", "sinkWait", "ack", "successEvent"}
    /\ stage' = "cancelEvent"
    /\ source' \in Effect /\ sent' \in MaySend /\ dead' \in MayPublish
    /\ hit' = TRUE
    /\ UNCHANGED <<attempts, kind, chosen, todo, tries>>

CancelEvent ==
    /\ stage = "cancelEvent"
    /\ stage' = "cancelRetry"
    /\ UNCHANGED <<progress, source>>

\* CancelledError inside one of the except clauses leaves execute().
CancelHandling ==
    /\ Cancels
    /\ stage \in Failing \cup Cancelling \cup {"lastEvent"}
    /\ stage' = "ended"
    /\ source' \in Effect /\ sent' \in MaySend /\ dead' \in MayPublish
    /\ hit' = TRUE
    /\ UNCHANGED <<attempts, kind, chosen, todo, tries>>

\* The process dies.
Crash ==
    /\ Cancels /\ Leased
    /\ stage \notin {"queued", "ended"}
    /\ stage' = "ended"
    /\ source' \in Effect /\ sent' \in MaySend /\ dead' \in MayPublish
    /\ UNCHANGED <<attempts, kind, chosen, todo, tries, hit>>

\* The source hands the delivery out again.  Whether a delivery that nobody gave
\* back counts as an attempt depends on the source.
Redeliver ==
    /\ stage = "ended"
    /\ source = "retried" \/ (source = "held" /\ Leased)
    /\ stage' = "queued"
    /\ \/ attempts' = Counted(attempts)
       \/ source = "held" /\ UNCHANGED attempts
    /\ UNCHANGED <<kind, chosen, todo, tries, sent, dead, hit, source>>
-----------------------------------------------------------------------------
Succeed ==
    \/ Begin \/ Advance \/ AfterHook \/ Route \/ Transform \/ Send \/ SendAgain \/ Ack \/ LastEvent

HandleFailure ==
    \/ Decide \/ Retry \/ PublishDeadLetter \/ DeadLettered \/ Fail \/ CancelEvent

Trouble ==
    \/ BodyFails \/ SendDegraded \/ SendFails \/ AckFails
    \/ RetryFails \/ DeadLetterFails \/ FailFails

Interrupt == CancelBody \/ CancelHandling \/ Crash

Next == Succeed \/ HandleFailure \/ Trouble \/ Interrupt \/ Redeliver

Spec == Init /\ [][Next]_vars

\* Every await ends, with a result or an exception, and the source delivers.
Fairness ==
    /\ WF_vars(Succeed \/ HandleFailure)
    /\ WF_vars(Redeliver)

FairSpec == Spec /\ Fairness
-----------------------------------------------------------------------------
(* Properties *)

\* The executor's position, the envelope's attempts and the sinks served keep
\* their types; "held" is all the source knows before the first settlement.
TypeOK ==
    /\ stage \in Stages
    /\ attempts \in Attempts /\ kind \in Kinds
    /\ chosen \subseteq Sinks /\ sent \subseteq Sinks
    /\ todo \subseteq Sinks \cup DeadLetterSinks
    /\ tries \in 0..(SendAttempts - 1)
    /\ dead \subseteq DeadLetterSinks
    /\ source \in {"held", "acked", "retried", "failed"}
    /\ hit \in BOOLEAN

\* "Because sink sends happen before ack()": an acknowledged delivery has reached
\* every sink its routes selected, however many sends were retried, lost or
\* cancelled on the way.
AckedWasEmitted == source = "acked" => chosen \subseteq sent

\* A delivery is failed for good only when every dead-letter sink has it:
\* "dead-letter publish failure retries the original delivery".
FailedWasDeadLettered == source = "failed" => dead = DeadLetterSinks

\* A delivery is given up only when the policy for its failure allows no further
\* attempt, over any mix of failure kinds, cancellations, crashes and redeliveries.
PolicyExhausted == source = "failed" => attempts + 1 >= Limit[kind]

\* Where the executor still emits, nothing has been settled, and what is not
\* waiting any more has been sent.
Emitting ==
    /\ stage \in Body \cup {"sink", "sinkWait", "ack"} => source = "held"
    /\ stage \in Body \ {"transform"} => chosen = {}
    /\ stage \in {"sink", "sinkWait"} =>
           todo # {} /\ todo \subseteq chosen /\ chosen \ todo \subseteq sent
    /\ stage = "ack" => chosen \subseteq sent

\* Where the executor gives up, the policy said so, and what is not waiting any
\* more has been dead-lettered.
GivingUp ==
    /\ stage \in {"failureHook", "deadLetter"} => source # "failed"
    /\ stage \in {"deadLetter", "deadEvent", "fail"} => ~Retryable
    /\ stage = "deadLetter" =>
           /\ todo # {} /\ todo \subseteq DeadLetterSinks
           /\ DeadLetterSinks \ todo \subseteq dead
    /\ stage \in {"deadEvent", "fail"} => dead = DeadLetterSinks

\* The inductive strengthening of the three invariants above: what the position
\* of execute() says about the sinks, the dead-letter sinks and the source.
Inductive ==
    /\ TypeOK /\ Emitting /\ GivingUp
    /\ AckedWasEmitted /\ FailedWasDeadLettered /\ PolicyExhausted

\* Without cancellations and with a source whose calls do not raise, no
\* execution ends with the delivery still held: it is acknowledged, retried or
\* failed on every path through hooks, handler, sinks and dead letters.
EndsSettled == stage = "ended" => source # "held"

\* "Cancellation retries the delivery."
CancellationRetries == (stage = "ended" /\ hit) => source \in {"acked", "retried", "failed"}

\* A poison message leaves the queue: unless publishing to the dead-letter sinks
\* fails again and again, which retries the delivery beyond its policy, it is
\* finally acked or failed, whatever the handler, the hooks and the sinks do
\* ("after failing 3 times the message is nacked", docs/broker/rabbitmq.md).
FinallySettled == <>[][~DeadLetterFails]_vars => <>[](source \in {"acked", "failed"})

-----------------------------------------------------------------------------
(***************************************************************************)
(* The safety properties for every set of sinks, every policy and every    *)
(* kind of source.  Inductive is kept by each group of steps: the          *)
(* successful ones, the failures, and the interruptions.                   *)
(***************************************************************************)

\* Serving the current sink takes one element off the list of sinks to serve.
LEMMA CurrentIsWaiting == todo # {} => Current \in todo
  BY DEF Current

\* The number of attempts stays where a policy can tell it apart.
LEMMA CountedType == \A n \in Attempts : Counted(n) \in Attempts
  BY LimitAssumption DEF Attempts, Counted

\* A delivery starts unsettled and with nothing sent.
LEMMA InitInductive == Init => Inductive
<1> SUFFICES ASSUME Init PROVE Inductive
  OBVIOUS
<1>1. 0 \in Attempts /\ 0 \in 0..(SendAttempts - 1)
  BY LimitAssumption, SendAssumption DEF Attempts
<1>2. TypeOK
  BY <1>1 DEF Init, TypeOK, Stages
<1>3. Emitting /\ GivingUp
  BY DEF Init, Emitting, GivingUp, Body
<1> QED
  BY <1>2, <1>3 DEF Init, Inductive, AckedWasEmitted, FailedWasDeadLettered, PolicyExhausted

\* Start, hooks, handler, routing, sends and acknowledgement keep the invariant.
LEMMA SucceedInductive == Inductive /\ Succeed => Inductive'
<1> SUFFICES ASSUME Inductive, Succeed PROVE Inductive'
  OBVIOUS
<1> USE DEF Inductive, TypeOK, Stages, Body, Failing, Cancelling, Emitting, GivingUp,
            AckedWasEmitted, FailedWasDeadLettered, PolicyExhausted, Retryable, progress
<1>0. 0 \in 0..(SendAttempts - 1)
  BY SendAssumption
<1>1. CASE Begin
  BY <1>0, <1>1 DEF Begin
<1>2. CASE Advance
  BY <1>2 DEF Advance, Following
<1>3. CASE AfterHook
  BY <1>3 DEF AfterHook
<1>4. CASE Route
  BY <1>4 DEF Route
<1>5. CASE Transform
  BY <1>5 DEF Transform
<1>6. CASE Send
  BY <1>0, <1>6, CurrentIsWaiting DEF Send
<1>7. CASE SendAgain
  BY <1>7 DEF SendAgain
<1>8. CASE Ack
  BY <1>8 DEF Ack
<1>9. CASE LastEvent
  BY <1>9 DEF LastEvent
<1> QED
  BY <1>1, <1>2, <1>3, <1>4, <1>5, <1>6, <1>7, <1>8, <1>9 DEF Succeed

\* The decision of the policy, the dead letters and the settlement keep it.
LEMMA HandleFailureInductive == Inductive /\ HandleFailure => Inductive'
<1> SUFFICES ASSUME Inductive, HandleFailure PROVE Inductive'
  OBVIOUS
<1> USE DEF Inductive, TypeOK, Stages, Body, Failing, Cancelling, Emitting, GivingUp,
            AckedWasEmitted, FailedWasDeadLettered, PolicyExhausted, Retryable, progress
<1>0. attempts \in Nat /\ Limit[kind] \in Nat
  BY LimitAssumption DEF Attempts
<1>1. CASE Decide
  BY <1>0, <1>1 DEF Decide
<1>2. CASE Retry
  BY <1>2 DEF Retry
<1>3. CASE PublishDeadLetter
  BY <1>3, CurrentIsWaiting DEF PublishDeadLetter
<1>4. CASE DeadLettered
  BY <1>4 DEF DeadLettered
<1>5. CASE Fail
  BY <1>0, <1>5 DEF Fail
<1>6. CASE CancelEvent
  BY <1>6 DEF CancelEvent
<1> QED
  BY <1>1, <1>2, <1>3, <1>4, <1>5, <1>6 DEF HandleFailure

\* So do the calls that raise, whether or not they took effect.
LEMMA TroubleInductive == Inductive /\ Trouble => Inductive'
<1> SUFFICES ASSUME Inductive, Trouble PROVE Inductive'
  OBVIOUS
<1> USE DEF Inductive, TypeOK, Stages, Body, Failing, Cancelling, Emitting, GivingUp,
            AckedWasEmitted, FailedWasDeadLettered, PolicyExhausted, Retryable, progress
<1>0. attempts \in Nat /\ Limit[kind] \in Nat /\ tries \in Nat
  BY LimitAssumption, SendAssumption DEF Attempts
<1>1. CASE BodyFails
  BY <1>1 DEF BodyFails, Fails
<1>2. CASE SendDegraded
  BY <1>0, <1>2, CurrentIsWaiting, SendAssumption DEF SendDegraded, MaySend
<1>3. CASE SendFails
  BY <1>3, CurrentIsWaiting, SendAssumption DEF SendFails, Fails, MaySend
<1>4. CASE AckFails
  BY <1>4 DEF AckFails, Fails
<1>5. CASE RetryFails
  BY <1>5 DEF RetryFails
<1>6. CASE DeadLetterFails
  BY <1>6, CurrentIsWaiting DEF DeadLetterFails, MayPublish
<1>7. CASE FailFails
  BY <1>0, <1>7 DEF FailFails
<1> QED
  BY <1>1, <1>2, <1>3, <1>4, <1>5, <1>6, <1>7 DEF Trouble

\* So do a cancellation or a crash at any await, and the redelivery after them.
LEMMA InterruptInductive == Inductive /\ (Interrupt \/ Redeliver) => Inductive'
<1> SUFFICES ASSUME Inductive, Interrupt \/ Redeliver PROVE Inductive'
  OBVIOUS
<1> USE DEF Inductive, TypeOK, Stages, Body, Failing, Cancelling, Emitting, GivingUp,
            AckedWasEmitted, FailedWasDeadLettered, PolicyExhausted, Retryable, progress
<1>0. attempts \in Nat /\ Limit[kind] \in Nat
  BY LimitAssumption DEF Attempts
<1>1. CASE CancelBody
  BY <1>1, CurrentIsWaiting DEF CancelBody, Effect, MaySend, MayPublish
<1>2. CASE CancelHandling
  BY <1>0, <1>2, CurrentIsWaiting DEF CancelHandling, Effect, MaySend, MayPublish
<1>3. CASE Crash
  BY <1>0, <1>3, CurrentIsWaiting DEF Crash, Effect, MaySend, MayPublish
<1>4. CASE Redeliver
  BY <1>4, CountedType DEF Redeliver
<1> QED
  BY <1>1, <1>2, <1>3, <1>4 DEF Interrupt

\* The inductive invariant of execute() holds for every task and every source.
THEOREM ExecutorInvariant == Spec => []Inductive
<1>1. Inductive /\ UNCHANGED vars => Inductive'
  BY DEF Inductive, TypeOK, Emitting, GivingUp, AckedWasEmitted, FailedWasDeadLettered,
         PolicyExhausted, Retryable, vars
<1>2. Inductive /\ [Next]_vars => Inductive'
  BY <1>1, SucceedInductive, HandleFailureInductive, TroubleInductive, InterruptInductive
  DEF Next
<1> QED
  BY InitInductive, <1>2, PTL DEF Spec

\* At-least-once on the way out: whatever is retried, lost or cancelled, a
\* delivery is acknowledged only when all the sinks its routes chose have it.
THEOREM OutputBeforeAck == Spec => []AckedWasEmitted
  BY ExecutorInvariant, PTL DEF Inductive

\* A delivery is failed for good only when every dead-letter sink has it.
THEOREM DeadLetterBeforeFail == Spec => []FailedWasDeadLettered
  BY ExecutorInvariant, PTL DEF Inductive

\* A delivery is failed for good only when its policy is exhausted.
THEOREM PolicyBeforeFail == Spec => []PolicyExhausted
  BY ExecutorInvariant, PTL DEF Inductive
=============================================================================
