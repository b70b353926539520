----------------------------- MODULE DeadLetters -----------------------------
(* The dead letters of a task (OneStepApp in app.py): a message that fails for *)
(* good is published to the dead-letter queue, from which the commands         *)
(* replay_dead_letters and discard_dead_letters take it, several of them at a  *)
(* time.  A command is a coroutine: a step is the code                         *)
(* between two awaits.  A memory queue forgets what it handed out; a leased    *)
(* one brings it back unless it was acknowledged under its lease.              *)
EXTENDS Integers, FiniteSets, Sequences, Functions

CONSTANTS Msgs, Leased,     \* messages; the dead-letter queue leases its deliveries
          Commands, Limit,  \* the limit of a command
          Attempts,         \* the retry policy gives a message this many attempts
          MaxFaults, MaxExpiries, MaxCancels   \* failed calls, expired leases, cancelled commands

VARIABLES main,     \* the task's source: sequence of [m, att]
          dead,     \* the dead-letter queue: sequence of [m, att, ok]; ok: it has a payload
          cmd,      \* commands: position, operation, deliveries in hand, counts
          limbo,    \* leased deliveries whose command is over
          handled, discarded,        \* ghosts: messages that succeeded, that were discarded
          deaths, replays,           \* ghosts: publications to each queue, per message
          faults, expiries, cancels
queues == <<main, dead, limbo>>
ghosts == <<handled, discarded, deaths, replays>>
bounds == <<faults, expiries, cancels>>
vars == <<queues, cmd, ghosts, bounds>>

\* The elements of a finite set, one after the other in some order.
Orders(S) == Bijection(1..Cardinality(S), S)

Ops == {"replay", "discard"}
Idle == [pc |-> "new", op |-> "none", hand |-> <<>>, attempted |-> 0, done |-> 0, failed |-> 0, att |-> 0]

Init ==
  /\ main \in {[i \in 1..Cardinality(Msgs) |-> [m |-> s[i], att |-> 0]] : s \in Orders(Msgs)}
  /\ dead = <<[m |-> "alien", att |-> 0, ok |-> FALSE]>>  \* put there by someone else
  /\ limbo = <<>> /\ cmd = [c \in Commands |-> Idle]
  /\ handled = {} /\ discarded = {} /\ deaths = [m \in Msgs |-> 0] /\ replays = deaths
  /\ faults = 0 /\ expiries = 0 /\ cancels = 0

Fault == faults < MaxFaults /\ faults' = faults + 1

-----------------------------------------------------------------------------
(* The task *)

Succeeds ==
  /\ main # <<>> /\ main' = Tail(main) /\ handled' = handled \cup {Head(main).m}
  /\ UNCHANGED <<dead, limbo, cmd, discarded, deaths, replays, bounds>>

\* A failed attempt: retried, or out of attempts and published to the
\* dead-letter queue with its payload, its meta and its number of attempts.
Exhausted(e) == e.att + 1 >= Attempts
Retried(e) == [e EXCEPT !.att = @ + 1]
Fails ==
  /\ main # <<>>
  /\ LET e == Head(main) IN
       IF ~Exhausted(e) THEN main' = Append(Tail(main), Retried(e)) /\ UNCHANGED <<dead, deaths>>
       ELSE /\ main' = Tail(main) /\ dead' = Append(dead, [m |-> e.m, att |-> e.att, ok |-> TRUE])
            /\ deaths' = [deaths EXCEPT ![e.m] = @ + 1]
  /\ UNCHANGED <<limbo, cmd, handled, discarded, replays, bounds>>
\* _publish_dead_letter fails: the original delivery is retried.
PublishFails ==
  /\ main # <<>> /\ Exhausted(Head(main)) /\ Fault
  /\ main' = Append(Tail(main), [Head(main) EXCEPT !.att = Attempts])
  /\ UNCHANGED <<dead, limbo, cmd, ghosts, expiries, cancels>>

-----------------------------------------------------------------------------
(* replay_task_dead_letters and discard_task_dead_letters *)

Take(n) == IF Len(dead) < n THEN Len(dead) ELSE n
Begin(c, op) ==
  /\ cmd[c].pc = "new"
  /\ LET n == Take(Limit)
         got == [i \in 1..n |-> [e |-> dead[i], held |-> TRUE]]
     IN /\ cmd' = [cmd EXCEPT ![c] = [Idle EXCEPT !.pc = "next", !.op = op, !.hand = got]]
        /\ dead' = SubSeq(dead, n + 1, Len(dead))
  /\ UNCHANGED <<main, limbo, ghosts, bounds>>

Cur(c) == Head(cmd[c].hand)
At(c, pc) == cmd[c].pc = pc /\ cmd[c].hand # <<>>
\* The delivery is settled, or given up; count: which counter goes up.
NextOne(c, count) ==
  cmd' = [cmd EXCEPT ![c].hand = Tail(@), ![c].pc = "next", ![c].attempted = @ + 1,
                     ![c].done = IF count = "done" THEN @ + 1 ELSE @,
                     ![c].failed = IF count = "failed" THEN @ + 1 ELSE @]

\* delivery.retry(), whose own failure is suppressed.
GiveBack(c) ==
  IF Cur(c).held THEN dead' = Append(dead, Cur(c).e) ELSE UNCHANGED dead
RetryFails(c) ==
  /\ Leased /\ Fault /\ UNCHANGED dead
  /\ limbo' = IF Cur(c).held THEN Append(limbo, Cur(c).e) ELSE limbo

\* A dead letter without a payload.
Invalid(c) ==
  /\ At(c, "next") /\ cmd[c].op = "replay" /\ ~Cur(c).e.ok
  /\ NextOne(c, "failed")
  /\ (GiveBack(c) /\ UNCHANGED <<limbo, faults>>) \/ RetryFails(c)
  /\ UNCHANGED <<main, ghosts, expiries, cancels>>

\* _build_dead_letter_replay_envelope.
ReplayEnvelope(e) == [m |-> e.m, att |-> e.att]
Send(c) ==
  /\ At(c, "next") /\ cmd[c].op = "replay" /\ Cur(c).e.ok
  /\ main' = Append(main, ReplayEnvelope(Cur(c).e))
  /\ replays' = [replays EXCEPT ![Cur(c).e.m] = @ + 1]
  /\ cmd' = [cmd EXCEPT ![c].pc = "ack"]
  /\ UNCHANGED <<dead, limbo, handled, discarded, deaths, bounds>>
SendFails(c) ==
  /\ At(c, "next") /\ cmd[c].op = "replay" /\ Cur(c).e.ok /\ Fault
  /\ NextOne(c, "failed") /\ GiveBack(c)
  /\ UNCHANGED <<main, limbo, ghosts, expiries, cancels>>

CanAck(c) == At(c, "ack") \/ (At(c, "next") /\ cmd[c].op = "discard")
\* Mutant: a failed acknowledgement is not counted.
AckUncounted(c) ==
  /\ CanAck(c) /\ Leased
  /\ (~Cur(c).held /\ UNCHANGED faults /\ UNCHANGED limbo) \/ (Cur(c).held /\ Fault /\ limbo' = Append(limbo, Cur(c).e))
  /\ NextOne(c, "done")
  /\ UNCHANGED <<main, dead, ghosts, expiries, cancels>>
Ack(c) ==
  /\ CanAck(c) /\ Cur(c).held
  /\ NextOne(c, "done")
  /\ discarded' = IF cmd[c].op = "discard" THEN discarded \cup {Cur(c).e.m} ELSE discarded
  /\ UNCHANGED <<queues, handled, deaths, replays, bounds>>
\* The acknowledgement fails, or its lease is over; a memory queue's does not.
AckFails(c) ==
  /\ CanAck(c) /\ Leased
  /\ \/ ~Cur(c).held /\ UNCHANGED <<faults, limbo>>
     \/ Cur(c).held /\ Fault /\ limbo' = Append(limbo, Cur(c).e)
  /\ NextOne(c, "failed")
  /\ UNCHANGED <<main, dead, ghosts, expiries, cancels>>

Completion(c) ==
  IF cmd[c].failed = 0 THEN "complete" ELSE IF cmd[c].done > 0 THEN "partial" ELSE "failed"
End(c) ==
  /\ cmd[c].pc = "next" /\ cmd[c].hand = <<>>
  /\ cmd' = [cmd EXCEPT ![c].pc = Completion(c)]
  /\ UNCHANGED <<queues, ghosts, bounds>>

\* The timeout of the command, or the end of the process: the leases of what it
\* has in hand run out later, in whatever order.
Held(c) == {i \in DOMAIN cmd[c].hand : cmd[c].hand[i].held}
Cancel(c) ==
  /\ cmd[c].pc \in {"next", "ack"} /\ cancels < MaxCancels /\ cancels' = cancels + 1
  /\ cmd' = [cmd EXCEPT ![c].pc = "cancelled", ![c].hand = <<>>]
  /\ IF Leased THEN \E q \in Orders(Held(c)) : limbo' = limbo \o [i \in DOMAIN q |-> cmd[c].hand[q[i]].e]
               ELSE UNCHANGED limbo
  /\ UNCHANGED <<main, dead, ghosts, faults, expiries>>

\* A lease runs out, in the hand of a command or after it.
ExpireHeld(c) ==
  /\ Leased /\ expiries < MaxExpiries /\ expiries' = expiries + 1
  /\ \E i \in DOMAIN cmd[c].hand :
       /\ cmd[c].hand[i].held
       /\ cmd' = [cmd EXCEPT ![c].hand[i].held = FALSE]
       /\ dead' = Append(dead, cmd[c].hand[i].e)
  /\ UNCHANGED <<main, limbo, ghosts, faults, cancels>>
ExpireLimbo ==
  /\ limbo # <<>> /\ limbo' = Tail(limbo) /\ dead' = Append(dead, Head(limbo))
  /\ UNCHANGED <<main, cmd, ghosts, bounds>>

Step(c) == Invalid(c) \/ Send(c) \/ SendFails(c) \/ Ack(c) \/ AckFails(c) \/ End(c)
Command(c) == (\E op \in Ops : Begin(c, op)) \/ Step(c) \/ Cancel(c) \/ ExpireHeld(c)
Next == Succeeds \/ Fails \/ PublishFails \/ (\E c \in Commands : Command(c)) \/ ExpireLimbo

\* The event loop runs every coroutine that can go on.
Fairness == \A c \in Commands : WF_vars(Step(c))
Spec == Init /\ [][Next]_vars /\ Fairness

-----------------------------------------------------------------------------
InHand(m) == \E c \in Commands : \E i \in DOMAIN cmd[c].hand : cmd[c].hand[i].e.m = m /\ cmd[c].hand[i].held
Among(m, s) == \E i \in DOMAIN s : s[i].m = m

\* Every variable has its type; a command never attempts more than its limit.
TypeOK ==
  /\ \A i \in DOMAIN main : main[i].m \in Msgs /\ main[i].att \in 0..Attempts
  /\ \A c \in Commands : /\ cmd[c].attempted + Len(cmd[c].hand) <= Limit
                         /\ cmd[c].op \in Ops \cup {"none"}
  /\ handled \subseteq Msgs /\ discarded \subseteq Msgs \cup {"alien"}

\* A message that died is somewhere until it succeeds or is discarded, whatever
\* fails or expires while commands move it.
NothingLost ==
  \A m \in Msgs : Among(m, main) \/ Among(m, dead) \/ Among(m, limbo) \/ InHand(m) \/ m \in handled \cup discarded

\* A message is replayed once for every time it died, except that each failed
\* acknowledgement, expired lease or cancelled command may replay it again.
ReplayBounded ==
  \A m \in Msgs : replays[m] <= deaths[m] + faults + expiries + cancels

\* The sum of the values of f.
Total(f) == Cardinality(UNION {{x} \X (1..f[x]) : x \in DOMAIN f})

\* The reports add up: what was published to the dead-letter queue is in it, is
\* leased, or was counted as replayed or discarded by one command.
ReportTrue ==
  Total(deaths) + 1 = Len(dead) + Len(limbo) + Total([c \in Commands |-> Cardinality(Held(c)) + cmd[c].done])

\* A replayed message keeps its attempts: if it fails again it dies at once.
ReplayDiesAtOnce == \A i \in DOMAIN main : replays[main[i].m] > 0 => Exhausted(main[i])

\* A command is under way.
Busy(c) == cmd[c].pc \in {"next", "ack"}
=============================================================================
