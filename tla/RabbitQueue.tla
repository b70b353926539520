------------------------------ MODULE RabbitQueue -----------------------------
(* Two RabbitMQ queues of onestep-mq that share one connector: the reference  *)
(* count of its connection, the prefetch buffer that fetch reads, and resets  *)
(* after failures and cancelled fetches.                                      *)
EXTENDS Integers, Sequences, FiniteSets, Functions

CONSTANTS Msgs,           \* messages in the source queue
          SourceSenders,  \* concurrent senders to the source queue itself
          SinkSenders,    \* concurrent senders to the sink queue
          Prefetch,
          CancelEarly,    \* may a fetch be cancelled while it connects?
          MaxFaults, MaxStops, MaxRetries   \* bounds

Queues == {"source", "sink"}
Senders == SourceSenders \cup SinkSenders
Users == {"fetch"} \cup Senders
QueueOf(u) == IF u \in SinkSenders THEN "sink" ELSE "source"

VARIABLES conn,      \* is the connector's connection open?
          refs,      \* _ref_count
          pc,        \* user -> "idle", "connecting", "acquired", "busy"
          orphan,    \* users whose channel or buffer was taken away meanwhile
          opened,    \* queue -> _opened
          live,      \* queue -> are its channels on an open connection?
          ready, buffer, hand, done,   \* where each message is
          stale,     \* messages with a handler whose channel is gone
          stopped, faults, stops, retries
link == <<conn, refs, pc, orphan, opened, live>>
mail == <<ready, buffer, hand, done, stale>>
bounds == <<stopped, faults, stops, retries>>
vars == <<link, mail, bounds>>

Init ==
  /\ conn = FALSE /\ refs = 0 /\ pc = [u \in Users |-> "idle"] /\ orphan = {}
  /\ opened = [q \in Queues |-> FALSE] /\ live = [q \in Queues |-> FALSE]
  /\ ready = Msgs /\ buffer = <<>> /\ hand = {} /\ done = {} /\ stale = {}
  /\ stopped = FALSE /\ faults = 0 /\ stops = 0 /\ retries = 0

-----------------------------------------------------------------------------
(* The connector *)

\* _runtime_lock and acquire: connect unless the connection is open.
Acquire(u) ==
  /\ pc[u] = "connecting" /\ pc' = [pc EXCEPT ![u] = "acquired"]
  /\ conn' = TRUE /\ refs' = refs + 1
  /\ UNCHANGED <<orphan, opened, live, mail, bounds>>

\* Mutant: the connection is closed by every release.
ReleaseCloses(links) ==
  /\ refs' = IF refs > 0 THEN refs - 1 ELSE 0
  /\ conn' = FALSE /\ live' = [q \in Queues |-> FALSE]
\* release: the connection is closed when no reference is left.
Release(links) ==
  /\ refs' = IF refs > 0 THEN refs - 1 ELSE 0
  /\ conn' = (conn /\ refs' > 0)
  /\ live' = IF refs' = 0 THEN [q \in Queues |-> FALSE] ELSE links

-----------------------------------------------------------------------------
(* Opening and giving up a queue *)

\* _on_receive_channel_closed and the broker: what was not acknowledged on the
\* channel goes back to the queue, the buffer is emptied.
ChannelGone ==
  /\ ready' = ready \cup Range(buffer) \cup hand /\ buffer' = <<>>
  /\ stale' = stale \cup hand /\ hand' = {} /\ UNCHANGED done

\* _cancel_consumer, _close_channels, _clear_transport_state, then release.
Teardown(q, u) ==
  /\ opened' = [opened EXCEPT ![q] = FALSE]
  /\ orphan' = (orphan \cup {v \in Users : QueueOf(v) = q /\ pc[v] = "busy"}) \ {u}
  /\ Release([live EXCEPT ![q] = FALSE])
  /\ IF q = "source" \/ ~live'["source"] THEN ChannelGone ELSE UNCHANGED mail

\* The head of fetch and send: open() returns at once when the queue is open.
Begin(u) ==
  /\ pc[u] = "idle" /\ ~stopped
  /\ pc' = [pc EXCEPT ![u] = IF opened[QueueOf(u)] THEN "busy" ELSE "connecting"]
  /\ UNCHANGED <<conn, refs, orphan, opened, live, mail, bounds>>

\* open: channels, queue and exchange are declared.
Opens(u) ==
  /\ pc[u] = "acquired" /\ conn /\ pc' = [pc EXCEPT ![u] = "busy"]
  /\ opened' = [opened EXCEPT ![QueueOf(u)] = TRUE]
  /\ live' = [live EXCEPT ![QueueOf(u)] = TRUE]
  /\ UNCHANGED <<conn, refs, orphan, mail, bounds>>

\* open fails after acquire: the queue is reset and its reference released.
OpenFails(u) ==
  /\ pc[u] = "acquired" /\ pc' = [pc EXCEPT ![u] = "idle"]
  /\ \/ ~conn /\ UNCHANGED faults
     \/ conn /\ faults < MaxFaults /\ faults' = faults + 1
  /\ Teardown(QueueOf(u), u)
  /\ UNCHANGED <<stopped, stops, retries>>

\* close, when the application stops.
Close(q) ==
  /\ stopped /\ opened[q] /\ \A u \in Users : QueueOf(u) = q => pc[u] = "idle"
  /\ Teardown(q, "none")
  /\ UNCHANGED <<pc, bounds>>

-----------------------------------------------------------------------------
(* Users *)

\* send is confirmed by the broker.
Sent(u) ==
  /\ u \in Senders /\ pc[u] = "busy" /\ u \notin orphan /\ live[QueueOf(u)]
  /\ pc' = [pc EXCEPT ![u] = "idle"]
  /\ UNCHANGED <<conn, refs, orphan, opened, live, mail, bounds>>
\* send fails because its channel is gone: reset and release.
SendFails(u) ==
  /\ u \in Senders /\ pc[u] = "busy" /\ (u \in orphan \/ ~live[QueueOf(u)])
  /\ pc' = [pc EXCEPT ![u] = "idle"]
  /\ Teardown(QueueOf(u), u)
  /\ UNCHANGED bounds

\* _on_message: the consumer's callback fills the buffer; the broker sends at
\* most prefetch messages that are not acknowledged.
OnMessage(m) ==
  /\ m \in ready /\ opened["source"] /\ live["source"]
  /\ pc["fetch"] = "busy" \/ buffer # <<>> \/ hand # {}
  /\ Len(buffer) + Cardinality(hand) < Prefetch
  /\ ready' = ready \ {m} /\ buffer' = Append(buffer, m)
  /\ UNCHANGED <<link, hand, done, stale, bounds>>
\* fetch returns what the buffer holds, up to its limit.
Fetched(n) ==
  /\ pc["fetch"] = "busy" /\ "fetch" \notin orphan /\ n \in 1..Len(buffer)
  /\ pc' = [pc EXCEPT !["fetch"] = "idle"]
  /\ hand' = hand \cup Range(SubSeq(buffer, 1, n))
  /\ buffer' = SubSeq(buffer, n + 1, Len(buffer))
  /\ UNCHANGED <<conn, refs, orphan, opened, live, ready, done, stale, bounds>>
\* fetch is cancelled by a pause, a drain or a stop: reset and release, whether
\* or not its open has acquired the connection.
FetchCancelled ==
  /\ stops < MaxStops /\ stops' = stops + 1
  /\ pc["fetch"] \in {"busy", "acquired"} \cup IF CancelEarly THEN {"connecting"} ELSE {}
  /\ pc' = [pc EXCEPT !["fetch"] = "idle"]
  /\ Teardown("source", "fetch")
  /\ UNCHANGED <<stopped, faults, retries>>
\* The application stops: no fetch or send begins any more.
Stop ==
  /\ ~stopped /\ stopped' = TRUE
  /\ UNCHANGED <<link, mail, faults, stops, retries>>
\* A fetch still waiting at the stop is cancelled.
StopCancels ==
  /\ stopped /\ pc["fetch"] = "busy" /\ pc' = [pc EXCEPT !["fetch"] = "idle"]
  /\ Teardown("source", "fetch")
  /\ UNCHANGED bounds

\* ack, or fail, which rejects the message without requeueing it.
Ack(m) ==
  /\ m \in hand /\ hand' = hand \ {m} /\ done' = done \cup {m}
  /\ UNCHANGED <<link, ready, buffer, stale, bounds>>
\* retry after its delay, or release_unstarted: nack with requeue.
Nack(m) ==
  /\ m \in hand /\ retries < MaxRetries /\ retries' = retries + 1
  /\ hand' = hand \ {m} /\ ready' = ready \cup {m}
  /\ UNCHANGED <<link, buffer, done, stale, stopped, faults, stops>>
\* A settlement on a channel that is gone fails; the message is queued again.
StaleSettles(m) ==
  /\ m \in stale /\ stale' = stale \ {m}
  /\ UNCHANGED <<link, ready, buffer, hand, done, bounds>>

\* The network drops the connection; the robust connection restores the
\* channels and their consumer, and the sends in flight fail.
Drop ==
  /\ conn /\ faults < MaxFaults /\ faults' = faults + 1
  /\ orphan' = orphan \cup {u \in Senders : pc[u] = "busy"}
  /\ ChannelGone
  /\ UNCHANGED <<conn, refs, pc, opened, live, stopped, stops, retries>>

Next ==
  \/ \E u \in Users : Begin(u) \/ Acquire(u) \/ Opens(u) \/ OpenFails(u)
  \/ \E u \in Senders : Sent(u) \/ SendFails(u)
  \/ \E q \in Queues : Close(q)
  \/ \E m \in Msgs : OnMessage(m) \/ Ack(m) \/ Nack(m) \/ StaleSettles(m)
  \/ \E n \in 1..Prefetch : Fetched(n)
  \/ FetchCancelled \/ Stop \/ StopCancels \/ Drop
Spec == Init /\ [][Next]_vars
\* The runner fetches again after a cancelled or failed fetch.
FairSpec ==
  /\ Spec /\ WF_vars(Begin("fetch")) /\ WF_vars(\E n \in 1..Prefetch : Fetched(n))
  /\ \A u \in Users : WF_vars(Acquire(u)) /\ WF_vars(Opens(u)) /\ WF_vars(OpenFails(u) /\ ~conn)
  /\ \A u \in Senders : WF_vars(Sent(u)) /\ WF_vars(SendFails(u))
  /\ \A m \in Msgs : WF_vars(OnMessage(m)) /\ WF_vars(Ack(m))

-----------------------------------------------------------------------------
(* Properties *)

Places == <<ready, Range(buffer), hand, done>>
\* Every message is at one place: nothing is lost, and nothing settled is in
\* the queue again.
TypeOK ==
  /\ refs \in Nat /\ orphan \subseteq Users /\ Len(buffer) <= Prefetch
  /\ \A m \in Msgs : \E i \in 1..4 : \A j \in 1..4 : m \in Places[j] <=> j = i

\* An open queue is on an open connection: the release of one queue's reference
\* never closes the connection under the other.
LinkedWhileOpen == \A q \in Queues : opened[q] => live[q] /\ conn

\* After the stop, with both queues closed and nobody inside, no connection is
\* left behind.
ClosedAtStop ==
  stopped /\ (\A q \in Queues : ~opened[q]) /\ (\A u \in Users : pc[u] = "idle") => ~conn

\* Every message is handled unless the application stops first.
EveryMessageHandled == \A m \in Msgs : <>(m \in done \/ stopped)
==============================================================================
