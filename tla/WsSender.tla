------------------------------ MODULE WsSender ------------------------------
(***************************************************************************)
(* ControlPlaneWsSender: the buffer between the reporter and the WebSocket.*)
(* `sync` and `heartbeat` keep only their latest payload, `metrics` and    *)
(* `events` are bounded queues that drop their oldest payload.  One worker *)
(* sends the payloads, reconnecting as needed; a caller may wait for the   *)
(* delivery of its payload.  Everything runs on one event loop, so a step  *)
(* here is what happens between two suspensions; the lock of the sender is *)
(* never held across one and is therefore left out.                        *)
(*                                                                         *)
(* Payloads are numbered in the order they are enqueued.  A waiter is named*)
(* by the payload it was created with.  Abstracted: the identity (service  *)
(* and runtime descriptors) is captured from the first sync or heartbeat,  *)
(* which the reporter always sends first; the end of the worker and what   *)
(* `close` does after it are one step.                                     *)
(***************************************************************************)
EXTENDS Naturals, Sequences, SequencesExt, FiniteSets

CONSTANTS Channels,     \* a subset of the four telemetry channels
          Limit,        \* payloads a metrics or events queue keeps
          MaxPayloads,  \* bound: payloads enqueued
          MaxFaults,    \* bound: refused connections, failed sends, breaks
          MaxCloses     \* bound: calls of close

Payloads == 1..MaxPayloads
Latest == {"sync", "heartbeat"}

VARIABLES
  chan,       \* the channel of every payload enqueued so far
  queue,      \* per channel, the pending payloads
  waiters,    \* per payload, the waiters its delivery resolves
  outcome,    \* per payload, what its own waiter was told
  worker,     \* the worker task: none, wait, asleep, picked, sending
  cur,        \* the payload the worker has picked
  wake,       \* _wake_event
  stop,       \* _stop_requested
  attempts,   \* _reconnect_attempts
  connected,  \* the transport's connection
  sent,       \* payloads written to a connection, in order
  gone,       \* payloads dropped or replaced before they were consumed
  counts      \* connections made, faults met, calls of close

link == <<attempts, connected, sent>>
vars == <<chan, queue, waiters, outcome, worker, cur, wake, stop, link, gone, counts>>

-----------------------------------------------------------------------------
Init ==
  /\ chan = << >>
  /\ queue = [c \in Channels |-> << >>]
  /\ waiters = [p \in Payloads |-> {}]
  /\ outcome = [p \in Payloads |-> "none"]
  /\ worker = "none" /\ cur = 0 /\ wake = FALSE /\ stop = FALSE
  /\ attempts = 0 /\ connected = FALSE /\ sent = << >>
  /\ gone = {}
  /\ counts = [connections |-> 0, faults |-> 0, closes |-> 0]

\* _capture_identity: only a sync or a heartbeat carries both descriptors.
HasIdentity == \E p \in DOMAIN chan : chan[p] \in Latest

\* _fail_waiters and _resolve_waiters leave a waiter that is done alone.
Settle(ws, how) ==
  [w \in Payloads |-> IF w \in ws /\ outcome[w] = "waiting" THEN how ELSE outcome[w]]

\* _replace_latest: the waiters of the payloads replaced join the newcomer's.
ReplaceLatest(old, ws) == ws \cup UNION {waiters[q] : q \in old}

\* _apply_queue_backpressure: the oldest payloads above the limit go.
Kept(q) == IF Len(q) > Limit THEN SubSeq(q, Len(q) - Limit + 1, Len(q)) ELSE q

Put(q, p) == Kept(Append(q, p))

\* start(): a worker that ended, or never was, is started again.
Started == /\ worker' = IF worker = "none" THEN "wait" ELSE worker
           /\ stop' = IF worker = "none" THEN FALSE ELSE stop

\* Mutant: the worker is not signalled.
NoSignal == UNCHANGED wake

\* _signal_worker
Signal == wake' = TRUE

\* __call__ and send_and_wait: the payload is queued and the worker signalled.
\* The waiters of what a full queue drops are failed.
Enqueue(c, wait) ==
  LET p == Len(chan) + 1
      own == IF wait THEN {p} ELSE {}
      all == IF c \in Latest THEN <<p>> ELSE Put(queue[c], p)
      lost == ToSet(queue[c]) \ ToSet(all)
      failing == IF c \in Latest THEN {} ELSE UNION {waiters[q] : q \in lost}
  IN
  /\ p \in Payloads
  /\ HasIdentity \/ c \in Latest
  /\ Started
  /\ chan' = Append(chan, c)
  /\ queue' = [queue EXCEPT ![c] = all]
  /\ waiters' = [q \in Payloads |->
       IF q = p THEN IF c \in Latest THEN ReplaceLatest(lost, own) ELSE own
       ELSE IF q \in lost THEN {} ELSE waiters[q]]
  /\ outcome' = [Settle(failing, "failed") EXCEPT ![p] = IF wait THEN "waiting" ELSE "none"]
  /\ gone' = gone \cup lost
  /\ Signal
  /\ UNCHANGED <<cur, link, counts>>

-----------------------------------------------------------------------------
Priority == <<"sync", "heartbeat", "metrics", "events">>

\* _peek_pending_telemetry: the head of the first queue, by priority.
Peek ==
  LET full == {i \in 1..4 : Priority[i] \in Channels /\ queue[Priority[i]] # << >>}
  IN IF full = {} THEN 0
     ELSE Head(queue[Priority[CHOOSE i \in full : \A j \in full : i <= j]])

Pick ==
  /\ worker = "wait" /\ Peek # 0
  /\ cur' = Peek
  /\ worker' = IF connected THEN "sending" ELSE "picked"
  /\ UNCHANGED <<chan, queue, waiters, outcome, wake, stop, link, gone, counts>>

Sleep ==
  /\ worker = "wait" /\ Peek = 0 /\ ~stop
  /\ worker' = "asleep"
  /\ UNCHANGED <<chan, queue, waiters, outcome, cur, wake, stop, link, gone, counts>>

Wake ==
  /\ worker = "asleep" /\ wake
  /\ worker' = "wait" /\ wake' = FALSE
  /\ UNCHANGED <<chan, queue, waiters, outcome, cur, stop, link, gone, counts>>

\* _ensure_connected_in_background: hello and hello_ack make the connection.
Connect ==
  /\ worker = "picked"
  /\ worker' = "sending"
  /\ connected' = TRUE /\ attempts' = 0
  /\ counts' = [counts EXCEPT !.connections = @ + 1]
  /\ UNCHANGED <<chan, queue, waiters, outcome, cur, wake, stop, sent, gone>>

Fault == /\ counts.faults < MaxFaults
         /\ counts' = [counts EXCEPT !.faults = @ + 1]

\* The worker backs off and starts again from what is pending then.
ConnectFails ==
  /\ worker = "picked" /\ Fault
  /\ worker' = "wait" /\ cur' = 0
  /\ attempts' = attempts + 1
  /\ UNCHANGED <<chan, queue, waiters, outcome, wake, stop, connected, sent, gone>>

\* Mutant: what is at the head is taken off, whatever was sent.
ConsumeHead(q) == IF q = << >> THEN q ELSE Tail(q)

\* _consume_sent_telemetry: only the payload that was sent is taken off.
Consume(q) == IF q # << >> /\ Head(q) = cur THEN Tail(q) ELSE q

SendOk ==
  /\ worker = "sending" /\ connected
  /\ sent' = Append(sent, [payload |-> cur, connection |-> counts.connections])
  /\ queue' = [queue EXCEPT ![chan[cur]] = Consume(@)]
  /\ outcome' = Settle(waiters[cur], "sent")
  /\ waiters' = [waiters EXCEPT ![cur] = {}]
  /\ worker' = "wait" /\ cur' = 0 /\ attempts' = 0
  /\ UNCHANGED <<chan, wake, stop, connected, gone, counts>>

\* A send raises: always without a connection, and when the connection breaks
\* under it.  The transport is closed and the payload stays pending.
SendFails ==
  /\ worker = "sending"
  /\ IF connected THEN Fault ELSE UNCHANGED counts
  /\ connected' = FALSE
  /\ attempts' = IF attempts = 0 THEN 1 ELSE attempts
  /\ worker' = "wait" /\ cur' = 0
  /\ UNCHANGED <<chan, queue, waiters, outcome, wake, stop, sent, gone>>

\* The receive loop of the transport ends with the connection.
Break ==
  /\ connected /\ Fault
  /\ connected' = FALSE
  /\ UNCHANGED <<chan, queue, waiters, outcome, worker, cur, wake, stop, attempts, sent, gone>>

\* close(), once the worker is gone: waiters are failed, queues dropped.
Drop ==
  LET left == UNION {ToSet(queue[c]) : c \in Channels} IN
  /\ queue' = [c \in Channels |-> << >>]
  /\ outcome' = Settle(UNION {waiters[p] : p \in left}, "failed")
  /\ waiters' = [p \in Payloads |-> IF p \in left THEN {} ELSE waiters[p]]
  /\ gone' = gone \cup left

Closed == /\ worker' = "none" /\ cur' = 0 /\ wake' = FALSE
          /\ connected' = FALSE /\ attempts' = 0

\* close(): asks the worker to stop and wakes it.
Close ==
  /\ worker # "none" /\ ~stop /\ counts.closes < MaxCloses
  /\ stop' = TRUE /\ Signal
  /\ counts' = [counts EXCEPT !.closes = @ + 1]
  /\ UNCHANGED <<chan, queue, waiters, outcome, worker, cur, link, gone>>

\* The worker has sent everything and returns; close goes on.
WorkerStops ==
  /\ worker = "wait" /\ Peek = 0 /\ stop
  /\ Drop /\ Closed
  /\ UNCHANGED <<chan, stop, sent, counts>>

\* shutdown_flush_timeout_s is over: the worker is cancelled wherever it waits.
CloseTimesOut ==
  /\ stop /\ worker # "none"
  /\ Drop /\ Closed
  /\ UNCHANGED <<chan, stop, sent, counts>>

Next ==
  \/ \E c \in Channels, wait \in BOOLEAN : Enqueue(c, wait)
  \/ Pick \/ Sleep \/ Wake \/ Connect \/ ConnectFails \/ SendOk \/ SendFails \/ Break
  \/ Close \/ WorkerStops \/ CloseTimesOut

Spec == Init /\ [][Next]_vars
        /\ WF_vars(Pick \/ Sleep \/ Wake \/ Connect \/ SendOk \/ SendFails \/ WorkerStops)

-----------------------------------------------------------------------------
Queued == UNION {ToSet(queue[c]) : c \in Channels}
Sent == {sent[i].payload : i \in DOMAIN sent}

\* The type invariant.
TypeOK ==
  /\ chan \in Seq(Channels) /\ Len(chan) <= MaxPayloads
  /\ \A c \in Channels : /\ queue[c] \in Seq({p \in Payloads : p <= Len(chan) /\ chan[p] = c})
                         /\ Len(queue[c]) <= IF c \in Latest THEN 1 ELSE Limit
  /\ waiters \in [Payloads -> SUBSET Payloads]
  /\ outcome \in [Payloads -> {"none", "waiting", "sent", "failed"}]
  /\ worker \in {"none", "wait", "asleep", "picked", "sending"}
  /\ cur \in 0..Len(chan) /\ wake \in BOOLEAN /\ stop \in BOOLEAN /\ connected \in BOOLEAN
  /\ attempts \in Nat /\ gone \subseteq Payloads

\* A caller is told that its telemetry was sent only when its payload, or a
\* newer one of the same latest-wins channel, really was written to a
\* connection: _replace_latest moves waiters while a payload is being sent.
Honest ==
  \A w \in Payloads : outcome[w] = "sent" =>
    \E p \in Sent : p = w \/ (p > w /\ chan[p] = chan[w] /\ chan[w] \in Latest)

\* A payload leaves its queue only by being sent, or by being replaced or
\* dropped: what _consume_sent_telemetry takes off is what was sent, although
\* backpressure and replacement change the head during the send.
NothingSkipped == \A p \in DOMAIN chan : p \in Queued \cup Sent \cup gone

\* The payloads of one channel are written in the order they were enqueued,
\* across failed sends and reconnections.
InOrder ==
  \A i, j \in DOMAIN sent :
    i < j /\ chan[sent[i].payload] = chan[sent[j].payload]
      => sent[i].payload <= sent[j].payload

\* A waiter is attached to at most one payload, which is still to be consumed:
\* none is left on a payload nobody will ever settle.
WaitersAttached ==
  \A w \in Payloads : outcome[w] = "waiting" =>
    \E p \in (Queued \cup {cur}) \ {0} : w \in waiters[p]

\* Whoever waits for a delivery is answered: no wake-up of the worker is lost
\* and neither backpressure, replacement nor close forgets a waiter.
AllSettled == \A w \in Payloads : outcome[w] = "waiting" ~> outcome[w] # "waiting"

\* The protocol document: after a reconnection the agent sends a fresh sync
\* after hello_ack, so the first payload of every connection is a sync.
FreshSync ==
  \A i \in DOMAIN sent :
    (\A j \in 1..(i - 1) : sent[j].connection # sent[i].connection)
      => chan[sent[i].payload] = "sync"

=============================================================================
