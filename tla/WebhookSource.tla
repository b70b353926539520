------------------------------ MODULE WebhookSource ------------------------------
(***************************************************************************)
(* WebhookSource and the HTTP server that sources on one address share:    *)
(* opening and closing under the registry lock, requests that are routed   *)
(* before their body is read and enqueued after, the bounded queue, and    *)
(* the handlers that fetch from it and put back what they retry.  Routes   *)
(* are (path, method) pairs; parsing is its outcome, good or bad.          *)
(***************************************************************************)
EXTENDS Integers, Sequences, FiniteSets

CONSTANTS Sources,      \* sources with the same host and port
          Twins,        \* those of them that claim the same route
          Requests,
          QueueMax,     \* queue_maxsize
          Concurrency,  \* handlers of a source's task
          BatchSize,    \* batch_size
          MayClose,     \* sources may be closed while requests come
          MaxRetries, MaxFaults, \* bounds of the model
          MaxPauses     \* bound on the stops and pauses that meet a fetch

RouteOf(s) == IF s \in Twins THEN "twin" ELSE s
Paths == {RouteOf(s) : s \in Sources}

VARIABLES life,     \* of each source: new, starting, open, closing, closed, refused
          server,   \* the shared _WebhookServer: none, up, closing
          lock,     \* holder of the registry lock, or {}
          routes,   \* _routes: the source registered for each route
          req,      \* each request: where its handler is, its route and source
          status,   \* what the client was told
          queue,    \* _queue of each source
          hand,     \* deliveries with a handler
          putting,  \* deliveries whose retry() waits for room in the queue
          done,     \* deliveries acknowledged or failed
          dropped,  \* events fetched for nobody, as their task stopped or was paused
          retries, faults, pauses

server_vars == <<life, server, lock, routes>>
queue_vars  == <<queue, hand, putting, done, dropped>>
bounds      == <<retries, faults, pauses>>
vars        == <<server_vars, req, status, queue_vars, bounds>>

Init ==
  /\ life = [s \in Sources |-> "new"] /\ server = "none" /\ lock = {}
  /\ routes = [p \in Paths |-> {}]
  /\ req = [r \in Requests |-> [at |-> "new", path |-> {}, source |-> {}]]
  /\ status = [r \in Requests |-> 0]
  /\ queue = [s \in Sources |-> <<>>]
  /\ hand = [s \in Sources |-> {}] /\ putting = [s \in Sources |-> {}] /\ done = {} /\ dropped = {}
  /\ retries = 0 /\ faults = 0 /\ pauses = 0

(***************************************************************************)
(* The shared server.                                                      *)
(***************************************************************************)
Become(s, l) == life' = [life EXCEPT ![s] = l]

Duplicate(s) == routes[RouteOf(s)] \notin {{}, {s}}

(* open() and register() up to the start of the listener; a route that is  *)
(* taken raises.                                                           *)
Open(s) ==
  /\ life[s] = "new" /\ lock = {}
  /\ CASE Duplicate(s) -> Become(s, "refused") /\ UNCHANGED <<lock, routes>>
       [] ~Duplicate(s) /\ server = "up" ->
            Become(s, "open") /\ routes' = [routes EXCEPT ![RouteOf(s)] = {s}] /\ lock' = lock
       [] OTHER -> Become(s, "starting") /\ lock' = {s} /\ routes' = routes
  /\ UNCHANGED <<server, req, status, queue_vars, bounds>>

Started(s) ==
  /\ life[s] = "starting"
  /\ Become(s, "open") /\ server' = "up" /\ lock' = {}
  /\ routes' = [routes EXCEPT ![RouteOf(s)] = {s}]
  /\ UNCHANGED <<req, status, queue_vars, bounds>>

(* start_server fails: the port is taken.                                  *)
StartFails(s) ==
  /\ life[s] = "starting" /\ faults < MaxFaults /\ faults' = faults + 1
  /\ Become(s, "refused") /\ lock' = {}
  /\ UNCHANGED <<server, routes, req, status, queue_vars, retries, pauses>>

Unused(rs) == \A p \in Paths : rs[p] = {}

(* close() and unregister(): the last route closes the listener and waits  *)
(* for it under the lock.                                                  *)
Close(s) ==
  LET rest == [routes EXCEPT ![RouteOf(s)] = @ \ {s}]
  IN  /\ MayClose /\ life[s] = "open" /\ lock = {}
      /\ routes' = rest
      /\ IF Unused(rest) THEN Become(s, "closing") /\ server' = "closing" /\ lock' = {s}
         ELSE Become(s, "closed") /\ UNCHANGED <<server, lock>>
      /\ UNCHANGED <<req, status, queue_vars, bounds>>

Closed(s) ==
  /\ life[s] = "closing"
  /\ Become(s, "closed") /\ server' = "none" /\ lock' = {}
  /\ UNCHANGED <<routes, req, status, queue_vars, bounds>>

(***************************************************************************)
(* Requests.                                                               *)
(***************************************************************************)
Answer(r, code) == status' = [status EXCEPT ![r] = code]

(* _read_headers and _resolve_route: the source is found now and used when *)
(* the body is there.                                                      *)
Route(r, p) ==
  /\ req[r].at = "new" /\ server = "up"
  /\ IF routes[p] = {}
     THEN Answer(r, 404) /\ req' = [req EXCEPT ![r].at = "ended"]
     ELSE /\ req' = [req EXCEPT ![r] = [at |-> "body", path |-> {p}, source |-> routes[p]]]
          /\ status' = status
  /\ UNCHANGED <<server_vars, queue_vars, bounds>>

(* An unauthorized, too large, late, cut off or malformed request.         *)
BadRequest(r) ==
  /\ req[r].at = "body" /\ faults < MaxFaults /\ faults' = faults + 1
  /\ Answer(r, 400) /\ req' = [req EXCEPT ![r].at = "ended"]
  /\ UNCHANGED <<server_vars, queue_vars, retries, pauses>>

(* The events of a queue. *)
Events(q) == {q[i] : i \in DOMAIN q}

Room(s) == Len(queue[s]) < QueueMax

Put(s, r) == queue' = [queue EXCEPT ![s] = Append(@, r)]

(* The body is read and the event enqueued without waiting, or refused     *)
(* with 503.                                                               *)
Body(r) ==
  /\ req[r].at = "body"
  /\ \E s \in req[r].source :
       IF Room(s)
       THEN Put(s, r) /\ req' = [req EXCEPT ![r].at = "answer"] /\ status' = status
       ELSE Answer(r, 503) /\ req' = [req EXCEPT ![r].at = "ended"] /\ queue' = queue
  /\ UNCHANGED <<server_vars, hand, putting, done, dropped, bounds>>

(* The response is written, or the client has gone.                        *)
Respond(r) ==
  /\ req[r].at = "answer"
  /\ \/ Answer(r, 202) /\ faults' = faults
     \/ Answer(r, 500) /\ faults < MaxFaults /\ faults' = faults + 1
  /\ req' = [req EXCEPT ![r].at = "ended"]
  /\ UNCHANGED <<server_vars, queue_vars, retries, pauses>>

(***************************************************************************)
(* Handlers.                                                               *)
(***************************************************************************)
Least(S) == CHOOSE x \in S : \A y \in S : x <= y
Free(s) == Concurrency - Cardinality(hand[s] \cup putting[s])

(* fetch(): as many events as there are, up to the limit.                  *)
Limit(s) == Least({Free(s), BatchSize, Len(queue[s])})
Batch(s) == Events(SubSeq(queue[s], 1, Limit(s)))
Take(s) ==
  /\ life[s] = "open" /\ Limit(s) > 0
  /\ queue' = [queue EXCEPT ![s] = SubSeq(@, Limit(s) + 1, Len(@))]

Fetch(s) ==
  /\ Take(s) /\ hand' = [hand EXCEPT ![s] = @ \cup Batch(s)]
  /\ UNCHANGED <<server_vars, req, status, putting, done, dropped, bounds>>

(* The fetch is over as the task stops, drains or is paused: the runner     *)
(* gives the deliveries to nobody, and their release puts nothing back.     *)
FetchDropped(s) ==
  /\ pauses < MaxPauses /\ pauses' = pauses + 1
  /\ Take(s) /\ dropped' = dropped \cup Batch(s)
  /\ UNCHANGED <<server_vars, req, status, hand, putting, done, retries, faults>>

Finish(s, r) ==
  /\ r \in hand[s]
  /\ hand' = [hand EXCEPT ![s] = @ \ {r}] /\ done' = done \cup {r}
  /\ UNCHANGED <<server_vars, req, status, queue, putting, dropped, bounds>>

\* Mutant: a retry that finds the queue full gives the event up.
RetryDrops(s, r) ==
  /\ r \in hand[s] /\ retries < MaxRetries /\ retries' = retries + 1
  /\ hand' = [hand EXCEPT ![s] = @ \ {r}] /\ putting' = putting
  /\ IF Room(s) THEN Put(s, r) ELSE queue' = queue
  /\ UNCHANGED <<server_vars, req, status, done, dropped, faults, pauses>>

(* retry() puts the event back and waits, in its handler's slot, while the *)
(* queue is full.                                                          *)
Retry(s, r) ==
  /\ r \in hand[s] /\ retries < MaxRetries /\ retries' = retries + 1
  /\ hand' = [hand EXCEPT ![s] = @ \ {r}]
  /\ IF Room(s) THEN Put(s, r) /\ putting' = putting
     ELSE putting' = [putting EXCEPT ![s] = @ \cup {r}] /\ queue' = queue
  /\ UNCHANGED <<server_vars, req, status, done, dropped, faults, pauses>>

PutWakes(s, r) ==
  /\ r \in putting[s] /\ Room(s)
  /\ Put(s, r) /\ putting' = [putting EXCEPT ![s] = @ \ {r}]
  /\ UNCHANGED <<server_vars, req, status, hand, done, dropped, bounds>>

Next ==
  \/ \E s \in Sources : \/ Open(s) \/ Started(s) \/ StartFails(s) \/ Close(s) \/ Closed(s)
                        \/ Fetch(s) \/ FetchDropped(s)
                        \/ \E r \in Requests : Finish(s, r) \/ Retry(s, r) \/ PutWakes(s, r)
  \/ \E r \in Requests : \/ \E p \in Paths : Route(r, p)
                         \/ BadRequest(r) \/ Body(r) \/ Respond(r)

Spec == Init /\ [][Next]_vars

(* Handlers end, waiting puts proceed, and the runner of a task that is    *)
(* neither stopped nor paused for good fetches; no client has to send.     *)
Fairness ==
  /\ \A s \in Sources : WF_vars(Fetch(s))
  /\ \A s \in Sources, r \in Requests :
       WF_vars(Finish(s, r) \/ Retry(s, r)) /\ WF_vars(PutWakes(s, r))
FairSpec == Spec /\ Fairness

--------------------------------------------------------------------------------
Accepted(r) == status[r] \in {202, 500} \/ req[r].at = "answer"
Places(r) == Cardinality({s \in Sources : r \in Events(queue[s])})
           + Cardinality({s \in Sources : r \in hand[s]})
           + Cardinality({s \in Sources : r \in putting[s]})
           + (IF r \in done THEN 1 ELSE 0) + (IF r \in dropped THEN 1 ELSE 0)

(* The type invariant of the server and its queues.                        *)
TypeOK ==
  /\ life \in [Sources -> {"new", "starting", "open", "closing", "closed", "refused"}]
  /\ server \in {"none", "up", "closing"} /\ lock \subseteq Sources
  /\ lock = {s \in Sources : life[s] \in {"starting", "closing"}}
  /\ routes \in [Paths -> SUBSET Sources]
  /\ \A s \in Sources : Len(queue[s]) <= QueueMax /\ Free(s) >= 0
  /\ done \subseteq Requests /\ dropped \subseteq Requests

(* A request that was enqueued is in one place, and one that was refused   *)
(* is in none: retries, full queues and lost answers neither lose nor      *)
(* double an event, and only a fetch that a stop or a pause overtakes      *)
(* drops one, which then is nowhere else and never handled.                *)
OnePlace == \A r \in Requests : Places(r) = IF Accepted(r) THEN 1 ELSE 0

(* The listener is up, and the route its own, as long as a source is open: *)
(* neither the close of another source of the address nor a second source  *)
(* of the same route disturbs it.                                          *)
OpenIsServed ==
  \A s \in Sources : life[s] = "open" => server = "up" /\ routes[RouteOf(s)] = {s}

(* Every accepted event that no stop or pause drops is handled to its end. *)
AcceptedHandled == \A r \in Requests : Accepted(r) ~> r \in done \cup dropped
================================================================================
