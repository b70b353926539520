----------------------------- MODULE AppRuntime -----------------------------
(***************************************************************************)
(* The worker runtime of onestep: TaskRunner (runtime/runner.py) and the   *)
(* part of OneStepApp (app.py) that starts, supervises, drains, pauses,    *)
(* restarts and stops the runners of a task.                               *)
(*                                                                         *)
(* Everything runs on one event loop, so a step is the code between two    *)
(* awaits.  The coroutines are the runners, the fetch and the "stop        *)
(* fetching" watcher of each runner, the handler of each delivery, serve() *)
(* and the control commands (each command is a task of its own, ws.py).    *)
(*                                                                         *)
(* A delivery is in the source's queue, in the result of a fetch           *)
(* ("fetched"), in the hands of a runner that has not started it yet       *)
(* ("claimed"), in a handler ("running"), settled, or lost: taken from the *)
(* source while nobody will handle it or give it back, so that only a      *)
(* lease or visibility timeout of the source can bring it back.            *)
(***************************************************************************)
EXTENDS Naturals, FiniteSets

CONSTANTS
    Deliveries,
    Runners,          \* runner identities; a restart uses a fresh one
    First,            \* the runner serve() starts
    Commands,         \* restart_task commands
    Concurrency,      \* task.concurrency
    CancelSafe,       \* source.fetch_is_cancel_safe
    GivesBack,        \* release_unstarted() returns the delivery to the source
    FetchFails,       \* fetch() may raise ConnectorOperationError
    DrainTimesOut,    \* shutdown_timeout_s may elapse with handlers running
    CommandTimesOut,  \* a command may exceed its timeout_s
    Nobody

VARIABLES
    runner,    \* runner[r]: control state and the flags status reports read
    place,     \* place[d]: where the delivery is and which runner has it
    stopping,  \* app.is_stopping
    draining,  \* _drain_requested
    paused,    \* the task is in _paused_tasks
    listed,    \* _runners
    tracked,   \* _runner_tasks: the runners serve() waits for
    live,      \* the runners serve() or shutdown() is waiting for right now
    serve,     \* where serve() and shutdown() are
    command    \* command[k]: where restart_task_runner is and the runner it stopped

vars == <<runner, place, stopping, draining, paused, listed, tracked, live, serve, command>>

Pcs == {"unborn", "loop", "waiting", "drainWait", "pauseWait", "resuming", "fetching",
        "backoff", "releasing", "emitting", "finally", "done"}

Unborn == [pc |-> "unborn", fetch |-> "none", room |-> 0, watch |-> FALSE,
           drainParked |-> FALSE, pauseParked |-> FALSE, exiting |-> FALSE, failed |-> FALSE]

Born == [Unborn EXCEPT !.pc = "loop"]

InQueue == [at |-> "queue", by |-> Nobody]
Settled == [at |-> "settled", by |-> Nobody]
Lost    == [at |-> "lost", by |-> Nobody]

Init ==
    /\ runner = [r \in Runners |-> IF r = First THEN Born ELSE Unborn]
    /\ place = [d \in Deliveries |-> InQueue]
    /\ stopping = FALSE /\ draining = FALSE /\ paused = FALSE
    /\ listed = {First} /\ tracked = {First} /\ live = {First}
    /\ serve = "serving"
    /\ command = [k \in Commands |-> [at |-> "new", target |-> Nobody]]

appVars == <<stopping, draining, paused, listed, tracked, live, serve, command>>

Held(r, k) == {d \in Deliveries : place[d] = [at |-> k, by |-> r]}
Inflight(r) == Held(r, "running")
IsFetching(r) == runner[r].pc \in {"fetching", "backoff", "releasing"}
StopFetching == stopping \/ draining \/ paused
Alive(r) == runner[r].pc \notin {"unborn", "done"}

Move(S, p) == place' = [d \in Deliveries |-> IF d \in S THEN p ELSE place[d]]
Update(r, rec) == runner' = [runner EXCEPT ![r] = rec]
-----------------------------------------------------------------------------
(* TaskRunner.run *)

\* Leaving the loop, normally or by an exception: the finally block unparks.
Exit(rec) == [rec EXCEPT !.pc = "finally", !.fetch = "none", !.watch = FALSE,
                         !.drainParked = FALSE, !.pauseParked = FALSE]

\* _fetch_deliveries returned []: leave when stopping, else wait or sleep.
AfterEmpty(rec) ==
    LET back == [rec EXCEPT !.fetch = "none", !.watch = FALSE]
    IN  IF rec.exiting \/ stopping THEN Exit(back) ELSE [back EXCEPT !.pc = "waiting"]

\* From the capacity check to the two tasks _fetch_deliveries creates.
BeginFetch(r, rec) ==
    LET available == Concurrency - Cardinality(Inflight(r))
    IN  IF available <= 0 THEN [rec EXCEPT !.pc = "waiting"]
        ELSE IF StopFetching THEN AfterEmpty(rec)
        ELSE [rec EXCEPT !.pc = "fetching", !.fetch = "running", !.room = available]

\* Mutant: a draining runner waits for the shutdown without saying so.
ParkSilently(r) ==
    IF Inflight(r) # {} THEN [runner[r] EXCEPT !.pc = "waiting"]
    ELSE [runner[r] EXCEPT !.pauseParked = FALSE, !.pc = "drainWait"]

DrainStep(r) ==
    IF Inflight(r) # {} THEN [runner[r] EXCEPT !.pc = "waiting"]
    ELSE [runner[r] EXCEPT !.drainParked = TRUE, !.pauseParked = FALSE, !.pc = "drainWait"]

PauseStep(r) ==
    IF Inflight(r) # {} THEN [runner[r] EXCEPT !.pc = "waiting"]
    ELSE [runner[r] EXCEPT !.drainParked = FALSE, !.pauseParked = TRUE, !.pc = "pauseWait"]

\* One pass over the top of the loop, up to its first await.
LoopStep(r) ==
    LET me == runner[r]
    IN  IF stopping THEN Exit(me)
        ELSE IF draining THEN DrainStep(r)
        ELSE IF paused THEN PauseStep(r)
        ELSE IF me.pauseParked THEN [me EXCEPT !.drainParked = FALSE, !.pc = "resuming"]
        ELSE BeginFetch(r, [me EXCEPT !.drainParked = FALSE])

Loop(r) ==
    /\ runner[r].pc = "loop"
    /\ Update(r, LoopStep(r))
    /\ UNCHANGED <<place, appVars>>

\* A handler finished, the poll interval elapsed or the sleep is over.
WakeUp(r) ==
    /\ runner[r].pc \in {"waiting", "pauseWait"}
    /\ Update(r, [runner[r] EXCEPT !.pc = "loop"])
    /\ UNCHANGED <<place, appVars>>

\* wait_for_shutdown() returned in one of the two parking places.
ParkEnds(r) ==
    /\ runner[r].pc \in {"drainWait", "pauseWait"}
    /\ stopping
    /\ Update(r, Exit(runner[r]))
    /\ UNCHANGED <<place, appVars>>

\* source.resume_after_pause() returned.
Resumed(r) ==
    /\ runner[r].pc = "resuming"
    /\ Update(r, BeginFetch(r, [runner[r] EXCEPT !.pauseParked = FALSE]))
    /\ UNCHANGED <<place, appVars>>

(* _fetch_deliveries *)

FetchReturns(r) ==
    /\ runner[r].fetch = "running"
    /\ \E F \in SUBSET {d \in Deliveries : place[d] = InQueue} :
          /\ Cardinality(F) <= runner[r].room
          /\ Move(F, [at |-> "fetched", by |-> r])
    /\ Update(r, [runner[r] EXCEPT !.fetch = "done"])
    /\ UNCHANGED appVars

FetchTakes(r) == FetchReturns(r) /\ place' # place

FetchRaises(r) ==
    /\ FetchFails
    /\ runner[r].fetch = "running"
    /\ \E e \in {"error", "fatal"} : Update(r, [runner[r] EXCEPT !.fetch = e])
    /\ UNCHANGED <<place, appVars>>

\* wait_for_stop_fetching() returned.
WatcherFires(r) ==
    /\ runner[r].pc = "fetching"
    /\ ~runner[r].watch
    /\ StopFetching
    /\ Update(r, [runner[r] EXCEPT !.watch = TRUE])
    /\ UNCHANGED <<place, appVars>>

\* The outcome of awaiting the finished fetch (_resolve_fetch_task): deliveries,
\* a backoff, or an exception that ends the runner.
Resolved(rec) ==
    IF rec.fetch = "error" THEN [rec EXCEPT !.pc = "backoff"]
    ELSE [Exit(rec) EXCEPT !.failed = TRUE]

\* The stop controls won the race and the source may be cancelled: the fetch is
\* cancelled, and what it returned if it had just finished is dropped.
AbandonFetch(r) ==
    /\ runner[r].pc = "fetching" /\ runner[r].watch /\ CancelSafe
    /\ Move(Held(r, "fetched"), Lost)
    /\ Update(r, AfterEmpty(runner[r]))
    /\ UNCHANGED appVars

\* Mutant: a fetch that must not be cancelled is dropped like any other.
DropFetch(r) ==
    /\ runner[r].pc = "fetching" /\ runner[r].watch /\ ~CancelSafe
    /\ Move(Held(r, "fetched"), Lost)
    /\ Update(r, AfterEmpty(runner[r]))
    /\ UNCHANGED appVars

\* The stop controls won the race and the source must not be cancelled.
AwaitFetch(r) ==
    /\ runner[r].pc = "fetching" /\ runner[r].watch /\ ~CancelSafe
    /\ Update(r, [runner[r] EXCEPT !.pc = "releasing"])
    /\ UNCHANGED <<place, appVars>>

\* The fetch won the race; the stop controls are looked at once more.
FetchDone(r) ==
    /\ runner[r].pc = "fetching" /\ ~runner[r].watch
    /\ runner[r].fetch \in {"done", "error", "fatal"}
    /\ IF runner[r].fetch # "done"
       THEN Update(r, Resolved(runner[r])) /\ UNCHANGED place
       ELSE IF StopFetching
       THEN Update(r, [runner[r] EXCEPT !.pc = "releasing"]) /\ UNCHANGED place
       ELSE IF Held(r, "fetched") = {}
       THEN Update(r, AfterEmpty(runner[r])) /\ UNCHANGED place
       ELSE /\ Update(r, [runner[r] EXCEPT !.pc = "emitting", !.fetch = "none"])
            /\ Move(Held(r, "fetched"), [at |-> "claimed", by |-> r])
    /\ UNCHANGED appVars

\* release_unstarted() of one delivery.
ReleaseOne(r) ==
    /\ runner[r].pc = "releasing" /\ runner[r].fetch = "done"
    /\ \E d \in Held(r, "fetched") : Move({d}, IF GivesBack THEN InQueue ELSE Lost)
    /\ UNCHANGED <<runner, appVars>>

ReleaseEnds(r) ==
    /\ runner[r].pc = "releasing"
    /\ runner[r].fetch \in {"done", "error", "fatal"}
    /\ Held(r, "fetched") = {}
    /\ Update(r, IF runner[r].fetch = "done" THEN AfterEmpty(runner[r])
                                             ELSE Resolved(runner[r]))
    /\ UNCHANGED <<place, appVars>>

\* _handle_source_fetch_error is over.
BackoffEnds(r) ==
    /\ runner[r].pc = "backoff"
    /\ Update(r, AfterEmpty(runner[r]))
    /\ UNCHANGED <<place, appVars>>

\* The FETCHED events are emitted and a handler task is created per delivery.
StartHandlers(r) ==
    /\ runner[r].pc = "emitting"
    /\ Move(Held(r, "claimed"), [at |-> "running", by |-> r])
    /\ Update(r, [runner[r] EXCEPT !.pc = "loop"])
    /\ UNCHANGED appVars

\* DeliveryExecutor.execute returned: acknowledged, or given back for a retry.
HandlerEnds(d) ==
    /\ place[d].at = "running"
    /\ \E p \in {Settled, InQueue} : Move({d}, p)
    /\ UNCHANGED <<runner, appVars>>

(* _drain_inflight in the finally block *)

Finished(rec) == [rec EXCEPT !.pc = "done"]

DrainEnds(r) ==
    /\ runner[r].pc = "finally"
    /\ Inflight(r) = {} \/ DrainTimesOut
    /\ Update(r, Finished(runner[r]))
    /\ UNCHANGED <<place, appVars>>
-----------------------------------------------------------------------------
(* Cancelling a runner task *)

\* CancelledError at the runner's current await.
Cancelled(r) ==
    LET me == runner[r]
    IN  CASE me.pc \in {"unborn", "done"} -> me
          [] me.pc = "finally" -> [Finished(me) EXCEPT !.failed = FALSE]
          [] me.pc = "backoff" /\ ~me.exiting -> [me EXCEPT !.exiting = TRUE]
          [] me.pc = "fetching" /\ ~(me.fetch = "running" /\ CancelSafe) ->
                [me EXCEPT !.pc = "releasing", !.exiting = TRUE]
          [] me.pc = "releasing" /\ me.fetch # "running" /\ ~me.exiting ->
                [me EXCEPT !.exiting = TRUE]
          [] OTHER -> Exit(me)

\* Deliveries nobody looks after once r is cancelled: claimed ones whose events
\* were being emitted, and fetched ones whose release is interrupted for good.
Orphans(r) ==
    Held(r, "claimed") \cup IF runner[r].pc = "releasing" /\ runner[r].exiting
                            THEN Held(r, "fetched") ELSE {}

\* A fetch that must not be cancelled is awaited directly, so cancelling its
\* runner cancels it too, with whatever it has taken from the source by then.
TornFetch(S) ==
    IF \E r \in S : runner[r].pc = "releasing" /\ runner[r].fetch = "running"
    THEN {d \in Deliveries : place[d] = InQueue} ELSE {}

CancelRunners(S) ==
    /\ runner' = [r \in Runners |-> IF r \in S THEN Cancelled(r) ELSE runner[r]]
    /\ \E F \in SUBSET TornFetch(S) :
          Move(F \cup UNION {Orphans(r) : r \in S}, Lost)
-----------------------------------------------------------------------------
(* OneStepApp: stop controls *)

RequestShutdown ==
    /\ ~stopping /\ stopping' = TRUE
    /\ UNCHANGED <<runner, place, draining, paused, listed, tracked, live, serve, command>>

RequestDrain ==
    /\ ~draining /\ draining' = TRUE
    /\ UNCHANGED <<runner, place, stopping, paused, listed, tracked, live, serve, command>>

RequestPause ==
    /\ ~paused /\ paused' = TRUE
    /\ UNCHANGED <<runner, place, stopping, draining, listed, tracked, live, serve, command>>

RequestResume ==
    /\ paused /\ paused' = FALSE
    /\ UNCHANGED <<runner, place, stopping, draining, listed, tracked, live, serve, command>>

(* restart_task_runner: stop_task_runner, then start_task_runner *)

\* The handle is popped and its task cancelled; the command waits for its end.
\* Commands are received until the reporter's shutdown hook closes its socket.
StopBegins(k) ==
    /\ command[k].at = "new"
    /\ serve \in {"serving", "failing", "closing"}
    /\ command' = [command EXCEPT ![k] =
                      [at |-> "stopping",
                       target |-> IF tracked = {} THEN Nobody ELSE CHOOSE r \in tracked : TRUE]]
    /\ tracked' = {}
    /\ CancelRunners(tracked)
    /\ UNCHANGED <<stopping, draining, paused, listed, live, serve>>

TargetGone(k) == command[k].target # Nobody => ~Alive(command[k].target)

\* Mutant: the cancelled runner is not awaited.
StopWithoutWaiting(k) ==
    /\ command[k].at = "stopping"
    /\ listed' = {}
    /\ paused' = FALSE
    /\ command' = [command EXCEPT ![k].at = "starting"]
    /\ UNCHANGED <<runner, place, stopping, draining, tracked, live, serve>>

\* Every runner of the task is taken off the list, whoever started it.
StopEnds(k) ==
    /\ command[k].at = "stopping"
    /\ TargetGone(k)
    /\ listed' = {}
    /\ paused' = FALSE
    /\ command' = [command EXCEPT ![k].at = "starting"]
    /\ UNCHANGED <<runner, place, stopping, draining, tracked, live, serve>>

\* The resources are open again: a fresh runner is listed and tracked.
StartEnds(k) ==
    /\ command[k].at = "starting"
    /\ \E r \in Runners :
          /\ runner[r].pc = "unborn"
          /\ Update(r, Born)
          /\ listed' = listed \cup {r}
          /\ tracked' = {r}
    /\ command' = [command EXCEPT ![k].at = "ended"]
    /\ UNCHANGED <<place, stopping, draining, paused, live, serve>>

\* wait_for() cancels the command: a runner it waits for is cancelled again, and
\* what the command had not done yet is not done.
CommandTimeout(k) ==
    /\ CommandTimesOut
    /\ command[k].at \in {"stopping", "starting"}
    /\ IF command[k].at = "stopping" /\ ~TargetGone(k)
       THEN CancelRunners({command[k].target})
       ELSE UNCHANGED <<runner, place>>
    /\ command' = [command EXCEPT ![k].at = "ended"]
    /\ UNCHANGED <<stopping, draining, paused, listed, tracked, live, serve>>

(* serve and shutdown *)

\* serve() looks at the registry: its wait is over (or it polls, with nothing to
\* wait for).  A handle that a restart has popped stays in the set it waits for.
Looks ==
    /\ serve = "serving"
    /\ live = {} \/ \E r \in live : ~Alive(r)

Failed(r) == runner[r].pc = "done" /\ runner[r].failed

\* Runners that serve() has not seen the end of.
Uninspected == {r \in tracked : Alive(r) \/ Failed(r)}

KeepServing ==
    /\ Looks
    /\ \A r \in live : ~Failed(r)
    /\ Uninspected # {} \/ ~stopping
    /\ live' = Uninspected
    /\ UNCHANGED <<runner, place, stopping, draining, paused, listed, tracked, serve, command>>

\* A runner ended with an exception: the others are cancelled and awaited.
RunnerFailed ==
    /\ Looks
    /\ \E r \in live : Failed(r)
    /\ CancelRunners(tracked)
    /\ serve' = "failing"
    /\ live' = tracked
    /\ UNCHANGED <<stopping, draining, paused, listed, tracked, command>>

\* No runner is left to wait for; the finally block calls shutdown().
ServeEnds ==
    /\ \/ Looks /\ (\A r \in live : ~Failed(r)) /\ Uninspected = {} /\ stopping
       \/ serve = "failing" /\ \A r \in live : ~Alive(r)
    /\ serve' = "closing"
    /\ stopping' = TRUE
    /\ UNCHANGED <<runner, place, draining, paused, listed, tracked, live, command>>

\* The registries are emptied.
Down ==
    /\ serve' = "down"
    /\ listed' = {} /\ tracked' = {} /\ paused' = FALSE

\* Resources are closed first, then the runners still registered are cancelled.
CloseResources ==
    /\ serve = "closing"
    /\ CancelRunners(tracked)
    /\ live' = tracked
    /\ IF tracked = {} THEN Down
       ELSE serve' = "closed" /\ UNCHANGED <<listed, tracked, paused>>
    /\ UNCHANGED <<stopping, draining, command>>

ShutdownEnds ==
    /\ serve = "closed"
    /\ \A r \in live : ~Alive(r)
    /\ Down
    /\ UNCHANGED <<runner, place, stopping, draining, live, command>>
-----------------------------------------------------------------------------
RunnerStep(r) ==
    \/ Loop(r) \/ WakeUp(r) \/ ParkEnds(r) \/ Resumed(r)
    \/ AbandonFetch(r) \/ AwaitFetch(r) \/ FetchDone(r)
    \/ ReleaseOne(r) \/ ReleaseEnds(r) \/ BackoffEnds(r)
    \/ StartHandlers(r) \/ DrainEnds(r)

FetchStep(r) == FetchReturns(r) \/ FetchRaises(r)

ServeStep == KeepServing \/ RunnerFailed \/ ServeEnds \/ CloseResources \/ ShutdownEnds

Control == RequestShutdown \/ RequestDrain \/ RequestPause \/ RequestResume

CommandStep(k) == StopBegins(k) \/ StopEnds(k) \/ StartEnds(k)

Next ==
    \/ \E r \in Runners : RunnerStep(r) \/ FetchStep(r) \/ WatcherFires(r)
    \/ \E d \in Deliveries : HandlerEnds(d)
    \/ \E k \in Commands : CommandStep(k) \/ CommandTimeout(k)
    \/ Control
    \/ ServeStep

Spec == Init /\ [][Next]_vars

\* The event loop runs every ready coroutine; a fetch returns, a handler ends and
\* a watcher is woken.  A source that is asked again and again while it has work
\* does not return nothing for ever.  Requests and failures may never come.
Fairness ==
    /\ \A r \in Runners : /\ WF_vars(RunnerStep(r))
                          /\ WF_vars(FetchReturns(r))
                          /\ WF_vars(WatcherFires(r))
                          /\ SF_vars(FetchTakes(r))
    /\ \A d \in Deliveries : WF_vars(HandlerEnds(d))
    /\ \A k \in Commands : WF_vars(StopEnds(k)) /\ WF_vars(StartEnds(k))
    /\ WF_vars(ServeStep)

FairSpec == Spec /\ Fairness
-----------------------------------------------------------------------------
(* Status reports *)

\* Mutant: a runner without handlers or a fetch counts as drained.
DrainedByCounts ==
    draining /\ \A r \in listed : Inflight(r) = {} /\ ~IsFetching(r)

\* drain_status()["drained"]
Drained ==
    /\ draining
    /\ \A r \in listed : /\ Inflight(r) = {} /\ ~IsFetching(r)
                         /\ runner[r].drainParked

\* task_pause_status()["paused"]
PauseComplete ==
    /\ paused /\ ~stopping
    /\ \A r \in listed : /\ Inflight(r) = {} /\ ~IsFetching(r)
                         /\ runner[r].pauseParked
-----------------------------------------------------------------------------
(* Properties *)

\* The runners' control states and the registries keep their types, and a fetch
\* never asks for more than task.concurrency.
TypeOK ==
    /\ runner \in [Runners -> [pc : Pcs, fetch : {"none", "running", "done", "error", "fatal"},
                               room : 0..Concurrency, watch : BOOLEAN,
                               drainParked : BOOLEAN, pauseParked : BOOLEAN,
                               exiting : BOOLEAN, failed : BOOLEAN]]
    /\ place \in [Deliveries -> [at : {"queue", "fetched", "claimed", "running", "settled", "lost"},
                                 by : Runners \cup {Nobody}]]
    /\ {stopping, draining, paused} \subseteq BOOLEAN
    /\ listed \subseteq Runners /\ tracked \subseteq Runners /\ live \subseteq Runners
    /\ command \in [Commands -> [at : {"new", "stopping", "starting", "ended"},
                                 target : Runners \cup {Nobody}]]
    /\ serve \in {"serving", "failing", "closing", "closed", "down"}

Quiet == \A d \in Deliveries : place[d].at \notin {"fetched", "claimed", "running"}

\* At-least-once: a delivery taken from the source is handled or given back,
\* whatever stop control arrives while it is being fetched.
NothingLost == \A d \in Deliveries : place[d].at # "lost"

\* "drain ... waits for inflight deliveries to finish": when drain_status says
\* drained, no delivery is being fetched, held or handled.
DrainedIsQuiet == Drained => Quiet

\* The same for pause_task: when task_pause_status says paused, the task is
\* quiet, also while a resume and a second pause overtake each other.
PausedIsQuiet == PauseComplete => Quiet

\* "tasks[].concurrency is the maximum number of in-flight deliveries", also
\* across a restart that replaces the runner.
WithinConcurrency ==
    Cardinality({d \in Deliveries : place[d].at = "running"}) <= Concurrency

\* shutdown() closes the resources only when no delivery is being handled.
OpenWhileHandling ==
    serve \in {"closed", "down"} => \A d \in Deliveries : place[d].at # "running"

\* stop_task_runner lets "the runner's finally block drain inflight work" before
\* it closes the private resources of the task, which start_task_runner reopens.
DrainBeforeClose ==
    (~stopping /\ \E k \in Commands : command[k].at = "starting")
        => \A d \in Deliveries : place[d].at # "running"

\* A restart replaces the runner: two runners of a task are never alive at once.
OneRunner == \A r, q \in Runners : Alive(r) /\ Alive(q) => r = q

\* Somebody waits for every live runner: serve() or shutdown(), now or when it
\* next reads the registry, or the command that is stopping it.
Supervised ==
    \A r \in Runners : Alive(r) =>
        \/ r \in tracked \cup live
        \/ \E k \in Commands : command[k] = [at |-> "stopping", target |-> r]

\* A restart never takes the process down: serve() leaves its loop only when a
\* shutdown was requested or a runner failed.
ServeOutlivesRestart ==
    serve = "serving" /\ serve' # "serving" => stopping \/ \E r \in Runners : Failed(r)

\* After a drain request every runner parks or the app stops: no runner keeps
\* fetching, and wait_for_drain() returns, also when a restart intervenes.
DrainCompletes == draining ~> (Drained \/ stopping)

\* Nothing is left in the queue, or a handler runs.
Working ==
    \/ \A d \in Deliveries : place[d] # InQueue
    \/ \E d \in Deliveries : place[d].at = "running"

=============================================================================
