------------------------------ MODULE MCRuntime ------------------------------
(*****************************************************************************)
(* The runtime of an application, one component at a time: the runner and    *)
(* the supervisor of one task from three kinds of source, an application     *)
(* with several tasks, the dead-letter commands, and a delivery of the       *)
(* execution source.                                                         *)
(*****************************************************************************)
EXTENDS Naturals, Sequences, FiniteSets

VARIABLES part,  \* the component a behaviour is about; it never changes
          runner, place, stopping, draining, paused, listed, tracked, live, serve,
          command, phase, todo, opened, open, again, rest, stop, restarts, faults,
          main, dead, cmd, limbo, handled, discarded, deaths, replays, expiries,
          cancels, row, mine, lease, seen, stage, want, inner, pend, hbPending,
          cancelReq, completed, hb, runnerHit, cut

vars == <<part, runner, place, stopping, draining, paused, listed, tracked, live,
          serve, command, phase, todo, opened, open, again, rest, stop, restarts,
          faults, main, dead, cmd, limbo, handled, discarded, deaths, replays,
          expiries, cancels, row, mine, lease, seen, stage, want, inner, pend,
          hbPending, cancelReq, completed, hb, runnerHit, cut>>

(* Two tasks that share a sink; the source of the second has a name. *)
SharedUse ==
  [t \in {"t1", "t2"} |-> IF t = "t1" THEN <<"queue", "shared">> ELSE <<"source", "shared", "dead">>]

(* The components, each for any configuration c that gives its constants. *)
Runtime(c) == INSTANCE AppRuntime WITH
  Nobody <- c.Nobody, First <- c.First, Deliveries <- c.Deliveries,
  Runners <- c.Runners, Commands <- c.Commands, Concurrency <- c.Concurrency,
  CancelSafe <- c.CancelSafe, GivesBack <- c.GivesBack, FetchFails <- c.FetchFails,
  DrainTimesOut <- c.DrainTimesOut, CommandTimesOut <- c.CommandTimesOut
Lifecycle(c) == INSTANCE AppLifecycle WITH
  Tasks <- c.Tasks, Uses <- c.Uses, Named <- c.Named, MaxRestarts <- c.MaxRestarts,
  MaxFaults <- c.MaxFaults
Dead(c) == INSTANCE DeadLetters WITH
  Msgs <- c.Msgs, Leased <- c.Leased, Commands <- c.Commands, Limit <- c.Limit,
  Attempts <- c.Attempts, MaxFaults <- c.MaxFaults, MaxExpiries <- c.MaxExpiries,
  MaxCancels <- c.MaxCancels
Managed(c) == INSTANCE ManagedDelivery WITH
  LeaseTime <- c.LeaseTime

(* The configurations that are checked. *)
Claimed ==
  [Nobody |-> "nobody", First |-> "r1", Deliveries |-> {"d1", "d2", "d3"},
   Runners |-> {"r1"}, Commands |-> {}, Concurrency |-> 2, CancelSafe |-> FALSE,
   GivesBack |-> TRUE, FetchFails |-> TRUE, DrainTimesOut |-> FALSE,
   CommandTimesOut |-> FALSE]
Restart ==
  [Nobody |-> "nobody", First |-> "r1", Deliveries |-> {"d1", "d2"},
   Runners |-> {"r1", "r2"}, Commands |-> {"k1"}, Concurrency |-> 1,
   CancelSafe |-> FALSE, GivesBack |-> TRUE, FetchFails |-> FALSE,
   DrainTimesOut |-> FALSE, CommandTimesOut |-> FALSE]
Timeouts ==
  [Nobody |-> "nobody", First |-> "r1", Deliveries |-> {"d1", "d2"},
   Runners |-> {"r1", "r2"}, Commands |-> {"k1"}, Concurrency |-> 1,
   CancelSafe |-> TRUE, GivesBack |-> TRUE, FetchFails |-> TRUE,
   DrainTimesOut |-> TRUE, CommandTimesOut |-> TRUE]
Letters ==
  [Msgs |-> {"m1"}, Leased |-> TRUE, Commands |-> {"c1", "c2"}, Limit |-> 2,
   Attempts |-> 2, MaxFaults |-> 1, MaxExpiries |-> 1, MaxCancels |-> 1]
Memory ==
  [Msgs |-> {"m1", "m2"}, Leased |-> FALSE, Commands |-> {"c1", "c2"}, Limit |-> 2,
   Attempts |-> 2, MaxFaults |-> 1, MaxExpiries |-> 0, MaxCancels |-> 0]
Lease ==
  [LeaseTime |-> 2]

Startup ==
  [Tasks |-> {"t1", "t2"}, Uses |-> SharedUse, Named |-> <<"source">>, MaxRestarts |-> 0,
   MaxFaults |-> 5]
Restarts ==
  [Tasks |-> {"t1", "t2"}, Uses |-> SharedUse, Named |-> <<"source">>, MaxRestarts |-> 3,
   MaxFaults |-> 1]

(* What a component does not have is switched off. *)
Off == "off"
NotAppRuntime == <<part, phase, todo, opened, open, again, rest, stop, restarts,
  faults, main, dead, cmd, limbo, handled, discarded, deaths, replays, expiries,
  cancels, row, mine, lease, seen, stage, want, inner, pend, hbPending, cancelReq,
  completed, hb, runnerHit, cut>>
NotAppLifecycle == <<part, place, stopping, draining, paused, listed, tracked, live,
  serve, main, dead, cmd, limbo, handled, discarded, deaths, replays, expiries,
  cancels, row, mine, lease, seen, stage, want, inner, pend, hbPending, cancelReq,
  completed, hb, runnerHit, cut>>
NotDeadLetters == <<part, runner, place, stopping, draining, paused, listed,
  tracked, live, serve, command, phase, todo, opened, open, again, rest, stop,
  restarts, row, mine, lease, seen, stage, want, inner, pend, hbPending, cancelReq,
  completed, hb, runnerHit, cut>>
NotManagedDelivery == <<part, runner, place, stopping, draining, paused, listed,
  tracked, live, serve, command, phase, todo, opened, open, again, rest, restarts,
  faults, main, dead, cmd, limbo, handled, discarded, deaths, replays, expiries,
  cancels>>

Init ==
  \/ /\ \/ part = "claimed" /\ Runtime(Claimed)!Init
        \/ part = "restart" /\ Runtime(Restart)!Init
        \/ part = "timeouts" /\ Runtime(Timeouts)!Init
     /\ phase = Off /\ todo = Off /\ opened = Off /\ open = Off /\ again = Off
     /\ rest = Off /\ stop = Off /\ restarts = Off /\ faults = Off /\ main = Off
     /\ dead = Off /\ cmd = Off /\ limbo = Off /\ handled = Off
     /\ discarded = Off /\ deaths = Off /\ replays = Off /\ expiries = Off
     /\ cancels = Off /\ row = Off /\ mine = Off /\ lease = Off /\ seen = Off
     /\ stage = Off /\ want = Off /\ inner = Off /\ pend = Off /\ hbPending = Off
     /\ cancelReq = Off /\ completed = Off /\ hb = Off /\ runnerHit = Off
     /\ cut = Off
  \/ /\ \/ part = "startup" /\ Lifecycle(Startup)!Init
        \/ part = "restarts" /\ Lifecycle(Restarts)!Init
     /\ place = Off /\ stopping = Off /\ draining = Off /\ paused = Off
     /\ listed = Off /\ tracked = Off /\ live = Off /\ serve = Off /\ main = Off
     /\ dead = Off /\ cmd = Off /\ limbo = Off /\ handled = Off
     /\ discarded = Off /\ deaths = Off /\ replays = Off /\ expiries = Off
     /\ cancels = Off /\ row = Off /\ mine = Off /\ lease = Off /\ seen = Off
     /\ stage = Off /\ want = Off /\ inner = Off /\ pend = Off /\ hbPending = Off
     /\ cancelReq = Off /\ completed = Off /\ hb = Off /\ runnerHit = Off
     /\ cut = Off
  \/ /\ \/ part = "letters" /\ Dead(Letters)!Init
        \/ part = "memory" /\ Dead(Memory)!Init
     /\ runner = Off /\ place = Off /\ stopping = Off /\ draining = Off
     /\ paused = Off /\ listed = Off /\ tracked = Off /\ live = Off
     /\ serve = Off /\ command = Off /\ phase = Off /\ todo = Off /\ opened = Off
     /\ open = Off /\ again = Off /\ rest = Off /\ stop = Off /\ restarts = Off
     /\ row = Off /\ mine = Off /\ lease = Off /\ seen = Off /\ stage = Off
     /\ want = Off /\ inner = Off /\ pend = Off /\ hbPending = Off
     /\ cancelReq = Off /\ completed = Off /\ hb = Off /\ runnerHit = Off
     /\ cut = Off
  \/ /\ part = "managed" /\ Managed(Lease)!Init
     /\ runner = Off /\ place = Off /\ stopping = Off /\ draining = Off
     /\ paused = Off /\ listed = Off /\ tracked = Off /\ live = Off
     /\ serve = Off /\ command = Off /\ phase = Off /\ todo = Off /\ opened = Off
     /\ open = Off /\ again = Off /\ rest = Off /\ restarts = Off /\ faults = Off
     /\ main = Off /\ dead = Off /\ cmd = Off /\ limbo = Off /\ handled = Off
     /\ discarded = Off /\ deaths = Off /\ replays = Off /\ expiries = Off
     /\ cancels = Off

Next ==
  \/ /\ \/ part = "claimed" /\ Runtime(Claimed)!Next
        \/ part = "restart" /\ Runtime(Restart)!Next
        \/ part = "timeouts" /\ Runtime(Timeouts)!Next
     /\ UNCHANGED NotAppRuntime
  \/ /\ \/ part = "startup" /\ Lifecycle(Startup)!Next
        \/ part = "restarts" /\ Lifecycle(Restarts)!Next
     /\ UNCHANGED NotAppLifecycle
  \/ /\ \/ part = "letters" /\ Dead(Letters)!Next
        \/ part = "memory" /\ Dead(Memory)!Next
     /\ UNCHANGED NotDeadLetters
  \/ part = "managed" /\ Managed(Lease)!Next /\ UNCHANGED NotManagedDelivery

runtime == Runtime(Claimed)!vars
lifecycle == Lifecycle(Restarts)!vars
letters == Dead(Memory)!vars
managed == Managed(Lease)!vars

(* The fairness of the components, each for its own part. *)
Fairness ==
  /\ \A r \in {"r1"} : /\ WF_runtime(part = "claimed" /\ Runtime(Claimed)!RunnerStep(r))
                       /\ WF_runtime(part = "claimed" /\ Runtime(Claimed)!FetchReturns(r))
                       /\ WF_runtime(part = "claimed" /\ Runtime(Claimed)!WatcherFires(r))
                       /\ SF_runtime(part = "claimed" /\ Runtime(Claimed)!FetchTakes(r))
  /\ \A d \in {"d1", "d2", "d3"} : WF_runtime(part = "claimed" /\ Runtime(Claimed)!HandlerEnds(d))
  /\ WF_runtime(part = "claimed" /\ Runtime(Claimed)!ServeStep)
  /\ \A r \in {"r1", "r2"} : /\ WF_runtime(part = "restart" /\ Runtime(Restart)!RunnerStep(r))
                             /\ WF_runtime(part = "restart" /\ Runtime(Restart)!FetchReturns(r))
                             /\ WF_runtime(part = "restart" /\ Runtime(Restart)!WatcherFires(r))
  /\ \A d \in {"d1", "d2"} : WF_runtime(part = "restart" /\ Runtime(Restart)!HandlerEnds(d))
  /\ WF_runtime(part = "restart" /\ Runtime(Restart)!StopEnds("k1"))
  /\ WF_runtime(part = "restart" /\ Runtime(Restart)!StartEnds("k1"))
  /\ WF_runtime(part = "restart" /\ Runtime(Restart)!ServeStep)
  /\ WF_lifecycle(part = "restarts" /\ (Lifecycle(Restarts)!OpenNext \/ Lifecycle(Restarts)!OpenFails))
  /\ WF_lifecycle(part = "restarts" /\ (Lifecycle(Restarts)!HooksRun \/ Lifecycle(Restarts)!HooksFail))
  /\ WF_lifecycle(part = "restarts" /\ (Lifecycle(Restarts)!CloseNext \/ Lifecycle(Restarts)!Closed \/ Lifecycle(Restarts)!ServeEnds))
  /\ \A t \in {"t1", "t2"} : WF_lifecycle(part = "restarts" /\ Lifecycle(Restarts)!RunnerEnds(t))
  /\ \A c \in {"c1", "c2"} : WF_letters(part = "memory" /\ Dead(Memory)!Step(c))
  /\ WF_managed(part = "managed" /\ Managed(Lease)!OwnerStep)
  /\ WF_managed(part = "managed" /\ Managed(Lease)!HeartbeatStep)
  /\ WF_managed(part = "managed" /\ Managed(Lease)!Tick)
  /\ WF_managed(part = "managed" /\ Managed(Lease)!Reclaim)
  /\ WF_managed(part = "managed" /\ (Managed(Lease)!ReleaseUnstarted \/ Managed(Lease)!StartProcessing))

Spec == Init /\ [][Next]_vars /\ Fairness
--------------------------------------------------------------------------------
(* No delivery and no dead letter is lost: what a runner fetched is handled or *)
(* given back, and a dead letter is somewhere until it succeeds or is discarded. *)
NothingLost ==
  /\ part = "claimed" => Runtime(Claimed)!TypeOK /\ Runtime(Claimed)!NothingLost
  /\ part = "letters" => Dead(Letters)!TypeOK /\ Dead(Letters)!NothingLost
  /\ part = "memory" => Dead(Memory)!NothingLost

(* Replays are counted: a message is replayed once for each time it died and for *)
(* each fault, the reports of the commands add up to what left the dead-letter *)
(* queue, and a replayed message that fails again dies at once. *)
ReplaysCounted ==
  /\ part = "letters" => Dead(Letters)!ReplayBounded /\ Dead(Letters)!ReportTrue
  /\ part = "memory" => Dead(Memory)!ReplayDiesAtOnce

(* task.concurrency bounds the deliveries in flight, also across a restart, and *)
(* two runners of a task are never alive at once. *)
WithinConcurrency ==
  /\ part = "claimed" => Runtime(Claimed)!WithinConcurrency
  /\ part = "restart" => Runtime(Restart)!WithinConcurrency
  /\ part = "timeouts" => Runtime(Timeouts)!OneRunner

(* "drained" and "paused" are reported only when no delivery is being fetched, *)
(* held or handled. *)
QuietWhenReported ==
  part = "claimed" => Runtime(Claimed)!DrainedIsQuiet /\ Runtime(Claimed)!PausedIsQuiet

(* Resources are open while they are used and closed in the end: no shutdown or *)
(* restart closes them under a handler or under another task, none is opened twice, *)
(* and a failed startup leaves nothing open. *)
OpenWhileUsed ==
  /\ part = "claimed" => Runtime(Claimed)!OpenWhileHandling
  /\ part = "restart" => Runtime(Restart)!DrainBeforeClose
  /\ part = "startup" => Lifecycle(Startup)!NothingLeaks
  /\ part = "restarts" => Lifecycle(Restarts)!TypeOK /\ Lifecycle(Restarts)!RunnersOpen /\ Lifecycle(Restarts)!OpenedOnce

(* Nobody runs on unwatched: every live runner is waited for by serve(), shutdown() *)
(* or a command, and the heartbeat of a delivery ends with its execute(), unless a *)
(* second cancellation cut that short. *)
Supervised ==
  /\ part = "timeouts" => Runtime(Timeouts)!Supervised
  /\ part = "managed" => Managed(Lease)!TypeOK /\ Managed(Lease)!NoZombieHeartbeat

(* A restart never takes the process down, a completion that is reported is stored, *)
(* and the cancellation an execution was asked for is not given up for a shutdown. *)
PromisesKept ==
  [][/\ part = "restart" => Runtime(Restart)!ServeOutlivesRestart
     /\ part = "managed" => Managed(Lease)!CancellationIsShielded /\ Managed(Lease)!CompletedIsStored]_vars

On(p, P) == part = p /\ P

(* What was asked for happens: a drain parks the runners, a shutdown ends serve(), a *)
(* restart and a dead-letter command return, a signal during startup ends the app, *)
(* and a source that has work is fetched from. *)
ControlsComplete ==
  /\ On("claimed", draining) ~> On("claimed", Runtime(Claimed)!Drained \/ stopping)
  /\ On("restart", draining) ~> On("restart", Runtime(Restart)!Drained \/ stopping)
  /\ On("claimed", stopping) ~> On("claimed", serve = "down")
  /\ On("restart", stopping) ~> On("restart", serve = "down")
  /\ On("restart", command["k1"].at = "stopping") ~> On("restart", command["k1"].at = "ended")
  /\ On("restarts", stop /\ phase # "new") ~> On("restarts", phase \in {"down", "failed"})
  /\ \A c \in {"c1", "c2"} : On("memory", Dead(Memory)!Busy(c)) ~> On("memory", ~Dead(Memory)!Busy(c))
  /\ <>[]On("claimed", ~Runtime(Claimed)!StopFetching /\ serve = "serving") => []<>On("claimed", Runtime(Claimed)!Working)

(* A cancellation requested of a running execution ends in CANCELLED, and an execute() *)
(* that was not cut short gives its lease back or loses it. *)
LeasesEnd ==
  /\ On("managed", row = "cancel_requested") ~> On("managed", row = "cancelled")
  /\ On("managed", stage = "done" /\ cut \in {"no", "error"}) ~> On("managed", ~mine)
==============================================================================
