------------------------------ MODULE AppLifecycle ------------------------------
(***************************************************************************)
(* The life of an OneStepApp with several tasks that share resources:      *)
(* startup() with its rollback, the startup and shutdown hooks, signals,   *)
(* the restart of single tasks, which closes and reopens what no other     *)
(* task or name refers to, and shutdown().  The runners themselves are in  *)
(* AppRuntime; here a runner runs or it does not.                          *)
(***************************************************************************)
EXTENDS Naturals, Sequences, FiniteSets

CONSTANTS Tasks,
          Uses,         \* task -> its source, sinks and dead-letter sinks
          Named,        \* sequence of the named resources
          MaxRestarts,  \* restart_task commands; one at a time per task
          MaxFaults     \* opens, closes and hooks that fail

Members(q) == {q[i] : i \in DOMAIN q}
Resources == Members(Named) \cup UNION {Members(Uses[t]) : t \in Tasks}

VARIABLES phase,    \* new, opening, rollback, serving, closing, down, failed
          todo,     \* resources startup(), its rollback or shutdown() still has to call
          opened,   \* _resources
          open,     \* the resources that are open
          again,    \* resources whose open() was called while they were open
          runner,   \* the tasks with a live runner
          command,  \* per task: idle, closing, opening
          rest,     \* resources the restart of each task still has to call
          stop,     \* _shutdown_requested
          restarts, faults

vars == <<phase, todo, opened, open, again, runner, command, rest, stop, restarts, faults>>
startup_vars == <<phase, todo, opened>>
restart_vars == <<command, rest, restarts>>

Init ==
  /\ phase = "new" /\ todo = <<>> /\ opened = <<>> /\ open = {} /\ again = {}
  /\ runner = {} /\ command = [t \in Tasks |-> "idle"] /\ rest = [t \in Tasks |-> <<>>]
  /\ stop = FALSE /\ restarts = 0 /\ faults = 0

Faulty == faults < MaxFaults /\ faults' = faults + 1

(* add_resource() in startup() lists every resource once, the named ones   *)
(* first and the others in whatever order the tasks were registered.       *)
AllResources ==
  {q \in [1..Cardinality(Resources) -> Resources] :
     /\ Members(q) = Resources
     /\ \A i, j \in DOMAIN q :
          i < j => q[i] # q[j] /\ (q[j] \in Members(Named) => q[i] \in Members(Named))}

(* startup() begins by forgetting every earlier request.                   *)
Startup ==
  /\ phase = "new"
  /\ phase' = "opening" /\ stop' = FALSE
  /\ todo' \in AllResources
  /\ UNCHANGED <<opened, open, again, runner, restart_vars, faults>>

Calls(some) == open' = open \cup some /\ again' = again \cup (some \cap open)

(* _close_resources closes what is open, last opened first.                *)
Backwards(q) == [i \in 1..Len(q) |-> q[Len(q) + 1 - i]]

OpenNext ==
  /\ phase = "opening" /\ todo # <<>>
  /\ Calls({Head(todo)})
  /\ opened' = Append(opened, Head(todo)) /\ todo' = Tail(todo)
  /\ UNCHANGED <<phase, runner, restart_vars, stop, faults>>

OpenFails ==
  /\ phase = "opening" /\ todo # <<>> /\ Faulty
  /\ phase' = "rollback" /\ todo' = Backwards(opened)
  /\ UNCHANGED <<opened, open, again, runner, restart_vars, stop>>

(* The startup hooks run, and serve() starts a runner for every task.      *)
HooksRun ==
  /\ phase = "opening" /\ todo = <<>>
  /\ phase' = "serving" /\ runner' = Tasks
  /\ UNCHANGED <<todo, opened, open, again, restart_vars, stop, faults>>

HooksFail ==
  /\ phase = "opening" /\ todo = <<>> /\ Faulty
  /\ phase' = "rollback" /\ todo' = Backwards(opened)
  /\ UNCHANGED <<opened, open, again, runner, restart_vars, stop>>

(* _close_resources goes on after a close that fails.                      *)
GoOn(q) == Tail(q)

(* One close of the rollback or of shutdown(); one that fails has still    *)
(* been called.                                                            *)
CloseNext ==
  /\ phase \in {"rollback", "closing"} /\ todo # <<>>
  /\ open' = open \ {Head(todo)}
  /\ \/ todo' = Tail(todo) /\ faults' = faults
     \/ Faulty /\ todo' = GoOn(todo)
  /\ UNCHANGED <<phase, opened, again, runner, restart_vars, stop>>

(* startup() raises, or shutdown() cancels the runners that are left.      *)
Closed ==
  /\ phase \in {"rollback", "closing"} /\ todo = <<>>
  /\ phase' = IF phase = "rollback" THEN "failed" ELSE "down"
  /\ opened' = <<>> /\ runner' = {}
  /\ UNCHANGED <<todo, open, again, restart_vars, stop, faults>>

(* SIGINT or SIGTERM, or a command: request_shutdown().                    *)
Signal ==
  /\ ~stop /\ phase \notin {"down", "failed"} /\ stop' = TRUE
  /\ UNCHANGED <<startup_vars, open, again, runner, restart_vars, faults>>

(* A runner that sees the request drains and ends.                         *)
RunnerEnds(t) ==
  /\ stop /\ phase = "serving" /\ t \in runner
  /\ runner' = runner \ {t}
  /\ UNCHANGED <<startup_vars, open, again, restart_vars, stop, faults>>

(* serve() leaves its loop when no runner is registered, also while a      *)
(* restart has not yet spawned its own, and shutdown() runs the shutdown   *)
(* hooks; it goes on when one fails.                                       *)
ServeEnds ==
  /\ phase = "serving" /\ stop /\ runner = {}
  /\ phase' = "closing" /\ todo' = Backwards(opened)
  /\ UNCHANGED <<opened, open, again, runner, restart_vars, stop, faults>>

(***************************************************************************)
(* restart_task_runner.                                                    *)
(***************************************************************************)
\* Mutant: the resources of other tasks count as private.
ReferencedByName(t) == Members(Named)

(* _referenced_resource_ids: named resources and those of other tasks.     *)
Referenced(t) == Members(Named) \cup UNION {Members(Uses[u]) : u \in Tasks \ {t}}

Private(t) == Members(Uses[t]) \ Referenced(t)

(* The runner is cancelled and awaited.  A restart may begin until the     *)
(* shutdown hooks close the command channel, and nothing cancels it.       *)
RestartBegins(t) ==
  /\ phase = "serving" /\ command[t] = "idle" /\ restarts < MaxRestarts
  /\ restarts' = restarts + 1
  /\ runner' = runner \ {t}
  /\ command' = [command EXCEPT ![t] = "closing"] /\ rest' = [rest EXCEPT ![t] = Uses[t]]
  /\ UNCHANGED <<startup_vars, open, again, stop, faults>>

RestartCloses(t) ==
  /\ command[t] = "closing"
  /\ IF rest[t] = <<>>
     THEN /\ command' = [command EXCEPT ![t] = "opening"]
          /\ rest' = [rest EXCEPT ![t] = Uses[t]] /\ open' = open
     ELSE /\ open' = open \ ({Head(rest[t])} \cap Private(t)) /\ rest' = [rest EXCEPT ![t] = Tail(@)]
          /\ command' = command
  /\ UNCHANGED <<startup_vars, again, runner, stop, restarts, faults>>

RestartOpens(t) ==
  /\ command[t] = "opening"
  /\ IF rest[t] = <<>>
     THEN /\ command' = [command EXCEPT ![t] = "idle"] /\ runner' = runner \cup {t}
          /\ UNCHANGED <<rest, open, again>>
     ELSE /\ Calls({Head(rest[t])} \cap Private(t)) /\ rest' = [rest EXCEPT ![t] = Tail(@)]
          /\ UNCHANGED <<command, runner>>
  /\ UNCHANGED <<startup_vars, stop, restarts, faults>>

(* A resource does not open again: the command fails, and with it the task *)
(* until the next restart.                                                 *)
RestartFails(t) ==
  /\ command[t] = "opening" /\ rest[t] # <<>> /\ Head(rest[t]) \in Private(t) /\ Faulty
  /\ command' = [command EXCEPT ![t] = "idle"] /\ rest' = [rest EXCEPT ![t] = <<>>]
  /\ UNCHANGED <<startup_vars, open, again, runner, stop, restarts>>

Next ==
  \/ Startup \/ OpenNext \/ OpenFails \/ HooksRun \/ HooksFail \/ CloseNext \/ Closed
  \/ Signal \/ ServeEnds
  \/ \E t \in Tasks : \/ RunnerEnds(t) \/ RestartBegins(t) \/ RestartCloses(t)
                      \/ RestartOpens(t) \/ RestartFails(t)

Spec == Init /\ [][Next]_vars

(* The event loop runs startup, runners, shutdown and commands; signals,   *)
(* restarts and failures need not come.                                    *)
Fairness ==
  /\ WF_vars(OpenNext \/ OpenFails) /\ WF_vars(HooksRun \/ HooksFail)
  /\ WF_vars(CloseNext) /\ WF_vars(Closed) /\ WF_vars(ServeEnds)
  /\ \A t \in Tasks : /\ WF_vars(RunnerEnds(t)) /\ WF_vars(RestartCloses(t))
                      /\ WF_vars(RestartOpens(t) \/ RestartFails(t))
FairSpec == Spec /\ Fairness

--------------------------------------------------------------------------------
(* The type invariant of the supervisor.                                   *)
TypeOK ==
  /\ phase \in {"new", "opening", "rollback", "serving", "closing", "down", "failed"}
  /\ Members(todo) \cup Members(opened) \cup open \cup again \subseteq Resources
  /\ runner \subseteq Tasks /\ stop \in BOOLEAN
  /\ command \in [Tasks -> {"idle", "closing", "opening"}]
  /\ \A t \in Tasks : /\ Members(rest[t]) \subseteq Members(Uses[t])
                      /\ command[t] = "idle" => rest[t] = <<>>

(* While the app serves, the resources of a running task are open: the     *)
(* restart of one task does not close what another still uses.             *)
RunnersOpen ==
  phase = "serving" => \A t \in runner : Members(Uses[t]) \subseteq open

(* A failed startup and a shutdown leave nothing open behind them, also    *)
(* when a close fails, once the commands under way have ended.             *)
NothingLeaks ==
  phase \in {"down", "failed"} /\ (\A t \in Tasks : command[t] = "idle") => open = {}

(* open() is not called on a resource that is open: startup opens each     *)
(* resource once and a restart opens what it has closed.                   *)
OpenedOnce == again = {}

================================================================================
