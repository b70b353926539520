-------------------------- MODULE WorkerDeployment --------------------------
(* Deployments of workflow packages on a worker agent: the control plane's    *)
(* commands and sessions (worker_agent_service.py, worker_agent_ws.py), the   *)
(* agent's control loop (client.py) and its subprocess supervisor.  A         *)
(* connection carries messages in order and loses a suffix when it breaks.    *)
(* The agent handles one command at a time; its children outlive it.          *)
EXTENDS Integers, FiniteSets, Sequences, FiniteSetsExt, SequencesExt

CONSTANTS Deployments, \* a set of naturals
          Slots,       \* max_concurrent_deployments
          Caps,        \* kinds of command the agent supports
          MaxCmds, MaxBreaks, MaxCrashes, MaxExits, MaxInFlight   \* bounds

Conns == 1..2            \* connections, numbered again once closed
Kinds == {"start", "stop", "restart"}

VARIABLES dep,     \* WorkerDeployment: desired and observed status
          cmd,     \* WorkerAgentCommand rows, in order of creation
          agent,   \* WorkerAgent row: status and used slots
          known,   \* that row as the handler of each connection has it in memory
          cold,    \* connections authenticated while the row said offline
          late,    \* its slots were last written for a connection the agent had left
          active,  \* sessions whose row says "active"
          reg,     \* connection in the live registry, 0 if none
          srv,     \* websocket handler of each connection
          toAgent, toPlane,   \* messages in flight per connection
          me,      \* agent process: running, its connection, whether the link works
          h,       \* command being handled: {} or one record
          slots, proc, extern,   \* supervisor: reserved slots, children, recovered pids
          disk,    \* deployments.json: pid by deployment
          os,      \* live worker processes of this host
          pids, doubt, breaks, crashes, exits
seat == <<agent, known, cold, late>>
plane == <<dep, cmd, seat, active, reg, srv, toAgent>>
host == <<slots, proc, extern, disk, os, pids>>
faults == <<breaks, crashes, exits>>
vars == <<plane, toPlane, me, h, host, doubt, faults>>

-----------------------------------------------------------------------------
(* Control plane *)

Init ==
  /\ dep = [d \in Deployments |-> [desired |-> "none", observed |-> "none"]]
  /\ cmd = <<>> /\ agent = [status |-> "offline", used |-> 0]
  /\ known = [e \in Conns |-> agent] /\ cold = {} /\ late = FALSE
  /\ active = {} /\ reg = 0 /\ srv = [e \in Conns |-> "closed"]
  /\ toAgent = [e \in Conns |-> <<>>] /\ toPlane = [e \in Conns |-> <<>>]
  /\ me = [up |-> TRUE, conn |-> 0, link |-> FALSE] /\ h = {}
  /\ slots = {} /\ os = {} /\ pids = 0 /\ doubt = {}
  /\ proc = [d \in Deployments |-> 0] /\ extern = proc /\ disk = proc
  /\ breaks = 0 /\ crashes = 0 /\ exits = 0

\* create_worker_deployment_command.
Pending(d, k) == [d |-> d, k |-> k, ack |-> "none", done |-> FALSE, status |-> "pending"]

\* dispatch_worker_agent_command: the row, and the message of a connection.
DispatchedRow(c) == [c EXCEPT !.status = "dispatched"]
\* What is queued for a broken connection is lost.
Queued(e, ids) == IF me.conn = e /\ me.link THEN [toAgent EXCEPT ![e] = @ \o ids] ELSE toAgent

\* The command is created, then _dispatch_if_connected.
NewCommand(d, k) ==
  /\ Len(cmd) < MaxCmds
  /\ IF reg = 0 THEN cmd' = Append(cmd, Pending(d, k)) /\ UNCHANGED toAgent
     ELSE cmd' = Append(cmd, DispatchedRow(Pending(d, k))) /\ toAgent' = Queued(reg, <<Len(cmd) + 1>>)
  /\ UNCHANGED <<seat, active, reg, srv, toPlane, me, h, host, doubt, faults>>

Assigned == [desired |-> "running", observed |-> "assigned"]
Stopping == [desired |-> "stopped", observed |-> "stopping"]

Create(d) ==
  /\ dep[d].observed = "none"
  /\ dep' = [dep EXCEPT ![d] = Assigned]
  /\ NewCommand(d, "start")
Stop(d) ==
  /\ dep[d].observed # "none"
  /\ dep' = [dep EXCEPT ![d] = Stopping]
  /\ NewCommand(d, "stop")
Restart(d) ==
  /\ dep[d].observed # "none"
  /\ dep' = [dep EXCEPT ![d] = Assigned]
  /\ NewCommand(d, "restart")

\* WorkerAgentConnectionRegistry: only the registered connection leaves.
Register(e) == reg' = e
Unregister(e) == reg' = IF reg = e THEN 0 ELSE reg

\* A handler keeps the row it loaded at authentication and never loads it again
\* (expire_on_commit=False): a commit writes the columns whose value differs from it.
Assign(e, row) ==
  /\ agent' = [f \in DOMAIN row |-> IF row[f] # known[e][f] THEN row[f] ELSE agent[f]]
  /\ known' = [known EXCEPT ![e] = row] /\ UNCHANGED cold
  /\ late' = IF row.used = known[e].used THEN late ELSE me.conn \notin {0, e}

\* handle_worker_agent_hello and the registration of the connection.
Hello(e) ==
  /\ srv[e] = "open" /\ toPlane[e] # <<>>
  /\ srv' = [srv EXCEPT ![e] = "hello"]
  /\ active' = {e} /\ Register(e)
  /\ Assign(e, [status |-> "online", used |-> Head(toPlane[e]).used])
  /\ toPlane' = [toPlane EXCEPT ![e] = Tail(@)]
  /\ UNCHANGED <<dep, cmd, toAgent, me, h, host, doubt, faults>>

\* reject_worker_agent_command_without_delivery.
Undeliverable(c) == [c EXCEPT !.status = "rejected", !.done = TRUE]

\* _apply_worker_command_failure_to_deployment, and its counterpart.
Failed(r) == [r EXCEPT !.observed = "failed"]
Succeeded(r, k) == [r EXCEPT !.observed = IF k = "stop" THEN "stopped" ELSE "running"]

\* _enqueue_pending_commands, after the await that sends hello_ack.
Redeliverable == {i \in DOMAIN cmd : cmd[i].status \in {"pending", "dispatched"}}
Enqueue(e) ==
  /\ srv[e] = "hello"
  /\ LET ok == {i \in Redeliverable : cmd[i].k \in Caps}
         no == Redeliverable \ ok
     IN /\ cmd' = [i \in DOMAIN cmd |->
                     IF i \in ok THEN DispatchedRow(cmd[i])
                     ELSE IF i \in no THEN Undeliverable(cmd[i])
                     ELSE cmd[i]]
        /\ dep' = [d \in Deployments |-> IF \E i \in no : cmd[i].d = d THEN Failed(dep[d])
                                         ELSE dep[d]]
        /\ toAgent' = Queued(e, SetToSortSeq(ok, <))
  /\ srv' = [srv EXCEPT ![e] = "ready"]
  /\ UNCHANGED <<seat, active, reg, toPlane, me, h, host, doubt, faults>>

\* handle_worker_agent_command_ack.
Ack(m) ==
  IF cmd[m.c].done \/ cmd[m.c].ack # "none" THEN UNCHANGED <<cmd, dep>>
  ELSE /\ cmd' = [cmd EXCEPT ![m.c].ack = m.st, ![m.c].status = m.st,
                             ![m.c].done = (m.st # "accepted")]
       /\ dep' = IF m.st = "accepted" THEN dep ELSE [dep EXCEPT ![cmd[m.c].d] = Failed(@)]

\* handle_worker_agent_command_result and the deployment's status.
Result(m) ==
  IF cmd[m.c].done THEN UNCHANGED <<cmd, dep>>
  ELSE /\ cmd' = [cmd EXCEPT ![m.c].status = m.st, ![m.c].done = TRUE,
                             ![m.c].ack = IF @ = "none" THEN "accepted" ELSE @]
       /\ dep' = [dep EXCEPT ![cmd[m.c].d] =
                    IF m.st = "succeeded" THEN Succeeded(@, cmd[m.c].k) ELSE Failed(@)]

\* apply_worker_agent_heartbeat and apply_worker_deployment_event.
Heartbeat(e, m) == Assign(e, [status |-> "online", used |-> m.used])
Observe(m) == dep' = [dep EXCEPT ![m.d].observed = m.st]

\* worker_agent_ws: one message of a connection that has said hello.
Receive(e) ==
  /\ srv[e] = "ready" /\ toPlane[e] # <<>>
  /\ LET m == Head(toPlane[e]) IN
       CASE m.t = "beat"   -> Heartbeat(e, m) /\ UNCHANGED <<cmd, dep>>
         [] m.t = "event"  -> Observe(m) /\ UNCHANGED <<cmd, seat>>
         [] m.t = "ack"    -> Ack(m) /\ UNCHANGED seat
         [] m.t = "result" -> Result(m) /\ UNCHANGED seat
  /\ toPlane' = [toPlane EXCEPT ![e] = Tail(@)]
  /\ UNCHANGED <<active, reg, srv, toAgent, me, h, host, doubt, faults>>

\* The handler notices the end of its connection: unregister, then
\* close_worker_agent_session.  Messages it has received come first.
Close(e) ==
  /\ srv[e] # "closed" /\ ~(me.conn = e /\ me.link) /\ (toPlane[e] = <<>> \/ srv[e] = "hello")
  /\ srv' = [srv EXCEPT ![e] = "closed"]
  /\ IF srv[e] = "open" THEN UNCHANGED <<active, reg, seat>>
     ELSE /\ Unregister(e)
          /\ active' = active \ {e}
          /\ IF active' = {} THEN Assign(e, [known[e] EXCEPT !.status = "offline"])
             ELSE UNCHANGED seat
  /\ toAgent' = IF me.conn = e THEN toAgent ELSE [toAgent EXCEPT ![e] = <<>>]
  /\ toPlane' = [toPlane EXCEPT ![e] = <<>>]
  /\ UNCHANGED <<dep, cmd, me, h, host, doubt, faults>>

-----------------------------------------------------------------------------
(* Agent: sessions *)

HelloMessage == [t |-> "hello", used |-> Cardinality(slots)]
HeartbeatMessage == [t |-> "beat", used |-> Cardinality(slots)]

\* _run_one_session begins; the plane loads the agent's row to authenticate it.
Connect ==
  /\ me.up /\ me.conn = 0
  /\ \E e \in Conns :
       /\ srv[e] = "closed" /\ srv' = [srv EXCEPT ![e] = "open"]
       /\ me' = [me EXCEPT !.conn = e, !.link = TRUE]
       /\ toPlane' = [toPlane EXCEPT ![e] = <<HelloMessage>>]
       /\ toAgent' = [toAgent EXCEPT ![e] = <<>>]
       /\ known' = [known EXCEPT ![e] = agent]
       /\ cold' = IF agent.status = "offline" THEN cold \cup {e} ELSE cold \ {e}
  /\ UNCHANGED <<dep, cmd, agent, late, active, reg, h, host, doubt, faults>>

\* heartbeat_loop; heartbeats that repeat what their handler knows write no column.
Beat ==
  /\ me.link /\ srv[me.conn] = "ready" /\ known[me.conn].used # Cardinality(slots)
  /\ \A i \in DOMAIN toPlane[me.conn] : toPlane[me.conn][i].t # "beat"
  /\ toPlane' = [toPlane EXCEPT ![me.conn] = Append(@, HeartbeatMessage)]
  /\ UNCHANGED <<plane, me, h, host, doubt, faults>>

Break ==
  /\ me.link /\ breaks < MaxBreaks /\ breaks' = breaks + 1
  /\ me' = [me EXCEPT !.link = FALSE]
  /\ \E n \in 0..Len(toPlane[me.conn]) :
       toPlane' = [toPlane EXCEPT ![me.conn] = SubSeq(@, 1, n)]
  /\ UNCHANGED <<plane, h, host, doubt, crashes, exits>>

\* The receive loop ends with its connection; run_control_loop connects again.
Leave ==
  /\ me.conn # 0 /\ ~me.link /\ h = {}
  /\ me' = [me EXCEPT !.conn = 0]
  /\ UNCHANGED <<plane, toPlane, h, host, doubt, faults>>

-----------------------------------------------------------------------------
(* Agent: handling one command *)

\* reserve_slot.
SlotFree(d) == d \in slots \/ Cardinality(slots) < Slots
Sent(m) == Len(toPlane[me.conn]) < MaxInFlight /\ toPlane' = [toPlane EXCEPT ![me.conn] = Append(@, m)]
Event(d, st) == [t |-> "event", d |-> d, st |-> st]
AckMessage(c, st) == [t |-> "ack", c |-> c, st |-> st]
ResultMessage(x) == [t |-> "result", c |-> x.c, st |-> IF x.ok THEN "succeeded" ELSE "failed"]
\* An exception nobody catches ends the session; the link closes in order.
Raised == h' = {} /\ me' = [me EXCEPT !.conn = 0, !.link = FALSE]

\* DeploymentStateStore: the whole file is replaced at once.
Upserted(d, pid) == [disk EXCEPT ![d] = pid]
Removed(d) == [disk EXCEPT ![d] = 0]

\* release_slot.
Release(d) ==
  /\ slots' = slots \ {d}
  /\ proc' = [proc EXCEPT ![d] = 0] /\ extern' = [extern EXCEPT ![d] = 0]
  /\ disk' = Removed(d)

\* SubprocessSupervisor.stop: the child, else the recovered pid.
Target(d) == IF proc[d] # 0 THEN proc[d] ELSE extern[d]
\* terminate() of a child that has exited raises before the slot is released.
StopRaises(d) == proc[d] # 0 /\ [pid |-> proc[d], d |-> d] \notin os
Kill(d) == Release(d) /\ os' = os \ {[pid |-> Target(d), d |-> d]}

Take ==
  /\ me.conn # 0 /\ h = {} /\ toAgent[me.conn] # <<>>
  /\ toAgent' = [toAgent EXCEPT ![me.conn] = Tail(@)]
  /\ LET i == Head(toAgent[me.conn])
         c == cmd[i]
     IN IF c.k \in Caps
        THEN /\ h' = {[c |-> i, d |-> c.d, k |-> c.k, pid |-> 0, ok |-> TRUE,
                       step |-> CASE c.k = "start" -> "reserve" [] c.k = "restart" -> "kill"
                                  [] c.k = "stop" -> "ack"]}
             /\ doubt' = IF c.k = "start" /\ \E p \in os : p.d = c.d THEN doubt \cup {c.d} ELSE doubt
             /\ UNCHANGED <<toPlane, me>>
        ELSE /\ IF me.link THEN Sent(AckMessage(i, "rejected")) /\ UNCHANGED <<h, me>>
                ELSE Raised /\ UNCHANGED toPlane
             /\ UNCHANGED doubt
  /\ UNCHANGED <<dep, cmd, seat, active, reg, srv, host, faults>>

\* restart: supervisor.stop before anything is acknowledged.
KillFirst(x) ==
  /\ x.step = "kill"
  /\ IF StopRaises(x.d) THEN Raised /\ UNCHANGED host
     ELSE h' = {[x EXCEPT !.step = "reserve"]} /\ Kill(x.d) /\ UNCHANGED <<me, pids>>
  /\ UNCHANGED <<plane, toPlane, doubt, faults>>

\* reserve_slot and the acknowledgement.
Reserve(x) ==
  /\ x.step = "reserve"
  /\ slots' = IF SlotFree(x.d) THEN slots \cup {x.d} ELSE slots
  /\ IF me.link
     THEN /\ Sent(AckMessage(x.c, IF SlotFree(x.d) THEN "accepted" ELSE "rejected"))
          /\ h' = IF SlotFree(x.d) THEN {[x EXCEPT !.step = "preparing"]} ELSE {}
          /\ UNCHANGED me
     ELSE Raised /\ UNCHANGED toPlane
  /\ UNCHANGED <<plane, proc, extern, disk, os, pids, doubt, faults>>

StopAck(x) ==
  /\ x.step = "ack"
  /\ IF me.link THEN /\ Sent(AckMessage(x.c, "accepted"))
                     /\ h' = {[x EXCEPT !.step = "stopping"]} /\ UNCHANGED me
     ELSE Raised /\ UNCHANGED toPlane
  /\ UNCHANGED <<plane, host, doubt, faults>>

\* Progress events: each is sent before the work it names.
After == [preparing |-> "installing", installing |-> "checking", checking |-> "check",
          stopping |-> "term", running |-> "result", stopped |-> "result", failed |-> "result"]
SendEvent(x) ==
  /\ x.step \in DOMAIN After
  /\ IF me.link
     THEN /\ Sent(Event(x.d, x.step)) /\ h' = {[x EXCEPT !.step = After[x.step]]}
          /\ UNCHANGED <<me, host>>
     ELSE /\ Raised /\ UNCHANGED <<toPlane, os, pids>>
          /\ IF x.step \in {"preparing", "installing", "checking"} THEN Release(x.d)
             ELSE UNCHANGED <<slots, proc, extern, disk>>
  /\ UNCHANGED <<plane, doubt, faults>>

\* The download, the extraction or the installation raises.
PrepareFails(x) ==
  /\ x.step \in {"installing", "checking"} /\ Release(x.d)
  /\ h' = {[x EXCEPT !.step = "failed", !.ok = FALSE]}
  /\ UNCHANGED <<plane, toPlane, me, os, pids, doubt, faults>>

\* onestep check ends: the slot of a failed check is released without an event.
Check(x) ==
  /\ x.step = "check"
  /\ \/ h' = {[x EXCEPT !.step = "start"]} /\ UNCHANGED host
     \/ Release(x.d) /\ h' = {[x EXCEPT !.step = "result", !.ok = FALSE]} /\ UNCHANGED <<os, pids>>
  /\ UNCHANGED <<plane, toPlane, me, doubt, faults>>

\* SubprocessSupervisor.start: the child exists before it is recorded.
Spawn(x) ==
  /\ x.step = "start"
  /\ \/ /\ pids' = pids + 1 /\ os' = os \cup {[pid |-> pids + 1, d |-> x.d]}
        /\ h' = {[x EXCEPT !.step = "track", !.pid = pids + 1]}
        /\ slots' = slots \cup {x.d} /\ UNCHANGED <<proc, extern, disk>>
     \/ Release(x.d) /\ h' = {[x EXCEPT !.step = "failed", !.ok = FALSE]} /\ UNCHANGED <<os, pids>>
  /\ UNCHANGED <<plane, toPlane, me, doubt, faults>>
Track(x) ==
  /\ x.step = "track"
  /\ proc' = [proc EXCEPT ![x.d] = x.pid] /\ disk' = Upserted(x.d, x.pid)
  /\ h' = {[x EXCEPT !.step = "running"]}
  /\ UNCHANGED <<plane, toPlane, me, slots, extern, os, pids, doubt, faults>>

\* stop: terminate, wait, kill after the grace period, release.
Terminate(x) ==
  /\ x.step = "term"
  /\ IF StopRaises(x.d) THEN h' = {[x EXCEPT !.step = "failed", !.ok = FALSE]} /\ UNCHANGED host
     ELSE h' = {[x EXCEPT !.step = "stopped"]} /\ Kill(x.d) /\ UNCHANGED pids
  /\ UNCHANGED <<plane, toPlane, me, doubt, faults>>

\* Mutant: the answer to a command is not sent.
SendNoResult(x) ==
  /\ x.step = "result" /\ h' = {} /\ UNCHANGED <<plane, toPlane, me, host, doubt, faults>>
SendResult(x) ==
  /\ x.step = "result"
  /\ IF me.link
     THEN /\ Sent(ResultMessage(x))
          /\ h' = {} /\ UNCHANGED me
     ELSE Raised /\ UNCHANGED toPlane
  /\ UNCHANGED <<plane, host, doubt, faults>>

-----------------------------------------------------------------------------
(* Host *)

Exit == \E p \in os :
  /\ exits < MaxExits /\ exits' = exits + 1 /\ os' = os \ {p}
  /\ UNCHANGED <<plane, toPlane, me, h, slots, proc, extern, disk, pids, doubt, breaks, crashes>>

\* The agent dies; its children live on.
Crash ==
  /\ me.up /\ crashes < MaxCrashes /\ crashes' = crashes + 1
  /\ me' = [up |-> FALSE, conn |-> 0, link |-> FALSE] /\ h' = {} /\ slots' = {}
  /\ proc' = [d \in Deployments |-> 0] /\ extern' = proc'
  /\ doubt' = doubt \cup {x.d : x \in {y \in h : y.step = "track"}}
  /\ UNCHANGED <<plane, toPlane, disk, os, pids, breaks, exits>>

\* _pid_is_alive.
Alive(d) == disk[d] # 0 /\ [pid |-> disk[d], d |-> d] \in os

\* Mutant: recovery reserves the slots and forgets the pids.
BootForgets ==
  /\ ~me.up /\ me' = [me EXCEPT !.up = TRUE]
  /\ slots' = {d \in Deployments : Alive(d)}
  /\ disk' = [d \in Deployments |-> IF Alive(d) THEN disk[d] ELSE 0]
  /\ UNCHANGED <<plane, toPlane, h, proc, extern, os, pids, doubt, faults>>

\* run: recover_running_deployments before the control loop.
Boot ==
  /\ ~me.up /\ me' = [me EXCEPT !.up = TRUE]
  /\ slots' = {d \in Deployments : Alive(d) /\ Cardinality({x \in Deployments : x < d /\ Alive(x)}) < Slots}
  /\ extern' = [d \in Deployments |-> IF d \in slots' THEN disk[d] ELSE 0]
  /\ disk' = [d \in Deployments |-> IF Alive(d) THEN disk[d] ELSE 0]
  /\ UNCHANGED <<plane, toPlane, h, proc, os, pids, doubt, faults>>

Handle == \E x \in h :
  \/ KillFirst(x) \/ Reserve(x) \/ StopAck(x) \/ SendEvent(x) \/ PrepareFails(x)
  \/ Check(x) \/ Spawn(x) \/ Track(x) \/ Terminate(x) \/ SendResult(x)
Server == \E e \in Conns : Hello(e) \/ Enqueue(e) \/ Receive(e) \/ Close(e)
Operator == \E d \in Deployments : Create(d) \/ Stop(d) \/ Restart(d)
Next == Handle \/ Server \/ Operator \/ Connect \/ Beat \/ Break \/ Leave \/ Take
        \/ Exit \/ Crash \/ Boot
Spec == Init /\ [][Next]_vars

\* The plane reads what it receives; the agent reconnects and works on.
FairSpec == Spec /\ WF_vars(Handle) /\ WF_vars(Take) /\ WF_vars(Connect) /\ WF_vars(Leave)
                 /\ WF_vars(Beat) /\ WF_vars(Boot)
                 /\ \A e \in Conns : WF_vars(Hello(e) \/ Enqueue(e) \/ Receive(e) \/ Close(e))

-----------------------------------------------------------------------------
(* Properties *)

Finished(i) == cmd[i].done
Quiet == h = {} /\ \A e \in Conns : toAgent[e] = <<>> /\ toPlane[e] = <<>>
Processes(d) == {p \in os : p.d = d}

\* The type invariant.
TypeOK ==
  /\ \A d \in Deployments : dep[d].observed \in {"none", "assigned"} \cup DOMAIN After
  /\ \A i \in DOMAIN cmd : cmd[i].status \in {"pending", "dispatched", "accepted", "rejected",
                                              "succeeded", "failed"}
  /\ slots \subseteq Deployments /\ Cardinality(slots) <= Slots
  /\ reg \in {0} \cup Conns /\ active \subseteq Conns

\* The registry, which routes new commands, and the session rows, which the
\* console shows, name the same connection, whatever the order in which old
\* connections end.  An agent without a session is not shown online, and one with
\* a session is, unless the row already said online when the connection was
\* authenticated: then a close of the one before it may take that back for good.
Reachable == /\ active = {e \in Conns : e = reg}
             /\ agent.status = "online" => active # {}
             /\ active \cap cold # {} => agent.status = "online"

\* A child the supervisor holds has its slot and its record on disk, so that
\* a restarted agent finds it.
ChildrenRecorded == \A d \in Deployments : proc[d] # 0 => d \in slots /\ disk[d] = proc[d]

\* A process the agent has lost track of belongs to a deployment that was
\* started while it ran, or whose agent died between spawn and record.
Held(d) == {proc[d], extern[d]} \cup {x.pid : x \in h} \cup (IF me.up THEN {} ELSE {disk[d]})
OrphansExplained == \A p \in os : p.pid \in Held(p.d) \/ p.d \in doubt

\* The answer a command ended with is never replaced.
FinalStays == \A i \in DOMAIN cmd : cmd[i].done => cmd'[i].done /\ cmd'[i].status = cmd[i].status

\* When nothing is in flight, a deployment shown as stopped or failed has no
\* process, across breaks, exits and crashes, unless a start was delivered twice.
Over(d) == dep[d].observed \in {"stopped", "failed"}
StoppedIsGone == Quiet => \A d \in Deployments \ doubt : Over(d) => Processes(d) = {}

\* It has no slot either, unless a connection broke after the slot was reserved and
\* before that was acknowledged, or a child exited before it was terminated.
SlotsFreed == Quiet => \A d \in Deployments \ doubt : Over(d) => d \notin slots

\* Every command is answered in the end (run_control_loop relies on the plane
\* dispatching again after each hello).
CommandsFinish == <>[](\A i \in DOMAIN cmd : Finished(i))

\* A restart is answered in the end.
RestartsAnswered == <>[](\A i \in DOMAIN cmd : cmd[i].k = "restart" => Finished(i))

\* A deployment has one subprocess; a repeated start changes nothing.
OneSubprocess == \A d \in Deployments : Cardinality(Processes(d)) <= 1

\* A stop that has been answered, with nothing after it, has released the slot.
StopReleases == Quiet => \A i \in DOMAIN cmd :
  cmd[i].k = "stop" /\ cmd[i].done /\ (\A j \in DOMAIN cmd : j > i => cmd[j].d # cmd[i].d)
    => cmd[i].d \notin slots

\* After a hello the plane does not show a deployment as running that the
\* agent's snapshot does not list.
Reconciled == \A e \in Conns : srv[e] = "ready" /\ me.conn = e /\ Quiet /\ Redeliverable = {}
  => \A d \in Deployments : dep[d].observed = "running" => d \in slots
=============================================================================
