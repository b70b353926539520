---------------------------- MODULE AgentIdentity ----------------------------
(***************************************************************************)
(* The identity of an agent over restarts: IdentityStore keeps the         *)
(* heartbeat and sync sequences in a file that a lock file protects, and   *)
(* the control plane applies a heartbeat or a sync only when its sequence  *)
(* is newer than the last one it applied.  Processes that share a state    *)
(* directory start, lock, send, close and crash; messages of one process   *)
(* and of the next reach the control plane in any order, more than once,   *)
(* or never.                                                               *)
(*                                                                         *)
(* One step is one file operation of the store; the state file is written  *)
(* to a temporary file and renamed, which is atomic.  The content of a     *)
(* message is the time it was sent, the tasks of a sync and the tasks whose*)
(* control state a heartbeat reports.                                      *)
(***************************************************************************)
EXTENDS Naturals, FiniteSets, FiniteSetsExt

CONSTANTS Procs,      \* processes configured with one identity
          Pids,       \* process ids the machine gives out
          Tasks,      \* tasks of the application
          StateDir,   \* whether the identity resolves to a state directory
          MaxStarts,  \* bound: processes started
          MaxCrashes, \* bound: processes killed
          MaxSent     \* bound: messages sent

Kinds == {"heartbeat", "sync"}
None == [by |-> "nobody", pid |-> 0]

VARIABLES proc,   \* per process: pc, pid, tries left and sequences in memory
          lock,   \* the lock file: the process whose file it is, the pid in it
          file,   \* the state file: the sequence per kind, or none yet
          sent,   \* every message sent
          got,    \* the messages the control plane received
          inst,   \* the row of the instance in the control plane
          counts

vars == <<proc, lock, file, sent, got, inst, counts>>

Down == [pc |-> "down", pid |-> 0, tries |-> 0, seq |-> [k \in Kinds |-> 0]]

Init ==
  /\ proc = [p \in Procs |-> Down]
  /\ lock = None
  /\ file = [k \in Kinds |-> 0]
  /\ sent = {} /\ got = {}
  /\ inst = [seq |-> [k \in Kinds |-> 0], sentAt |-> [k \in Kinds |-> 0],
             synced |-> FALSE, tasks |-> {}, controls |-> {}]
  /\ counts = [starts |-> 0, crashes |-> 0]

Alive(p) == proc[p].pc \notin {"down", "refused"}

\* _pid_is_running
PidRuns(pid) == \E p \in Procs : Alive(p) /\ proc[p].pid = pid

Server == <<sent, got, inst>>

\* _ensure_identity_ready: without a state directory nothing is locked or kept.
Start(p, pid) ==
  /\ ~Alive(p) /\ ~PidRuns(pid) /\ counts.starts < MaxStarts
  /\ proc' = [proc EXCEPT ![p] = [Down EXCEPT
       !.pc = IF StateDir THEN "create" ELSE "up", !.pid = pid, !.tries = 2]]
  /\ counts' = [counts EXCEPT !.starts = @ + 1]
  /\ UNCHANGED <<lock, file, Server>>

\* _acquire_lock: O_CREAT | O_EXCL, tried twice.
CreateLock(p) ==
  /\ proc[p].pc = "create"
  /\ IF proc[p].tries = 0
     THEN proc' = [proc EXCEPT ![p].pc = "refused"] /\ UNCHANGED lock
     ELSE IF lock = None
     THEN lock' = [by |-> p, pid |-> 0] /\ proc' = [proc EXCEPT ![p].pc = "write"]
     ELSE proc' = [proc EXCEPT ![p].pc = "read"] /\ UNCHANGED lock
  /\ UNCHANGED <<file, Server, counts>>

\* _reclaim_stale_lock, first half: no pid in the file, or a pid that runs,
\* refuses the lock.
ReadOwner(p) ==
  /\ proc[p].pc = "read"
  /\ proc' = [proc EXCEPT ![p].pc =
       IF lock.pid # 0 /\ ~PidRuns(lock.pid) THEN "unlink" ELSE "refused"]
  /\ UNCHANGED <<lock, file, Server, counts>>

\* Its second half removes whatever lock file is there by now.
UnlinkStale(p) ==
  /\ proc[p].pc = "unlink"
  /\ lock' = None
  /\ proc' = [proc EXCEPT ![p].pc = "create", ![p].tries = @ - 1]
  /\ UNCHANGED <<file, Server, counts>>

\* The pid goes to the file this process created, linked or not.
WriteOwner(p) ==
  /\ proc[p].pc = "write"
  /\ lock' = IF lock.by = p THEN [lock EXCEPT !.pid = proc[p].pid] ELSE lock
  /\ proc' = [proc EXCEPT ![p].pc = "load"]
  /\ UNCHANGED <<file, Server, counts>>

\* Mutant: the sequences start again from zero.
LoadNothing(p) ==
  /\ proc[p].pc = "load"
  /\ proc' = [proc EXCEPT ![p].pc = "up"]
  /\ UNCHANGED <<lock, file, Server, counts>>

\* _load_state
Load(p) ==
  /\ proc[p].pc = "load"
  /\ proc' = [proc EXCEPT ![p].pc = "up", ![p].seq = file]
  /\ UNCHANGED <<lock, file, Server, counts>>

\* next_heartbeat_sequence, next_sync_sequence: kept, then used in a message.
Send(p, k, tasks) ==
  LET n == proc[p].seq[k] + 1 IN
  /\ proc[p].pc = "up" /\ Cardinality(sent) < MaxSent
  /\ proc' = [proc EXCEPT ![p].seq[k] = n]
  /\ file' = IF StateDir THEN [proc[p].seq EXCEPT ![k] = n] ELSE file
  /\ sent' = sent \cup {[kind |-> k, seq |-> n, at |-> Cardinality(sent) + 1, tasks |-> tasks]}
  /\ UNCHANGED <<lock, got, inst, counts>>

\* close() removes the lock file, whoever it belongs to.
Close(p) ==
  /\ proc[p].pc = "up"
  /\ proc' = [proc EXCEPT ![p] = Down]
  /\ lock' = IF StateDir THEN None ELSE lock
  /\ UNCHANGED <<file, Server, counts>>

Crash(p) ==
  /\ Alive(p) /\ counts.crashes < MaxCrashes
  /\ proc' = [proc EXCEPT ![p] = Down]
  /\ counts' = [counts EXCEPT !.crashes = @ + 1]
  /\ UNCHANGED <<lock, file, Server>>

-----------------------------------------------------------------------------

\* is_newer_ingestion: by sequence, and by time between equal sequences.
Newer(m) ==
  \/ m.seq > inst.seq[m.kind]
  \/ m.seq = inst.seq[m.kind] /\ m.at > inst.sentAt[m.kind]

\* _merge_task_control_states: only tasks the snapshot knows keep a state.
Merge(controls, synced, tasks) == IF synced THEN controls \cap tasks ELSE controls

Stamp(m) == [inst EXCEPT !.seq[m.kind] = m.seq, !.sentAt[m.kind] = m.at]

\* apply_heartbeat_snapshot
ApplyHeartbeat(m) ==
  [Stamp(m) EXCEPT !.controls = Merge(m.tasks, inst.synced, inst.tasks)]

\* apply_sync_snapshot: the new snapshot inherits the control states.
ApplySync(m) ==
  [Stamp(m) EXCEPT !.synced = TRUE, !.tasks = m.tasks,
                   !.controls = Merge(inst.controls, TRUE, m.tasks)]

\* ingest_heartbeat_request, ingest_sync_request
Ingest(m) ==
  /\ got' = got \cup {m}
  /\ inst' = IF ~Newer(m) THEN inst
             ELSE IF m.kind = "sync" THEN ApplySync(m) ELSE ApplyHeartbeat(m)
  /\ UNCHANGED <<proc, lock, file, sent, counts>>

Next ==
  \/ \E p \in Procs :
       \/ \E pid \in Pids : Start(p, pid)
       \/ \E k \in Kinds, tasks \in SUBSET Tasks : Send(p, k, tasks)
       \/ CreateLock(p) \/ ReadOwner(p) \/ UnlinkStale(p) \/ WriteOwner(p)
       \/ Load(p) \/ Close(p) \/ Crash(p)
  \/ \E m \in sent : Ingest(m)

Spec == Init /\ [][Next]_vars

-----------------------------------------------------------------------------
\* The type invariant.
TypeOK ==
  /\ \A p \in Procs :
       /\ proc[p].pc \in {"down", "create", "read", "unlink", "write", "load", "up", "refused"}
       /\ proc[p].tries \in 0..2
  /\ lock \in {None} \cup [by : Procs, pid : Pids \cup {0}]
  /\ got \subseteq sent
  /\ inst.tasks \subseteq Tasks /\ inst.controls \subseteq Tasks

\* A message sent later has the greater sequence, across crashes and restarts:
\* the sequence is kept before the message that uses it leaves.
SequencesIncrease ==
  \A m, n \in sent : m.kind = n.kind /\ m.at < n.at => m.seq < n.seq

\* Whatever the order, the loss and the duplication of messages, the row shows
\* the latest heartbeat and the latest sync that were received.
ShownIsNewest ==
  \A k \in Kinds :
    LET mine == {m \in got : m.kind = k}
    IN  mine # {} => inst.sentAt[k] = Max({m.at : m \in mine})

\* The control states shown are those of the latest heartbeat received, and
\* none is of a task that the latest sync no longer has.
ControlsAreCurrent ==
  /\ inst.synced => inst.controls \subseteq inst.tasks
  /\ \A m \in got : m.kind = "heartbeat" /\ m.at = inst.sentAt["heartbeat"]
       => inst.controls \subseteq m.tasks

\* Two running processes never both own the state directory.
OneOwner ==
  \A p, q \in Procs : proc[p].pc \in {"load", "up"} /\ proc[q].pc \in {"load", "up"} => p = q

\* The identity document: a lock error means that two live processes compete
\* for one state directory.
LockErrorMeansContention ==
  \A p \in Procs : proc[p].pc = "refused" => \E q \in Procs \ {p} : Alive(q)

=============================================================================
