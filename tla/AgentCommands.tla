---------------------------- MODULE AgentCommands ----------------------------
(***************************************************************************)
(* Commands from the control plane to one agent instance, over websocket   *)
(* connections that break: create_instance_command and the fan-out, the    *)
(* agent_ws handler of every connection, the redelivery on reconnect, the  *)
(* expiry of stale commands, and the agent's ControlPlaneWsTransport with  *)
(* its receipts.                                                           *)
(*                                                                         *)
(* Connections are numbered; the number is also the session the server     *)
(* gives it.  A broken connection loses a suffix of what was under way in  *)
(* each direction: either end may still read what had arrived, until it    *)
(* notices.  The handlers of the connections take turns on one event loop. *)
(* API handlers that are plain functions run in threads beside it, so their *)
(* expiry may commit between a handler's select and its commit, and a       *)
(* handler between theirs.  No row is locked: a commit writes the columns   *)
(* whose value differs from the one that was read.                          *)
(***************************************************************************)
EXTENDS Integers, Sequences, FiniteSets

CONSTANTS
    Commands,       \* command ids
    MaxConnections, \* bound on the connections of the agent
    MaxRestarts,    \* bound on restarts of the agent's process
    Deadlines       \* commands may outlive their timeout_s

VARIABLES
    cmd,       \* rows of agent_commands
    sess,      \* rows of agent_sessions: "none", "active", "superseded", "disconnected"
    capable,   \* sessions whose accepted capabilities cover the commands
    live,      \* AgentConnectionRegistry: the live session, 0 for none
    handler,   \* stage of the agent_ws handler of each connection
    pending,   \* what the handler whose turn it is has read and will commit, in order
    sendq,     \* its send_queue
    down, up,  \* frames under way to the agent and to the server
    broken,    \* connections that no longer carry frames
    expiring,  \* what an expiry in a thread has read and will commit
    conn,      \* the agent's connection, 0 for none
    linked,    \* it has received hello_ack on it
    receipts,  \* _command_receipts
    running,   \* commands whose _execute_command is under way
    runs,      \* how often each command was started, in all processes
    restarts

server == <<cmd, sess, capable, live, handler, pending, sendq, expiring>>
wires == <<down, up, broken>>
agent == <<conn, linked, receipts, running, runs, restarts>>
vars == <<server, wires, agent>>

Sessions == 1..MaxConnections
Redispatchable == {"pending", "dispatched"}
Reconcilable == {"pending", "dispatched", "accepted"}
Terminal == {"expired", "rejected", "succeeded", "failed", "timeout", "cancelled"}
Results == {"succeeded", "failed", "timeout", "cancelled"}

NoCommand == [status |-> "none", ack |-> "none", finished |-> FALSE, late |-> FALSE]
NoReceipt == [ack |-> "none", result |-> "none"]

Init ==
    /\ cmd = [c \in Commands |-> NoCommand]
    /\ sess = [s \in Sessions |-> "none"] /\ capable = {} /\ live = 0
    /\ handler = [s \in Sessions |-> "none"] /\ pending = <<>>
    /\ sendq = [s \in Sessions |-> <<>>]
    /\ down = [s \in Sessions |-> <<>>] /\ up = [s \in Sessions |-> <<>>]
    /\ broken = {} /\ expiring = {}
    /\ conn = 0 /\ linked = FALSE
    /\ receipts = [c \in Commands |-> NoReceipt]
    /\ running = {} /\ runs = [c \in Commands |-> 0] /\ restarts = 0

ActiveSession == {s \in Sessions : sess[s] = "active"}
\* Stages in which a handler keeps the event loop between a select and a commit.
Busy == \E s \in Sessions : handler[s] \in {"expiring", "listing", "redelivering", "applying"}

\* A row as selected and as assigned; its commit updates the columns that differ.
Write(c, row) == [of |-> c, read |-> cmd[c], row |-> row]

Committed(writes) ==
    [c \in Commands |->
        [f \in DOMAIN cmd[c] |->
            IF \E w \in writes : w.of = c /\ w.row[f] # w.read[f]
              THEN (CHOOSE w \in writes : w.of = c).row[f]
              ELSE cmd[c][f]]]

LatestSession == {s \in Sessions : sess[s] # "none" /\ \A t \in Sessions : sess[t] # "none" => t <= s}
-----------------------------------------------------------------------------
(* Requests of the console: one instance, or one target of a fan-out *)

\* create_command and, towards a live connection, mark_command_dispatched and the put
\* into its send queue, without an await between them that yields.
CreateAndDispatch(c) ==
    /\ cmd[c].status = "none" /\ ~Busy
    /\ ActiveSession \cap capable # {} /\ live # 0
    /\ cmd' = [cmd EXCEPT ![c].status = "dispatched"]
    /\ sendq' = [sendq EXCEPT ![live] = Append(@, c)]
    /\ UNCHANGED <<pending, sess, capable, live, handler, expiring, wires, agent>>

\* queue_until_reconnect, or a fan-out with offline_behavior = "queue".
CreateQueued(c) ==
    /\ cmd[c].status = "none" /\ ~Busy
    /\ \/ ActiveSession \cap capable # {} /\ live = 0
       \/ ActiveSession = {} /\ LatestSession \cap capable # {}
    /\ cmd' = [cmd EXCEPT ![c].status = "pending"]
    /\ UNCHANGED <<pending, sess, capable, live, handler, sendq, expiring, wires, agent>>

\* create_service_command_fanout: what becomes of one target, with or without queueing.
FanoutOutcome(queue) ==
    CASE ActiveSession # {} /\ ActiveSession \cap capable = {} -> "rejected"
      [] ActiveSession # {} /\ live # 0 -> "dispatched"
      [] ~queue -> "skipped"
      [] ActiveSession = {} /\ LatestSession \cap capable = {} -> "rejected"
      [] OTHER -> "queued"

FanoutTarget(c) ==
    /\ cmd[c].status = "none" /\ ~Busy
    /\ \E queue \in BOOLEAN :
         \/ /\ FanoutOutcome(queue) = "dispatched"
            /\ cmd' = [cmd EXCEPT ![c].status = "dispatched"]
            /\ sendq' = [sendq EXCEPT ![live] = Append(@, c)]
         \/ /\ FanoutOutcome(queue) = "queued"
            /\ cmd' = [cmd EXCEPT ![c].status = "pending"]
            /\ UNCHANGED sendq
    /\ UNCHANGED <<pending, sess, capable, live, handler, expiring, wires, agent>>

\* created_at + timeout_s passes.
Lapse(c) ==
    /\ Deadlines /\ cmd[c].status \notin {"none"} \cup Terminal /\ ~cmd[c].late
    /\ cmd' = [cmd EXCEPT ![c].late = TRUE]
    /\ UNCHANGED <<pending, sess, capable, live, handler, sendq, expiring, wires, agent>>

\* expire_stale_commands: the rows it selects, and what it makes of each.
Stale == {c \in Commands : cmd[c].status \in Reconcilable /\ cmd[c].late}

ExpiredAs(c) ==
    IF cmd[c].status = "accepted" \/ cmd[c].ack = "accepted" THEN "timeout" ELSE "expired"

Expiries == {Write(c, [cmd[c] EXCEPT !.status = ExpiredAs(c), !.finished = TRUE]) : c \in Stale}

\* The lists of commands expire what is stale, in a thread: select, then update.
ListRead ==
    /\ expiring = {} /\ Stale # {}
    /\ expiring' = Expiries
    /\ UNCHANGED <<cmd, sess, capable, live, handler, pending, sendq, wires, agent>>

ListCommit ==
    /\ expiring # {}
    /\ cmd' = Committed(expiring) /\ expiring' = {}
    /\ UNCHANGED <<sess, capable, live, handler, pending, sendq, wires, agent>>
-----------------------------------------------------------------------------
(* The agent_ws handler of connection s *)

\* _handle_hello supersedes the active sessions, registers the connection and answers.
\* The event loop meets the connections in the order in which they were opened.
Hello(s) ==
    /\ handler[s] = "open" /\ ~Busy /\ \A t \in 1..(s - 1) : handler[t] # "open"
    /\ up[s] # <<>> /\ Head(up[s]).type = "hello"
    /\ sess' = [t \in Sessions |-> IF t = s THEN "active"
                                   ELSE IF sess[t] = "active" THEN "superseded" ELSE sess[t]]
    /\ capable' \in {capable, capable \cup {s}}
    /\ live' = s
    /\ handler' = [handler EXCEPT ![s] = "greeted"]
    /\ up' = [up EXCEPT ![s] = Tail(@)]
    /\ down' = IF s \in broken THEN down ELSE [down EXCEPT ![s] = Append(@, "hello_ack")]
    /\ UNCHANGED <<pending, cmd, sendq, expiring, broken, agent>>

AllOf(S) == CHOOSE q \in [1..Cardinality(S) -> S] : \A i, j \in DOMAIN q : i # j => q[i] # q[j]

\* _enqueue_pending_commands: list_redeliverable_commands_for_instance expires what is
\* stale, in a commit of its own,
Enqueue(s) ==
    /\ handler[s] = "greeted" /\ ~Busy
    /\ pending' = AllOf(Expiries)
    /\ handler' = [handler EXCEPT ![s] = IF Stale = {} THEN "listing" ELSE "expiring"]
    /\ UNCHANGED <<cmd, sess, capable, live, sendq, expiring, wires, agent>>

EnqueueExpires(s) ==
    /\ handler[s] = "expiring"
    /\ cmd' = Committed({pending[i] : i \in DOMAIN pending}) /\ pending' = <<>>
    /\ handler' = [handler EXCEPT ![s] = "listing"]
    /\ UNCHANGED <<sess, capable, live, sendq, expiring, wires, agent>>

\* then selects the commands to send again: mark_command_dispatched, or
\* reject_redelivery_for_unsupported_capability,
Redelivery(s, c) ==
    Write(c, IF s \in capable THEN [cmd[c] EXCEPT !.status = "dispatched"]
             ELSE [cmd[c] EXCEPT !.status = "rejected", !.finished = TRUE])

EnqueueLists(s) ==
    /\ handler[s] = "listing"
    /\ LET again == {c \in Commands : cmd[c].status \in Redispatchable} IN
         /\ pending' = AllOf({Redelivery(s, c) : c \in again})
         /\ handler' = [handler EXCEPT ![s] = IF again = {} THEN "ready" ELSE "redelivering"]
    /\ UNCHANGED <<cmd, sess, capable, live, sendq, expiring, wires, agent>>

\* and commits them one by one, each put into the send queue after its commit.
Redeliver(s) ==
    /\ handler[s] = "redelivering"
    /\ cmd' = Committed({Head(pending)})
    /\ sendq' = IF s \in capable THEN [sendq EXCEPT ![s] = Append(@, Head(pending).of)] ELSE sendq
    /\ pending' = Tail(pending)
    /\ handler' = [handler EXCEPT ![s] = IF Tail(pending) = <<>> THEN "ready" ELSE @]
    /\ UNCHANGED <<sess, capable, live, expiring, wires, agent>>

\* _send_loop
SendLoop(s) ==
    /\ handler[s] \in {"greeted", "ready"} /\ ~Busy /\ sendq[s] # <<>>
    /\ sendq' = [sendq EXCEPT ![s] = Tail(@)]
    /\ down' = IF s \in broken THEN down ELSE [down EXCEPT ![s] = Append(@, Head(sendq[s]))]
    /\ UNCHANGED <<pending, cmd, sess, capable, live, handler, expiring, up, broken, agent>>

\* _handle_command_ack: what it assigns to a row that is open and not acknowledged.
ApplyAck(c, a) ==
    IF cmd[c].finished \/ cmd[c].ack # "none" THEN cmd[c]
    ELSE [cmd[c] EXCEPT !.ack = a, !.status = a, !.finished = (a = "rejected")]

\* Mutant: the last result wins.
ResultApplies(c, r) ==
    [cmd[c] EXCEPT !.status = r, !.finished = TRUE, !.ack = "accepted"]

\* _handle_command_result: a second result is answered with duplicate_command_result.
ApplyResult(c, r) ==
    IF cmd[c].finished THEN cmd[c]
    ELSE [cmd[c] EXCEPT !.status = r, !.finished = TRUE,
                        !.ack = IF @ = "none" THEN "accepted" ELSE @]

\* A frame is received and its command selected and changed;
Receive(s) ==
    /\ handler[s] = "ready" /\ ~Busy /\ up[s] # <<>>
    /\ LET f == Head(up[s])
           row == IF f.type = "ack" THEN ApplyAck(f.of, f.status) ELSE ApplyResult(f.of, f.status)
       IN IF row = cmd[f.of] THEN UNCHANGED <<handler, pending>>
          ELSE /\ pending' = <<Write(f.of, row)>>
               /\ handler' = [handler EXCEPT ![s] = "applying"]
    /\ up' = [up EXCEPT ![s] = Tail(@)]
    /\ UNCHANGED <<cmd, sess, capable, live, sendq, expiring, down, broken, agent>>

\* its commit.
Apply(s) ==
    /\ handler[s] = "applying"
    /\ cmd' = Committed({Head(pending)}) /\ pending' = <<>>
    /\ handler' = [handler EXCEPT ![s] = "ready"]
    /\ UNCHANGED <<sess, capable, live, sendq, expiring, wires, agent>>

\* WebSocketDisconnect: unregister and _close_session, each only for its own session.
Disconnect(s) ==
    /\ handler[s] \in {"open", "greeted", "ready"} /\ ~Busy /\ s \in broken
    /\ handler' = [handler EXCEPT ![s] = "closed"]
    /\ up' = [up EXCEPT ![s] = <<>>] /\ sendq' = [sendq EXCEPT ![s] = <<>>]
    /\ live' = IF live = s THEN 0 ELSE live
    /\ sess' = [sess EXCEPT ![s] = IF @ = "active" THEN "disconnected" ELSE @]
    /\ UNCHANGED <<pending, cmd, capable, expiring, down, broken, agent>>
-----------------------------------------------------------------------------
(* The agent *)

\* connect(): a fresh connection and the hello on it.
Connect ==
    /\ conn = 0
    /\ \E s \in Sessions :
         /\ handler[s] = "none" /\ \A t \in 1..(s - 1) : handler[t] # "none"
         /\ conn' = s
         /\ handler' = [handler EXCEPT ![s] = "open"]
         /\ up' = [up EXCEPT ![s] = <<[type |-> "hello"]>>]
    /\ linked' = FALSE
    /\ UNCHANGED <<pending, cmd, sess, capable, live, sendq, expiring, down, broken, receipts, running,
                   runs, restarts>>

HelloAck ==
    /\ conn # 0 /\ ~linked /\ down[conn] # <<>>
    /\ linked' = TRUE
    /\ down' = [down EXCEPT ![conn] = Tail(@)]
    /\ UNCHANGED <<server, up, broken, conn, receipts, running, runs, restarts>>

\* Frames sent on a broken connection are lost, whether or not the send raises.
Sent(s, frames) == up' = IF s \in broken THEN up ELSE [up EXCEPT ![s] = @ \o frames]

Ack(c, a) == [type |-> "ack", of |-> c, status |-> a]
Result(c, r) == [type |-> "result", of |-> c, status |-> r]

\* _handle_command_message knows the command by its receipt.
Known(c) == receipts[c].ack # "none"

\* A known command is answered from the receipts.
Answer ==
    /\ conn # 0 /\ linked /\ down[conn] # <<>>
    /\ LET c == Head(down[conn]) IN
         /\ Known(c)
         /\ Sent(conn, <<Ack(c, receipts[c].ack)>>
                         \o (IF receipts[c].result = "none" THEN <<>>
                             ELSE <<Result(c, receipts[c].result)>>))
    /\ down' = [down EXCEPT ![conn] = Tail(@)]
    /\ UNCHANGED <<server, broken, conn, linked, receipts, running, runs, restarts>>

Reject ==
    /\ conn # 0 /\ linked /\ down[conn] # <<>>
    /\ LET c == Head(down[conn]) IN
         /\ ~Known(c)
         /\ receipts' = [receipts EXCEPT ![c].ack = "rejected"]
         /\ Sent(conn, <<Ack(c, "rejected")>>)
    /\ down' = [down EXCEPT ![conn] = Tail(@)]
    /\ UNCHANGED <<server, broken, conn, linked, running, runs, restarts>>

\* The receipt is kept first, then the ack is sent, then the command is started.
Accept ==
    /\ conn # 0 /\ linked /\ down[conn] # <<>>
    /\ LET c == Head(down[conn]) IN
         /\ ~Known(c)
         /\ receipts' = [receipts EXCEPT ![c].ack = "accepted"]
         /\ Sent(conn, <<Ack(c, "accepted")>>)
         /\ running' = running \cup {c} /\ runs' = [runs EXCEPT ![c] = @ + 1]
    /\ down' = [down EXCEPT ![conn] = Tail(@)]
    /\ UNCHANGED <<server, broken, conn, linked, restarts>>

\* The send of the ack raises: the receive loop ends, and the command is not started.
AcceptRaises ==
    /\ conn # 0 /\ linked /\ down[conn] # <<>> /\ conn \in broken
    /\ LET c == Head(down[conn]) IN
         /\ ~Known(c)
         /\ receipts' = [receipts EXCEPT ![c].ack = "accepted"]
    /\ down' = [down EXCEPT ![conn] = <<>>]
    /\ conn' = 0 /\ linked' = FALSE
    /\ UNCHANGED <<server, up, broken, running, runs, restarts>>

\* _execute_command ends: the result is kept, and sent if there is a connection.
Finish(c) ==
    /\ c \in running
    /\ \E r \in Results :
         /\ receipts' = [receipts EXCEPT ![c].result = r]
         /\ IF conn = 0 THEN UNCHANGED up ELSE Sent(conn, <<Result(c, r)>>)
    /\ running' = running \ {c}
    /\ UNCHANGED <<server, down, broken, conn, linked, runs, restarts>>

\* The receive loop or a send notices the broken connection.
AgentDisconnects ==
    /\ conn \in broken
    /\ conn' = 0 /\ linked' = FALSE
    /\ down' = [down EXCEPT ![conn] = <<>>]
    /\ UNCHANGED <<server, up, broken, receipts, running, runs, restarts>>

Break ==
    /\ conn # 0 /\ conn < MaxConnections /\ conn \notin broken
    /\ broken' = broken \cup {conn}
    /\ UNCHANGED <<server, down, up, agent>>

\* The process dies and comes back with the same instance id.
Restart ==
    /\ restarts < MaxRestarts
    /\ conn # MaxConnections
    /\ restarts' = restarts + 1
    /\ broken' = IF conn = 0 THEN broken ELSE broken \cup {conn}
    /\ conn' = 0 /\ linked' = FALSE
    /\ receipts' = [c \in Commands |-> NoReceipt] /\ running' = {}
    /\ UNCHANGED <<server, down, up, runs>>
-----------------------------------------------------------------------------
Loop(s) ==
    \/ Hello(s) \/ Enqueue(s) \/ EnqueueExpires(s) \/ EnqueueLists(s) \/ Redeliver(s)
    \/ SendLoop(s) \/ Receive(s) \/ Apply(s) \/ Disconnect(s)

AgentStep ==
    \/ Connect \/ HelloAck \/ Answer \/ Reject \/ Accept \/ AcceptRaises \/ AgentDisconnects

Next ==
    \/ \E c \in Commands : CreateAndDispatch(c) \/ CreateQueued(c) \/ FanoutTarget(c)
                            \/ Lapse(c) \/ Finish(c)
    \/ ListRead \/ ListCommit
    \/ \E s \in Sessions : Loop(s)
    \/ AgentStep \/ Break \/ Restart

\* Both event loops run, the agent reconnects, and commands end; the last connection of
\* the bound stays up.  Nothing makes anyone ask for a list of commands.
Spec ==
    /\ Init /\ [][Next]_vars
    /\ \A s \in Sessions : WF_vars(Loop(s))
    /\ WF_vars(AgentStep) /\ \A c \in Commands : WF_vars(Finish(c))
-----------------------------------------------------------------------------
\* The type invariant.
TypeOK ==
    /\ \A c \in Commands : cmd[c].status \in {"none"} \cup Reconcilable \cup Terminal
    /\ live \in 0..MaxConnections /\ conn \in 0..MaxConnections
    /\ running \subseteq Commands /\ capable \subseteq Sessions
    /\ \A s \in Sessions : sess[s] \in {"none", "active", "superseded", "disconnected"}

\* A process starts a command at most once however often it is delivered: on the same
\* session (dispatched between hello and redelivery) or on later ones.
RunOncePerProcess == \A c \in Commands : runs[c] <= restarts + 1

\* "duplicate commands must not be executed twice"
\* (apps/control-plane/docs/protocols/agent-ws-protocol.md:347).
RunOnce == \A c \in Commands : runs[c] <= 1

\* What the console shows as the outcome of a command is what an execution reported, and
\* a command is said to have timed out in the agent only if the agent had accepted it.
OutcomesAreReal ==
    \A c \in Commands :
        /\ cmd[c].status \in Results \ {"timeout"} => runs[c] >= 1
        /\ cmd[c].status = "timeout" => cmd[c].ack = "accepted"

\* An outcome is written over only by a commit whose select preceded it: a thread's
\* expiry, or the ack, result or redelivery on the event loop.
OutcomeStays ==
    \A c \in Commands :
       cmd[c].status \in Terminal /\ cmd'[c].status # cmd[c].status
          => \E w \in expiring \cup {pending[i] : i \in DOMAIN pending} :
                w.of = c /\ w.read.status \notin Terminal

\* An ack or a redelivery that overtakes an expiry in this way opens the row again,
\* without a way to a result: finished_at stays, so every result is called a duplicate.
\* It is past its deadline, so the next list ends it for good; no command that
\* was answered in time is opened again.
ReopenedIsLate ==
    \A c \in Commands : cmd[c].finished /\ cmd[c].status \notin Terminal => cmd[c].late

\* At most one session is active, and the live connection is never one that another
\* session has superseded.
OneActiveSession ==
    /\ Cardinality(ActiveSession) <= 1
    /\ live # 0 => sess[live] = "active"

\* "`command_result`: at least once, deduped by `command_id`"
\* (apps/control-plane/docs/protocols/agent-ws-protocol.md:357).
AcceptedIsAnswered ==
    \A c \in Commands :
        cmd[c].status = "accepted" ~> (cmd[c].finished \/ cmd[c].late)
=============================================================================
