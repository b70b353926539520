------------------------------ MODULE MCDeployment ------------------------------
(*****************************************************************************)
(* What is deployed and how, one part at a time: the worker agent and the    *)
(* plane that commands it, the agent's workspace, the stored connectors, the *)
(* workers built on them, and the YAML configuration a worker is started     *)
(* from.                                                                     *)
(*****************************************************************************)
EXTENDS Integers, Sequences, FiniteSets, SequencesExt, TLC

VARIABLES part,  \* the component a behaviour is about; it never changes
          dep, cmd, agent, known, cold, late, active, reg, srv, toAgent, toPlane,
          me, h, slots, proc, extern, disk, os, pids, doubt, breaks, crashes, exits,
          conf, ident, rows, assigned, pkg, dir, venv, marker, setups, row, pend,
          asked, requests, worker, live, edit, job, deployments, commands, edits,
          env, types, loaded, reporting, cfg, stage, expanded, specs, pending,
          stack, built, builds, next, reason, loads, faults

vars == <<part, dep, cmd, agent, known, cold, late, active, reg, srv, toAgent,
          toPlane, me, h, slots, proc, extern, disk, os, pids, doubt, breaks,
          crashes, exits, conf, ident, rows, assigned, pkg, dir, venv, marker,
          setups, row, pend, asked, requests, worker, live, edit, job, deployments,
          commands, edits, env, types, loaded, reporting, cfg, stage, expanded,
          specs, pending, stack, built, builds, next, reason, loads, faults>>

None == "-"

Base ==
    [strict |-> FALSE, strict_env |-> FALSE, env_file |-> None, refs |-> {}, given |-> {}, app |-> "ok",
     entries |-> << >>, state |-> None, tasks |-> << >>, hooks |-> "none", reporter |-> None]

Res(n, t, s) == [name |-> n, type |-> t, spec |-> s]

AllPlugins ==
    <<[name |-> "kafka", types |-> <<"kafka", "kafka_topic">>], [name |-> "rabbitmq", types |-> <<"rabbitmq", "rabbitmq_queue">>],
      [name |-> "redis", types |-> <<"redis", "redis_stream">>], [name |-> "sqs", types |-> <<"sqs", "sqs_queue", "sns", "sns_topic">>],
      [name |-> "cf_queues", types |-> <<"cf_queues", "cf_queue">>],
      [name |-> "mongodb", types |-> <<"mongodb", "mongodb_polling", "mongodb_change_stream", "mongodb_collection_sink">>],
      [name |-> "clickhouse", types |-> <<"clickhouse", "clickhouse_table_sink">>],
      [name |-> "elasticsearch", types |-> <<"elasticsearch", "elasticsearch_bulk_sink">>],
      [name |-> "feishu", types |-> <<"feishu_bitable", "feishu_bitable_incremental", "feishu_bitable_table_sink">>],
      [name |-> "mysql", types |-> <<"mysql", "mysql_state_store", "mysql_cursor_store", "mysql_table_queue", "mysql_incremental",
                                     "mysql_binlog", "mysql_table_sink">>],
      [name |-> "postgres", types |-> <<"postgres", "postgres_state_store", "postgres_cursor_store", "postgres_table_queue",
                                        "postgres_incremental", "postgres_table_sink", "postgres_execution_source">>],
      [name |-> "sqlite", types |-> <<"sqlite", "sqlite_state_store", "sqlite_cursor_store", "sqlite_table_queue",
                                      "sqlite_incremental", "sqlite_table_sink">>]>>
TwoPlugins ==
    <<[name |-> "mysql", types |-> <<"mysql", "mysql_cursor_store", "mysql_incremental">>],
      [name |-> "kafka", types |-> <<"kafka", "kafka_topic">>]>>
NoFiles == << >>
TwoFiles == [f1 |-> {"v1"}, f2 |-> {"v1", "v2"}]

(* Three definitions that refer to each other, to themselves, to nothing   *)
(* or to a name that is not there; the third may repeat the first's name.  *)
GraphDefs(n) ==
    {Res(n, "mysql", [dsn |-> "ok"]), Res(n, "kafka", [bootstrap_servers |-> "ok"])}
    \union {Res(n, "mysql_cursor_store", [connector |-> m]) : m \in {"a", "c", "zz"}}
    \union {Res(n, "mysql_incremental",
                [connector |-> m, state |-> s, table |-> "ok", key |-> "ok", cursor |-> "ok"]) : m \in {"a", "b"}, s \in {"a", "c"}}

GraphConfigs ==
    {[Base EXCEPT !.entries = <<x, y, z>>, !.state = s, !.strict = (s # None)] :
        x \in GraphDefs("a") \union {Res("a", "sqs", << >>)}, y \in GraphDefs("b"), z \in GraphDefs("c") \union GraphDefs("a"), s \in {None, "c"}}

(* Tasks in every shape, two fields at a time. *)
Task ==
    [source |-> "m", emit |-> << >>, dead_letter |-> << >>, handler |-> "ok", retry |-> "none", hooks |-> "none", limits |-> "ok"]

Emit(f, r, bs) == [form |-> f, ref |-> r, branches |-> bs]
EmitLists ==
    {<< >>, <<Emit("names", "none", <<<<"m">>>>)>>, <<Emit("names", "none", <<<<"m", "w">>>>)>>,
     <<Emit("nested", "ok", <<<<"s">>>>)>>, <<Emit("route", "ok", <<<<"s">>, << >>>>)>>,
     <<Emit("route", "ok", <<<<"s">>, <<"zz">>>>)>>, <<Emit("names", "none", <<<<"s">>>>), Emit("binding", "missing", <<<<"m">>>>)>>}
    \union {<<Emit("binding", r, <<<<"s">>>>)>> : r \in {"ok", "null_params", "null", "bad"}}

Tasks ==
    {[Task EXCEPT !.source = s, !.dead_letter = d] :
        s \in {None, "m", "s", "k", "zz"}, d \in {<< >>, <<"s">>, <<"s", "w">>, <<"zz">>}}
    \union {[Task EXCEPT !.emit = e, !.handler = k] :
        e \in EmitLists, k \in {"absent", "ok", "missing", "null_params", "null", "bad"}}
    \union {[Task EXCEPT !.retry = r, !.hooks = k, !.limits = l] :
        r \in {"none", "ok", "extra", "unknown"}, k \in {"none", "ok", "null", "empty", "bad"}, l \in {"ok", "bad"}}

TaskConfigs ==
    {[Base EXCEPT !.strict = s, !.tasks = <<Task, t>>,
        !.entries = <<Res("m", "memory", [maxsize |-> "ok"]), Res("s", "http_sink", [url |-> "ok"]),
                      Res("w", "webhook", [path |-> "ok"]), Res("k", "kafka", [bootstrap_servers |-> "ok"])>>] :
        s \in BOOLEAN, t \in Tasks}
    \union {[Base EXCEPT !.strict = s, !.app = a, !.hooks = k, !.reporter = r] :
        s \in BOOLEAN, a \in {"ok", "noname", "mixed", "badlogging"}, k \in {"ok", "null", "bad"}, r \in {None, "ok", "bad"}}

(* Environment references and files, over several loads. *)
Refs == [var : {"v1", "v2"}, form : {"plain", "default"}]

EnvConfigs ==
    {[Base EXCEPT !.strict_env = s, !.env_file = f, !.refs = r, !.given = g, !.strict = s,
        !.reporter = IF s THEN "ok" ELSE None, !.entries = <<Res("a", "kafka", [bootstrap_servers |-> "ok"])>>] :
        s \in BOOLEAN, f \in {None, "missing", "f1", "f2"}, g \in {{}, {"v1"}},
        r \in {{x} : x \in Refs} \union {{x \in Refs : x.form = "plain"}}}

Session == INSTANCE WorkerDeployment WITH
  Deployments <- {1, 2}, Slots <- 1, Caps <- {"start", "stop", "restart"},
  MaxCmds <- 2, MaxBreaks <- 0, MaxCrashes <- 0, MaxExits <- 0, MaxInFlight <- 1
Faults == INSTANCE WorkerDeployment WITH
  Deployments <- {1}, Slots <- 1, Caps <- {"start", "stop", "restart"},
  MaxCmds <- 1, MaxBreaks <- 1, MaxCrashes <- 0, MaxExits <- 1, MaxInFlight <- 1
Crashes == INSTANCE WorkerDeployment WITH
  Deployments <- {1}, Slots <- 1, Caps <- {"start", "stop", "restart"},
  MaxCmds <- 1, MaxBreaks <- 0, MaxCrashes <- 1, MaxExits <- 1, MaxInFlight <- 1
Exits == INSTANCE WorkerDeployment WITH
  Deployments <- {1}, Slots <- 1, Caps <- {"start", "stop", "restart"},
  MaxCmds <- 2, MaxBreaks <- 0, MaxCrashes <- 0, MaxExits <- 1, MaxInFlight <- 1
Limited == INSTANCE WorkerDeployment WITH
  Deployments <- {1}, Slots <- 1, Caps <- {"start"}, MaxCmds <- 1, MaxBreaks <- 1,
  MaxCrashes <- 0, MaxExits <- 0, MaxInFlight <- 1
Refusing == INSTANCE WorkerDeployment WITH
  Deployments <- {1}, Slots <- 1, Caps <- {"stop"}, MaxCmds <- 2, MaxBreaks <- 1,
  MaxCrashes <- 0, MaxExits <- 0, MaxInFlight <- 1
Workspace == INSTANCE AgentWorkspace WITH
  Dirs <- {"d1", "d2"}, Default <- "d1", Packages <- {"p1"}, MaxVersion <- 2,
  Downgrades <- FALSE, MaxCrashes <- 1, MaxSetups <- 1
ServerUrls == INSTANCE ConnectorStore WITH
  Kind <- "server", Hosts <- {"h1", "h2"}, Users <- {"u"}, Paths <- {"d"},
  Passwords <- {"p1", "p2"}, Schemes <- {"default", "other"}, Partial <- TRUE,
  NoDatabase <- TRUE, Clients <- {"c1"}, MaxRequests <- 2
SqlUrls == INSTANCE ConnectorStore WITH
  Kind <- "sql", Hosts <- {"h1", "h2"}, Users <- {"u"}, Paths <- {"d1", "d2"},
  Passwords <- {"p1", "p2"}, Schemes <- {"default"}, Partial <- FALSE,
  NoDatabase <- FALSE, Clients <- {"c1"}, MaxRequests <- 3
Workers == INSTANCE WorkerBuilder WITH
  Connectors <- {}, Tokens <- {"t1", "t2"}, MaxSinks <- 0, Clients <- {"c1"},
  MaxEdits <- 3, MaxDeploys <- 1, MaxCmds <- 1
Started == INSTANCE WorkerBuilder WITH
  Connectors <- {}, Tokens <- {"t1"}, MaxSinks <- 0, Clients <- {"c1"},
  MaxEdits <- 2, MaxDeploys <- 1, MaxCmds <- 2
Referring == INSTANCE WorkerBuilder WITH
  Connectors <- {"k1", "k2"}, Tokens <- {}, MaxSinks <- 1, Clients <- {"c1"},
  MaxEdits <- 2, MaxDeploys <- 1, MaxCmds <- 0
Graph == INSTANCE AppConfig WITH
  Configs <- GraphConfigs, Vars <- {}, EnvFiles <- NoFiles, Plugins <- TwoPlugins,
  MaxLoads <- 1, MaxFaults <- 0

(* One resource of each type, with the fields its entry requires or all    *)
(* but one of them, and its connector.                                     *)
Minimal(t, fields) == [f \in fields |-> IF f = "connector" THEN "conn" ELSE "ok"]

TypeConfigs ==
    UNION {LET conns == Graph!Catalog[t].conns
               full == Graph!Catalog[t].required
               rest == IF conns = {} THEN << >>
                       ELSE LET c == CHOOSE c \in conns : TRUE IN <<Res("conn", c, Minimal(c, Graph!Catalog[c].required))>>
           IN  {[Base EXCEPT !.strict = TRUE, !.entries = <<Res("r", t, Minimal(t, fs))>> \o rest] :
                   fs \in {full} \union {full \ {f} : f \in full}} : t \in Graph!Types}
Typed == INSTANCE AppConfig WITH
  Configs <- TypeConfigs, Vars <- {}, EnvFiles <- NoFiles, Plugins <- AllPlugins,
  MaxLoads <- 1, MaxFaults <- 0
TaskLists == INSTANCE AppConfig WITH
  Configs <- TaskConfigs, Vars <- {}, EnvFiles <- NoFiles, Plugins <- TwoPlugins,
  MaxLoads <- 1, MaxFaults <- 0
Environment == INSTANCE AppConfig WITH
  Configs <- EnvConfigs, Vars <- {"v1", "v2"}, EnvFiles <- TwoFiles,
  Plugins <- TwoPlugins, MaxLoads <- 2, MaxFaults <- 1

(* What a component does not have is switched off. *)
Off == "off"
NotWorkerDeployment == <<part, conf, ident, rows, assigned, pkg, dir, venv, marker,
  setups, row, pend, asked, requests, worker, live, edit, job, deployments,
  commands, edits, env, types, loaded, reporting, cfg, stage, expanded, specs,
  pending, stack, built, builds, next, reason, loads, faults>>
NotAgentWorkspace == <<part, dep, cmd, agent, known, cold, late, active, reg, srv,
  toAgent, toPlane, h, slots, proc, extern, disk, os, pids, doubt, breaks, exits,
  row, pend, asked, requests, worker, live, edit, job, deployments, commands, edits,
  env, types, loaded, reporting, cfg, stage, expanded, specs, pending, stack, built,
  builds, next, reason, loads, faults>>
NotConnectorStore == <<part, dep, cmd, agent, known, cold, late, active, reg, srv,
  toAgent, toPlane, me, h, slots, proc, extern, disk, os, pids, doubt, breaks,
  crashes, exits, conf, ident, rows, assigned, pkg, dir, venv, marker, setups,
  worker, live, edit, job, deployments, commands, edits, env, types, loaded,
  reporting, cfg, stage, expanded, specs, pending, stack, built, builds, next,
  reason, loads, faults>>
NotWorkerBuilder == <<part, dep, cmd, agent, known, cold, late, active, reg, srv,
  toAgent, toPlane, me, h, slots, proc, extern, disk, os, pids, doubt, breaks,
  crashes, exits, conf, ident, rows, assigned, pkg, dir, venv, marker, setups, row,
  pend, asked, requests, env, types, loaded, reporting, cfg, stage, expanded, specs,
  pending, stack, built, builds, next, reason, loads, faults>>
NotAppConfig == <<part, dep, cmd, agent, known, cold, late, active, reg, srv,
  toAgent, toPlane, me, h, slots, proc, extern, disk, os, pids, doubt, breaks,
  crashes, exits, conf, ident, rows, assigned, pkg, dir, venv, marker, setups, row,
  pend, asked, requests, worker, live, edit, job, deployments, commands, edits>>

Init ==
  \/ /\ \/ part = "session" /\ Session!Init
        \/ part = "faults" /\ Faults!Init
        \/ part = "crash" /\ Crashes!Init
        \/ part = "exits" /\ Exits!Init
        \/ part = "caps" /\ Limited!Init
        \/ part = "refused" /\ Refusing!Init
     /\ conf = Off /\ ident = Off /\ rows = Off /\ assigned = Off /\ pkg = Off
     /\ dir = Off /\ venv = Off /\ marker = Off /\ setups = Off /\ row = Off
     /\ pend = Off /\ asked = Off /\ requests = Off /\ worker = Off /\ live = Off
     /\ edit = Off /\ job = Off /\ deployments = Off /\ commands = Off
     /\ edits = Off /\ env = Off /\ types = Off /\ loaded = Off
     /\ reporting = Off /\ cfg = Off /\ stage = Off /\ expanded = Off
     /\ specs = Off /\ pending = Off /\ stack = Off /\ built = Off
     /\ builds = Off /\ next = Off /\ reason = Off /\ loads = Off /\ faults = Off
  \/ /\ part = "workspace" /\ Workspace!Init
     /\ dep = Off /\ cmd = Off /\ agent = Off /\ known = Off /\ cold = Off
     /\ late = Off /\ active = Off /\ reg = Off /\ srv = Off /\ toAgent = Off
     /\ toPlane = Off /\ h = Off /\ slots = Off /\ proc = Off /\ extern = Off
     /\ disk = Off /\ os = Off /\ pids = Off /\ doubt = Off /\ breaks = Off
     /\ exits = Off /\ row = Off /\ pend = Off /\ asked = Off /\ requests = Off
     /\ worker = Off /\ live = Off /\ edit = Off /\ job = Off
     /\ deployments = Off /\ commands = Off /\ edits = Off /\ env = Off
     /\ types = Off /\ loaded = Off /\ reporting = Off /\ cfg = Off
     /\ stage = Off /\ expanded = Off /\ specs = Off /\ pending = Off
     /\ stack = Off /\ built = Off /\ builds = Off /\ next = Off /\ reason = Off
     /\ loads = Off /\ faults = Off
  \/ /\ \/ part = "server" /\ ServerUrls!Init
        \/ part = "sql" /\ SqlUrls!Init
     /\ dep = Off /\ cmd = Off /\ agent = Off /\ known = Off /\ cold = Off
     /\ late = Off /\ active = Off /\ reg = Off /\ srv = Off /\ toAgent = Off
     /\ toPlane = Off /\ me = Off /\ h = Off /\ slots = Off /\ proc = Off
     /\ extern = Off /\ disk = Off /\ os = Off /\ pids = Off /\ doubt = Off
     /\ breaks = Off /\ crashes = Off /\ exits = Off /\ conf = Off /\ ident = Off
     /\ rows = Off /\ assigned = Off /\ pkg = Off /\ dir = Off /\ venv = Off
     /\ marker = Off /\ setups = Off /\ worker = Off /\ live = Off /\ edit = Off
     /\ job = Off /\ deployments = Off /\ commands = Off /\ edits = Off
     /\ env = Off /\ types = Off /\ loaded = Off /\ reporting = Off /\ cfg = Off
     /\ stage = Off /\ expanded = Off /\ specs = Off /\ pending = Off
     /\ stack = Off /\ built = Off /\ builds = Off /\ next = Off /\ reason = Off
     /\ loads = Off /\ faults = Off
  \/ /\ \/ part = "workers" /\ Workers!Init
        \/ part = "commands" /\ Started!Init
        \/ part = "refs" /\ Referring!Init
     /\ dep = Off /\ cmd = Off /\ agent = Off /\ known = Off /\ cold = Off
     /\ late = Off /\ active = Off /\ reg = Off /\ srv = Off /\ toAgent = Off
     /\ toPlane = Off /\ me = Off /\ h = Off /\ slots = Off /\ proc = Off
     /\ extern = Off /\ disk = Off /\ os = Off /\ pids = Off /\ doubt = Off
     /\ breaks = Off /\ crashes = Off /\ exits = Off /\ conf = Off /\ ident = Off
     /\ rows = Off /\ assigned = Off /\ pkg = Off /\ dir = Off /\ venv = Off
     /\ marker = Off /\ setups = Off /\ row = Off /\ pend = Off /\ asked = Off
     /\ requests = Off /\ env = Off /\ types = Off /\ loaded = Off
     /\ reporting = Off /\ cfg = Off /\ stage = Off /\ expanded = Off
     /\ specs = Off /\ pending = Off /\ stack = Off /\ built = Off
     /\ builds = Off /\ next = Off /\ reason = Off /\ loads = Off /\ faults = Off
  \/ /\ \/ part = "graph" /\ Graph!Init
        \/ part = "types" /\ Typed!Init
        \/ part = "tasks" /\ TaskLists!Init
        \/ part = "env" /\ Environment!Init
     /\ dep = Off /\ cmd = Off /\ agent = Off /\ known = Off /\ cold = Off
     /\ late = Off /\ active = Off /\ reg = Off /\ srv = Off /\ toAgent = Off
     /\ toPlane = Off /\ me = Off /\ h = Off /\ slots = Off /\ proc = Off
     /\ extern = Off /\ disk = Off /\ os = Off /\ pids = Off /\ doubt = Off
     /\ breaks = Off /\ crashes = Off /\ exits = Off /\ conf = Off /\ ident = Off
     /\ rows = Off /\ assigned = Off /\ pkg = Off /\ dir = Off /\ venv = Off
     /\ marker = Off /\ setups = Off /\ row = Off /\ pend = Off /\ asked = Off
     /\ requests = Off /\ worker = Off /\ live = Off /\ edit = Off /\ job = Off
     /\ deployments = Off /\ commands = Off /\ edits = Off

Next ==
  \/ /\ \/ part = "session" /\ Session!Next
        \/ part = "faults" /\ Faults!Next
        \/ part = "crash" /\ Crashes!Next
        \/ part = "exits" /\ Exits!Next
        \/ part = "caps" /\ Limited!Next
        \/ part = "refused" /\ Refusing!Next
     /\ UNCHANGED NotWorkerDeployment
  \/ part = "workspace" /\ Workspace!Next /\ UNCHANGED NotAgentWorkspace
  \/ /\ \/ part = "server" /\ ServerUrls!Next
        \/ part = "sql" /\ SqlUrls!Next
     /\ UNCHANGED NotConnectorStore
  \/ /\ \/ part = "workers" /\ Workers!Next
        \/ part = "commands" /\ Started!Next
        \/ part = "refs" /\ Referring!Next
     /\ UNCHANGED NotWorkerBuilder
  \/ /\ \/ part = "graph" /\ Graph!Next
        \/ part = "types" /\ Typed!Next
        \/ part = "tasks" /\ TaskLists!Next
        \/ part = "env" /\ Environment!Next
     /\ UNCHANGED NotAppConfig

agents == Session!vars
configs == Graph!vars

(* The plane reads what it receives, the agent reconnects and works on, and a load of *)
(* a configuration, which waits for nobody, goes on. *)
Fairness ==
  /\ WF_agents(part = "session" /\ Session!Handle)
  /\ WF_agents(part = "session" /\ Session!Take)
  /\ WF_agents(part = "session" /\ Session!Connect)
  /\ WF_agents(part = "session" /\ Session!Leave)
  /\ WF_agents(part = "session" /\ Session!Beat)
  /\ WF_agents(part = "session" /\ Session!Boot)
  /\ \A e \in Session!Conns :
       WF_agents(/\ part = "session"
                 /\ Session!Hello(e) \/ Session!Enqueue(e) \/ Session!Receive(e) \/ Session!Close(e))
  /\ WF_agents(part = "caps" /\ Limited!Handle)
  /\ WF_agents(part = "caps" /\ Limited!Take)
  /\ WF_agents(part = "caps" /\ Limited!Connect)
  /\ WF_agents(part = "caps" /\ Limited!Leave)
  /\ WF_agents(part = "caps" /\ Limited!Beat)
  /\ WF_agents(part = "caps" /\ Limited!Boot)
  /\ \A e \in Limited!Conns :
       WF_agents(/\ part = "caps"
                 /\ Limited!Hello(e) \/ Limited!Enqueue(e) \/ Limited!Receive(e) \/ Limited!Close(e))
  /\ WF_configs(part = "env" /\ Environment!Step)

Spec == Init /\ [][Next]_vars /\ Fairness
--------------------------------------------------------------------------------
(* What runs is what was deployed: routing and session rows agree, a child process *)
(* has its slot and its record and is gone with its deployment, across breaks, exits *)
(* and crashes; a checked *)
(* workspace is whole and its identity its own; connectors give workers the URL and *)
(* the password that are shown; a started worker has its token and its connectors. *)
DeployedAsTold ==
  /\ part = "session" => Session!TypeOK /\ Session!StoppedIsGone /\ Session!SlotsFreed
  /\ part = "faults" => /\ Faults!Reachable /\ Faults!ChildrenRecorded
                        /\ Faults!OrphansExplained /\ Faults!StoppedIsGone
  /\ part = "crash" => /\ Crashes!ChildrenRecorded /\ Crashes!OrphansExplained
                       /\ Crashes!StoppedIsGone /\ Crashes!SlotsFreed
  /\ part = "exits" => /\ Exits!ChildrenRecorded /\ Exits!OrphansExplained
                       /\ Exits!StoppedIsGone
  /\ part = "caps" => Limited!Reachable /\ Limited!StoppedIsGone
  /\ part = "refused" => /\ Refusing!Reachable /\ Refusing!StoppedIsGone
                         /\ Refusing!SlotsFreed
  /\ part = "workspace" => /\ Workspace!TypeOK /\ Workspace!CheckedIsWhole
                           /\ Workspace!IdentityOwn
  /\ part = "server" => /\ ServerUrls!TypeOK /\ ServerUrls!RuntimeMatchesDisplay
                        /\ ServerUrls!UrlUsesPassword /\ ServerUrls!RenameKeeps
  /\ part = "sql" => SqlUrls!RuntimeMatchesDisplay /\ SqlUrls!SubmittedUrlStored
  /\ part = "workers" => /\ Workers!TypeOK /\ Workers!CustomReportingComplete
                         /\ Workers!PlatformForgetsToken /\ Workers!NoOrphanDeployment
                         /\ Workers!StartHasToken
  /\ part = "commands" => Started!StartHasToken
  /\ part = "refs" => Referring!CompiledRefs

(* A load ends with an application exactly for the configurations that are sound, *)
(* builds each resource once along its references, reports a cycle only where there *)
(* is one, recovers from plugins that failed, and misses no unset variable. *)
LoadsExactly ==
  /\ part = "graph" => /\ Graph!TypeOK /\ Graph!VerdictExact /\ Graph!StackBounded
                       /\ Graph!BuiltOnce /\ Graph!NoFalseCycle
  /\ part = "types" => Typed!CatalogExact /\ Typed!TablesAgree
  /\ part = "tasks" => TaskLists!VerdictExact
  /\ part = "env" => /\ Environment!RegistryRecovers /\ Environment!StrictEnvCatches
                     /\ Environment!StrictEnvExact

(* The answer of a command and the identity of a directory are final, a stored secret *)
(* is lost only with its connector, and a file never overrides the shell. *)
NothingOverwritten ==
  [][/\ part = "faults" => Faults!FinalStays
     /\ part = "caps" => Limited!FinalStays
     /\ part = "refused" => Refusing!FinalStays
     /\ part = "workspace" => Workspace!IdentityStays
     /\ part \in {"server", "sql"} => ServerUrls!SecretKept
     /\ part = "env" => Environment!ShellWins]_vars

(* Commands are answered, the plane counts the slots the agent uses or counted last *)
(* what a connection that the agent had left for another said, loads are over. *)
AllSettled ==
  /\ part = "session" => \A i \in DOMAIN cmd : cmd[i].done
  /\ part = "caps" => agent.used = Cardinality(slots) \/ late
  /\ part = "env" => Environment!Ended

(* While its connection holds, a session comes to rest with all commands answered; *)
(* after a break the plane's count of used slots is the agent's again, unless a late *)
(* heartbeat of the old connection was the last to change it; every load ends, cycles *)
(* and failing plugins included. *)
ComesToRest == <>[]AllSettled
==============================================================================
