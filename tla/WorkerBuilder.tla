---------------------------- MODULE WorkerBuilder ----------------------------
(* The worker builder of the control plane: a worker that operators edit      *)
(* (worker_service.py), the package compiled from it and its connectors       *)
(* (worker_compiler.py), and the deployments and commands made from the       *)
(* package.  Edits run in threads; deployments share the event loop and do    *)
(* not yield before their command is stored, so one is under way at a time.   *)
(* "" is an absent value; names, descriptions and field values are left out.  *)
EXTENDS Integers, FiniteSets, Sequences, SequencesExt

CONSTANTS Connectors, Tokens, MaxSinks,
          Clients,                      \* concurrent edits of the worker
          MaxEdits, MaxDeploys, MaxCmds \* bounds

VARIABLES worker,      \* the row: {} or one record
          live,        \* connectors that exist
          edit,        \* what each edit writes when it commits: {} or one record
          job,         \* the deployment under way: {} or one record
          deployments, \* [pkg, desired]: its compiled package and status
          commands,    \* [dep, kind, token]
          edits
vars == <<worker, live, edit, job, deployments, commands, edits>>

Opt(S) == S \cup {""}
Platform == [mode |-> "platform", endpoint |-> FALSE]
ReportingConfig == {Platform} \cup [mode : {"custom"}, endpoint : BOOLEAN]
Refs == [source : Opt(Connectors), sinks : BoundedSeq(Opt(Connectors), MaxSinks)]
Worker == [enabled : BOOLEAN, config : ReportingConfig, token : Opt(Tokens), package : BOOLEAN, refs : Refs]

-----------------------------------------------------------------------------
(* Editing *)

\* _validate_reporting_state: FALSE is a 422.
Valid(enabled, config, token) ==
  config.mode = "custom" /\ enabled => config.endpoint /\ token # ""

\* _prepare_reporting_for_update and _prepare_reporting_for_create (which starts
\* from the defaults): {} when refused.  A request that leaves a field out sends {}.
Prepared(stored, on, config, token) ==
  LET e == IF on = {} THEN stored.enabled ELSE CHOOSE b \in on : TRUE
      c == IF config = {} THEN stored.config ELSE CHOOSE x \in config : TRUE
      t == IF c.mode = "platform" THEN "" ELSE IF token # "" THEN token ELSE stored.token
  IN IF Valid(e, c, t) THEN {[enabled |-> e, config |-> c, token |-> t]} ELSE {}
Defaults == [enabled |-> TRUE, config |-> Platform, token |-> ""]

Init ==
  /\ worker = {} /\ live = Connectors /\ edit = [c \in Clients |-> {}] /\ job = {}
  /\ deployments = <<>> /\ commands = <<>> /\ edits = 0

Edited == edits < MaxEdits /\ edits' = edits + 1

\* create_worker.
Create(on, config, token, package, refs) ==
  /\ Edited /\ worker = {}
  /\ \E p \in Prepared(Defaults, on, config, token) :
       worker' = {[enabled |-> p.enabled, config |-> p.config, token |-> p.token,
                   package |-> package, refs |-> refs]}
  /\ UNCHANGED <<live, edit, job, deployments, commands>>

\* update_worker up to its commit; the sets are {} for fields not sent.  The
\* reporting fields are prepared together, if one is sent; columns that keep their value are
\* not written.
Compute(c, on, config, token, package, refs) ==
  /\ Edited /\ edit[c] = {}
  /\ \E w \in worker :
       \E p \in IF on = {} /\ config = {} /\ token = "" THEN {w} ELSE Prepared(w, on, config, token) :
       edit' = [edit EXCEPT ![c] =
         {[enabled |-> IF p.enabled = w.enabled THEN {} ELSE {p.enabled},
           config  |-> IF p.config = w.config THEN {} ELSE {p.config},
           token   |-> IF p.token = w.token THEN {} ELSE {p.token},
           package |-> package, refs |-> refs]}]
  /\ UNCHANGED <<worker, live, job, deployments, commands>>
New(sent, old) == IF sent = {} THEN old ELSE CHOOSE x \in sent : TRUE
Commit(c) ==
  /\ \E e \in edit[c] : worker' = {[f \in DOMAIN w |-> New(e[f], w[f])] : w \in worker}
  /\ edit' = [edit EXCEPT ![c] = {}]
  /\ UNCHANGED <<live, job, deployments, commands, edits>>

\* delete_worker; an edit that commits later finds no row and fails.
Delete ==
  /\ Edited /\ worker # {} /\ worker' = {}
  /\ edit' = [c \in Clients |-> {}]
  /\ UNCHANGED <<live, job, deployments, commands>>
\* delete_connector asks no worker.
DeleteConnector(k) ==
  /\ Edited /\ k \in live /\ live' = live \ {k}
  /\ UNCHANGED <<worker, edit, job, deployments, commands>>

-----------------------------------------------------------------------------
(* Compilation *)

\* _resolve_connectors: the connectors the worker refers to.
Used(refs) == ({refs.source} \cup Range(refs.sinks)) \ {""}

\* Mutant: one resource per reference.
KeysRepeated(refs) == SelectSeq(<<refs.source>> \o refs.sinks, LAMBDA k : k # "")
\* resolve_connector: the resources conn_0, conn_1, ... in order of first use.
Keys(refs) ==
  LET all == <<refs.source>> \o refs.sinks
      Add(ks, k) == IF k = "" \/ \E i \in DOMAIN ks : ks[i] = k THEN ks ELSE Append(ks, k)
  IN FoldLeft(Add, <<>>, all)
\* The key a resource's "connector" names, 0 for none.
KeyOf(refs, k) == IF k = "" THEN 0 ELSE CHOOSE i \in DOMAIN Keys(refs) : Keys(refs)[i] = k

\* _reporter_config.
ReporterOf(w) == IF ~w.enabled THEN "none" ELSE w.config.mode

\* compile_worker_yaml.
Compiled(w) ==
  [keys |-> Keys(w.refs), source |-> KeyOf(w.refs, w.refs.source),
   sinks |-> [i \in DOMAIN w.refs.sinks |-> KeyOf(w.refs, w.refs.sinks[i])],
   reporter |-> ReporterOf(w)]
\* compile_worker_package: 422 without a handler package, 404 for a connector
\* that is gone, an error for custom reporting without an endpoint.
Compiles(w) ==
  /\ w.package /\ Used(w.refs) \subseteq live
  /\ ReporterOf(w) = "custom" => w.config.endpoint

-----------------------------------------------------------------------------
(* Deployment *)

\* deploy_worker: the worker is read once; each step below is a commit.
Begin(desired) ==
  /\ job = {} /\ Len(deployments) < MaxDeploys
  /\ \E w \in worker : Compiles(w) /\ job' = {[w |-> w, pkg |-> Compiled(w), desired |-> desired, step |-> "package"]}
  /\ UNCHANGED <<worker, live, edit, deployments, commands, edits>>

\* create_worker_deployment: an agent that is not known ends the request.
UnknownAgent ==
  /\ \E j \in job : j.step = "package"
  /\ job' = {}
  /\ UNCHANGED <<worker, live, edit, deployments, commands, edits>>
Assign ==
  \E j \in job :
    /\ j.step = "package"
    /\ deployments' = Append(deployments, [pkg |-> j.pkg, desired |-> j.desired, for |-> j.w])
    /\ job' = IF j.desired = "running" THEN {[j EXCEPT !.step = "command"]} ELSE {}
    /\ UNCHANGED <<worker, live, edit, commands, edits>>

\* _deployment_runtime_env: the token to add; {} is a 422.
RuntimeEnv(w) ==
  IF ~w.enabled \/ w.config.mode # "custom" THEN {""}
  ELSE IF w.token = "" THEN {} ELSE {w.token}
\* create_start_deployment_command, with the environment of the worker.
Start ==
  \E j \in job :
    /\ j.step = "command"
    /\ commands' = commands \o [i \in 1..Cardinality(RuntimeEnv(j.w)) |->
                      [dep |-> Len(deployments), kind |-> "start", token |-> CHOOSE t \in RuntimeEnv(j.w) : TRUE]]
    /\ job' = {}
    /\ UNCHANGED <<worker, live, edit, deployments, edits>>

Ready(d) == job = {} \/ d < Len(deployments) \/ \A j \in job : j.step = "package"
\* create_stop_deployment_command.
Stop(d) ==
  /\ Ready(d) /\ Len(commands) < MaxCmds
  /\ deployments' = [deployments EXCEPT ![d].desired = "stopped"]
  /\ commands' = Append(commands, [dep |-> d, kind |-> "stop", token |-> ""])
  /\ UNCHANGED <<worker, live, edit, job, edits>>
\* restart_worker_deployment_endpoint: the environment of the deployment's row.
Restart(d) ==
  /\ Ready(d) /\ Len(commands) < MaxCmds
  /\ deployments' = [deployments EXCEPT ![d].desired = "running"]
  /\ commands' = Append(commands, [dep |-> d, kind |-> "restart", token |-> ""])
  /\ UNCHANGED <<worker, live, edit, job, edits>>

On == {{}, {TRUE}, {FALSE}}
Configs == {{}} \cup {{x} : x \in ReportingConfig}
Next ==
  \/ \E on \in On, config \in Configs, token \in Opt(Tokens), package \in BOOLEAN, refs \in Refs :
       Create(on, config, token, package, refs)
  \/ \E c \in Clients, on \in On, config \in Configs, token \in Opt(Tokens) :
       Compute(c, on, config, token, {}, {})
  \/ \E c \in Clients, package \in BOOLEAN, refs \in Refs : Compute(c, {}, {}, "", {package}, {refs})
  \/ \E c \in Clients : Commit(c)
  \/ Delete
  \/ \E k \in Connectors : DeleteConnector(k)
  \/ \E desired \in {"running", "stopped"} : Begin(desired)
  \/ UnknownAgent \/ Assign \/ Start
  \/ \E d \in DOMAIN deployments : Stop(d) \/ Restart(d)
Spec == Init /\ [][Next]_vars

-----------------------------------------------------------------------------
\* Every variable has its type.
TypeOK ==
  /\ worker \subseteq Worker /\ Cardinality(worker) <= 1 /\ live \subseteq Connectors
  /\ Cardinality(job) <= 1 /\ Len(deployments) <= MaxDeploys
  /\ \A i \in DOMAIN commands : commands[i].dep \in DOMAIN deployments /\ commands[i].token \in Opt(Tokens)

\* Custom reporting that is switched on has its endpoint and its token, whatever
\* sequence of edits switched it on.
CustomReportingComplete == \A w \in worker : Valid(w.enabled, w.config, w.token)

\* A worker that reports to the platform keeps no token of an earlier endpoint.
PlatformForgetsToken == \A w \in worker : w.config.mode = "platform" => w.token = "" /\ ~w.config.endpoint

\* A deployment that should run was given a command to start, unless the request
\* that created it is still under way: it does not fail between the two commits.
NoOrphanDeployment ==
  \A d \in DOMAIN deployments :
    deployments[d].desired = "running" /\ Ready(d) => \E i \in DOMAIN commands : commands[i].dep = d

\* A start command carries the token its package refers to, that of the worker
\* as it was compiled, and no token when the package refers to none.
StartHasToken ==
  \A i \in DOMAIN commands : commands[i].kind = "start" =>
    LET d == deployments[commands[i].dep]
    IN commands[i].token = (IF d.pkg.reporter = "custom" THEN d.for.token ELSE "")

\* In a compiled package every source and sink names the connector its worker
\* refers to, and no connector appears twice.
CompiledRefs ==
  \A d \in DOMAIN deployments :
    LET p == deployments[d].pkg
        r == deployments[d].for.refs
        Names(i, k) == IF k = "" THEN i = 0 ELSE i \in DOMAIN p.keys /\ p.keys[i] = k
    IN /\ Names(p.source, r.source)
       /\ \A i \in DOMAIN r.sinks : Names(p.sinks[i], r.sinks[i])
       /\ Len(p.keys) = Cardinality(Used(r))

\* Every command that starts a deployment's processes carries the token its
\* package refers to.
TokenReachesAgent ==
  \A i \in DOMAIN commands :
    commands[i].kind # "stop" /\ deployments[commands[i].dep].pkg.reporter = "custom" => commands[i].token # ""
=============================================================================
