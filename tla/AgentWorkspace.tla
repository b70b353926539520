--------------------------- MODULE AgentWorkspace ---------------------------
(* What a worker agent keeps on disk between runs: its configuration and      *)
(* identity (cli.py, config.py, identity.py), the packages it extracts        *)
(* (packages.py) and the virtualenvs it installs (supervisor.py), with the    *)
(* control plane's side of registration, upload and download.  Files are      *)
(* written in place: a crash leaves a torn file.  pip is not atomic either.   *)
EXTENDS Integers, FiniteSets

CONSTANTS Dirs, Default,   \* worker-agent directories; the default one
          Packages, MaxVersion,
          Downgrades,      \* may an older agent be installed again?
          MaxCrashes, MaxSetups   \* bounds

None == "none"
Torn == "torn"
NoId == 0       \* identity.json is missing
TornId == -1    \* it cannot be read

VARIABLES conf,    \* config.json: None, Torn or a directory
          ident,   \* identity.json by directory
          rows,    \* agents registered with the control plane
          assigned, \* deployments: agent id and package
          pkg,     \* uploaded packages: how their entrypoint and install mode came out
          me,      \* the agent process
          dir,     \* extracted package directories
          venv, marker,   \* per package: environment contents, .installed
          crashes, setups
vars == <<conf, ident, rows, assigned, pkg, me, dir, venv, marker, crashes, setups>>

Modes == {"runtime", "package", "requirements", "package+requirements"}
\* detect_install_mode decides how many pip commands follow the runtime's.
Extra(mode) == CASE mode = "runtime" -> 0 [] mode \in {"package", "requirements"} -> 1
                 [] mode = "package+requirements" -> 2
Down == [step |-> "down", dir |-> None, id |-> 0, version |-> 1, p |-> None, i |-> 0]

Init ==
  /\ conf = None /\ rows = 0 /\ assigned = {} /\ me = Down /\ crashes = 0 /\ setups = 0
  /\ ident = [d \in Dirs |-> NoId]
  /\ pkg = [p \in Packages |-> [entry |-> None, mode |-> None]]
  /\ dir = [p \in Packages |-> None]
  /\ venv = [p \in Packages |-> [made |-> FALSE, base |-> 0, extra |-> 0]]
  /\ marker = [p \in Packages |-> 0]

-----------------------------------------------------------------------------
(* Setup and start *)

\* setup: an existing configuration is kept unless --force; one that cannot be
\* read fails the command.  save_stored_config writes in place.
SetupWrites(force) == conf = None \/ (conf \in Dirs /\ force)
Setup ==
  /\ me.step = "down" /\ setups < MaxSetups /\ setups' = setups + 1
  /\ \E force \in BOOLEAN : SetupWrites(force)
  /\ \E d \in Dirs : conf' = d
  /\ UNCHANGED <<ident, rows, assigned, pkg, me, dir, venv, marker, crashes>>
SetupCrash ==
  /\ me.step = "down" /\ setups < MaxSetups /\ setups' = setups + 1
  /\ SetupWrites(TRUE) /\ conf' = Torn
  /\ UNCHANGED <<ident, rows, assigned, pkg, me, dir, venv, marker, crashes>>

\* load_config: the environment, else the file, else the default.
WorkDir(env) == IF env # None THEN env ELSE IF conf = None THEN Default ELSE conf

\* run: load_config, load_identity; what cannot be read ends the process.
Load(env) ==
  /\ me.step = "down" /\ conf # Torn /\ ident[WorkDir(env)] # TornId
  /\ me' = [me EXCEPT !.dir = WorkDir(env),
                      !.id = ident[WorkDir(env)],
                      !.step = IF ident[WorkDir(env)] = NoId THEN "register" ELSE "ready"]
  /\ UNCHANGED <<conf, ident, rows, assigned, pkg, dir, venv, marker, crashes, setups>>

\* register_agent and register_worker_agent: a new row every time.
Register ==
  /\ me.step = "register" /\ rows' = rows + 1
  /\ me' = [me EXCEPT !.id = rows + 1, !.step = "save"]
  /\ UNCHANGED <<conf, ident, assigned, pkg, dir, venv, marker, crashes, setups>>
\* An invalid token, an unconfigured plane or no plane at all.
RegisterFails ==
  /\ me.step = "register" /\ me' = [Down EXCEPT !.version = me.version]
  /\ UNCHANGED <<conf, ident, rows, assigned, pkg, dir, venv, marker, crashes, setups>>

\* save_identity: the file is truncated, then written.
SaveIdentity ==
  /\ me.step \in {"save", "saving"}
  /\ ident' = [ident EXCEPT ![me.dir] = IF me.step = "save" THEN TornId ELSE me.id]
  /\ me' = [me EXCEPT !.step = IF me.step = "save" THEN "saving" ELSE "ready"]
  /\ UNCHANGED <<conf, rows, assigned, pkg, dir, venv, marker, crashes, setups>>

Crash ==
  /\ me.step # "down" /\ crashes < MaxCrashes /\ crashes' = crashes + 1
  /\ me' = [Down EXCEPT !.version = me.version]
  /\ UNCHANGED <<conf, ident, rows, assigned, pkg, dir, venv, marker, setups>>

\* An operator installs another version of the agent.
Upgrade ==
  /\ me.step = "down"
  /\ \E v \in 1..MaxVersion : (v > me.version \/ Downgrades) /\ me' = [me EXCEPT !.version = v]
  /\ UNCHANGED <<conf, ident, rows, assigned, pkg, dir, venv, marker, crashes, setups>>

-----------------------------------------------------------------------------
(* Packages *)

Manifests == {"not_zip", "absent", "bad", "no_entry", "blank", "long", "named"}
\* _resolve_workflow_package_entrypoint: the request, the manifest, the default.
Entrypoint(given, manifest) ==
  CASE given -> "request"
    [] ~given /\ manifest \in {"not_zip", "absent", "no_entry"} -> "default"
    [] ~given /\ manifest \in {"blank", "long"} -> None
    [] ~given /\ manifest = "named" -> "manifest"

\* create_workflow_package: a manifest that is not an object is refused first.
Upload(p) ==
  /\ pkg[p].entry = None
  /\ \E given \in BOOLEAN, manifest \in Manifests \ {"bad"}, mode \in Modes :
       /\ Entrypoint(given, manifest) # None
       /\ pkg' = [pkg EXCEPT ![p] = [entry |-> Entrypoint(given, manifest), mode |-> mode]]
  /\ UNCHANGED <<conf, ident, rows, assigned, me, dir, venv, marker, crashes, setups>>

Deploy(p) ==
  /\ pkg[p].entry # None /\ \E id \in 1..rows : assigned' = assigned \cup {<<id, p>>}
  /\ UNCHANGED <<conf, ident, rows, pkg, me, dir, venv, marker, crashes, setups>>

\* download_workflow_package_endpoint: only to an agent it is assigned to.
\* extract_package verifies everything, then replaces the directory.
Extract(p) ==
  /\ me.step = "ready" /\ <<me.id, p>> \in assigned
  /\ dir' = [dir EXCEPT ![p] = "partial"] /\ me' = [me EXCEPT !.p = p, !.step = "extract"]
  /\ UNCHANGED <<conf, ident, rows, assigned, pkg, venv, marker, crashes, setups>>

Extracted ==
  /\ me.step = "extract" /\ dir' = [dir EXCEPT ![me.p] = "whole"]
  /\ me' = [me EXCEPT !.step = IF marker[me.p] = me.version THEN "check" ELSE "install", !.i = 0]
  /\ UNCHANGED <<conf, ident, rows, assigned, pkg, venv, marker, crashes, setups>>

-----------------------------------------------------------------------------
(* SubprocessSupervisor.install *)

\* _run_subprocess: command i begins; 0 creates the environment, 1 installs
\* the runtime, the others the package.  What it replaces is no longer whole.
Begin ==
  /\ me.step = "install" /\ me.i < 2 + Extra(pkg[me.p].mode)
  /\ venv' = CASE me.i = 0 -> [venv EXCEPT ![me.p].made = TRUE]
               [] me.i = 1 -> [venv EXCEPT ![me.p].base = 0]
               [] me.i > 1 -> [venv EXCEPT ![me.p].extra = me.i - 2]
  /\ me' = [me EXCEPT !.step = "command"]
  /\ UNCHANGED <<conf, ident, rows, assigned, pkg, dir, marker, crashes, setups>>
End ==
  /\ me.step = "command"
  /\ venv' = CASE me.i = 0 -> venv
               [] me.i = 1 -> [venv EXCEPT ![me.p].base = me.version]
               [] me.i > 1 -> [venv EXCEPT ![me.p].extra = me.i - 1]
  /\ me' = [me EXCEPT !.step = "install", !.i = @ + 1]
  /\ UNCHANGED <<conf, ident, rows, assigned, pkg, dir, marker, crashes, setups>>
\* InstallError: the partial environment is kept, the deployment fails.
InstallFails ==
  /\ me.step = "command" /\ me' = [me EXCEPT !.step = "ready", !.p = None]
  /\ UNCHANGED <<conf, ident, rows, assigned, pkg, dir, venv, marker, crashes, setups>>

\* Mutant: the marker is written before the package's own requirements.
MarkEarly ==
  /\ me.step = "install" /\ me.i >= 2
  /\ marker' = [marker EXCEPT ![me.p] = me.version]
  /\ me' = [me EXCEPT !.step = IF me.i = 2 + Extra(pkg[me.p].mode) THEN "check" ELSE "install"]
  /\ UNCHANGED <<conf, ident, rows, assigned, pkg, dir, venv, crashes, setups>>
Mark ==
  /\ me.step = "install" /\ me.i = 2 + Extra(pkg[me.p].mode)
  /\ marker' = [marker EXCEPT ![me.p] = me.version] /\ me' = [me EXCEPT !.step = "check"]
  /\ UNCHANGED <<conf, ident, rows, assigned, pkg, dir, venv, crashes, setups>>

Checked ==
  /\ me.step = "check" /\ me' = [me EXCEPT !.step = "ready", !.p = None]
  /\ UNCHANGED <<conf, ident, rows, assigned, pkg, dir, venv, marker, crashes, setups>>

Next ==
  \/ Setup \/ SetupCrash \/ Register \/ RegisterFails \/ SaveIdentity \/ Crash \/ Upgrade
  \/ \E env \in Dirs \cup {None} : Load(env)
  \/ \E p \in Packages : Upload(p) \/ Deploy(p) \/ Extract(p)
  \/ Extracted \/ Begin \/ End \/ InstallFails \/ Mark \/ Checked
Spec == Init /\ [][Next]_vars

\* The agent is started again without overrides, and registers in the end.
FairSpec == Spec /\ WF_vars(Load(None)) /\ SF_vars(Register) /\ WF_vars(SaveIdentity)

-----------------------------------------------------------------------------
(* Properties *)

\* The type invariant.
TypeOK ==
  /\ conf \in Dirs \cup {None, Torn} /\ rows \in Nat
  /\ \A d \in Dirs : ident[d] \in -1..rows
  /\ me.step \in {"down", "register", "save", "saving", "ready", "extract", "install", "command", "check"}

\* The check, and the run that follows it, see the whole package and an
\* environment with all that this version of the agent and the package ask for.
CheckedIsWhole == me.step = "check" =>
  /\ dir[me.p] = "whole" /\ venv[me.p].made
  /\ venv[me.p].base = me.version /\ venv[me.p].extra = Extra(pkg[me.p].mode)

\* An identity once stored is the agent's for good: no two directories share
\* one, and a restart never replaces it.
IdentityStays ==
  \A d \in Dirs : ident[d] > 0 => ident'[d] = ident[d]
IdentityOwn == \A c, d \in Dirs : ident[c] = ident[d] /\ ident[c] > 0 => c = d

\* The agent registers once: one row for each directory it runs in.
RegistersOnce == me.step # "save" => rows <= Cardinality({d \in Dirs : ident[d] # NoId})

\* An agent that is started again and again gets to its control loop.
StartsInTheEnd == []<>(me.step \notin {"down", "register", "save", "saving"})
=============================================================================
