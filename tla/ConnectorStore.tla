--------------------------- MODULE ConnectorStore ---------------------------
(* A connector stored by the control plane (connector_service.py): the fields *)
(* shown to the operator, and the secret, which holds the password and the    *)
(* URL (or DSN) that deployed workers are given.  The two are kept in step by *)
(* normalize_connector_storage.  "" is an absent value.  A URL has a host.    *)
(* Names, which a duplicate check refuses before anything is written, and     *)
(* encryption are left out.                                                   *)
EXTENDS Integers, FiniteSets

CONSTANTS Kind,                       \* "sql" (mysql, postgres) or "server" (redis, rabbitmq)
          Hosts, Users, Paths, Passwords,   \* values a request may hold; Users stands for the port as well
          Schemes,                    \* schemes of submitted URLs; "default" is the one the code writes
          Partial,                    \* may a URL leave parts out
          NoDatabase,                 \* may a request name a host and no database
          Clients, MaxRequests        \* concurrent requests; bound

VARIABLES row,      \* the row: {} or one record
          pend,     \* what each request writes when it commits: {} or one record
          asked,    \* ghost: the URL the last finished request sent on its own
          requests
vars == <<row, pend, asked, requests>>

Opt(S) == S \cup {""}
Config == [host : Opt(Hosts), user : Opt(Users), path : Opt(Paths)]
NoConfig == [host |-> "", user |-> "", path |-> ""]
NoUrl == [scheme |-> "", host |-> "", user |-> "", pw |-> "", path |-> ""]
Url == {u \in [scheme : Schemes, host : Hosts, user : Opt(Users), pw : Opt(Passwords), path : Opt(Paths)] :
          ~Partial => "" \notin {u.user, u.pw, u.path}}
Secret == [url : Url \cup {NoUrl}, password : Opt(Passwords)]

-----------------------------------------------------------------------------
\* {**low, **high}: what is given in high wins.
Over(high, low) == [f \in DOMAIN low |-> IF high[f] # "" THEN high[f] ELSE low[f]]
\* _display_parts_from_url and _secret_parts_from_url.
Shown(u) == [host |-> u.host, user |-> u.user, path |-> u.path]

\* _netloc with _build_database_dsn, _build_redis_url and _build_rabbitmq_url.
Rebuilt(cfg, sec) ==
  IF cfg.host = "" \/ (Kind = "sql" /\ cfg.path = "") THEN sec.url
  ELSE [scheme |-> "default", host |-> cfg.host, user |-> cfg.user, pw |-> sec.password, path |-> cfg.path]

\* normalize_connector_storage.
Normalize(cfg, sec, prefer) ==
  LET parts == sec.url # NoUrl /\ (prefer \/ cfg.host = "")
      c == IF ~parts THEN cfg
           ELSE IF prefer THEN Over(Shown(sec.url), cfg) ELSE Over(cfg, Shown(sec.url))
      takes == sec.url # NoUrl /\ sec.url.pw # "" /\ (prefer \/ sec.password = "")
      s == IF takes THEN [sec EXCEPT !.password = sec.url.pw] ELSE sec
  IN [config |-> c, secret |-> [s EXCEPT !.url = Rebuilt(c, s)]]

\* _display_config.
Display(r) == IF r.config.host # "" THEN r.config
              ELSE IF r.secret.url # NoUrl THEN Over(r.config, Shown(r.secret.url))
              ELSE r.config
\* build_runtime_connector_payload: of the fields modelled, the URL alone.
Runtime(r) == r.secret.url

-----------------------------------------------------------------------------
\* A request's config, and its secret fields.
SentConfig == {c \in Config : c.host # "" /\ Kind = "sql" /\ ~NoDatabase => c.path # ""}
SentSecret == {s \in Secret : Kind = "sql" /\ ~NoDatabase /\ s.url # NoUrl => s.url.path # ""}

Init == row = {} /\ pend = [c \in Clients |-> {}] /\ asked = NoUrl /\ requests = 0

\* The row's id is only known once it is there, so creation has no rival.
Create(cfg, sec) ==
  /\ requests < MaxRequests /\ requests' = requests + 1
  /\ row = {} /\ row' = {Normalize(cfg, sec, FALSE)}
  /\ asked' = IF cfg = NoConfig /\ sec.password = "" THEN sec.url ELSE NoUrl
  /\ UNCHANGED pend

\* Mutant: a blank value of the request clears the stored one.
BlankClears(stored, sent) == sent
\* A blank value leaves the stored one.
Merged(stored, sent) ==
  [url |-> IF sent.url = NoUrl THEN stored.url ELSE sent.url,
   password |-> IF sent.password = "" THEN stored.password ELSE sent.password]

\* update_connector up to its commit.  cfgs is {} when no config is sent; keyed:
\* the request names the URL field, blank or not.  The ORM writes the columns
\* whose value changed; the encrypted one always does.
Compute(c, cfgs, sec, keyed) ==
  /\ requests < MaxRequests /\ requests' = requests + 1
  /\ pend[c] = {}
  /\ \E r \in row :
       LET base == IF cfgs = {} THEN r.config ELSE CHOOSE x \in cfgs : TRUE
           new == Normalize(base, Merged(r.secret, sec), cfgs = {} /\ keyed)
       IN pend' = [pend EXCEPT ![c] = {[new |-> new, changed |-> new.config # r.config,
                                        alone |-> IF cfgs = {} /\ sec.password = "" THEN sec.url ELSE NoUrl]}]
  /\ UNCHANGED <<row, asked>>
Commit(c) ==
  \E w \in pend[c] :
    /\ row' = {[config |-> IF w.changed THEN w.new.config ELSE r.config, secret |-> w.new.secret] : r \in row}
    /\ asked' = w.alone
    /\ pend' = [pend EXCEPT ![c] = {}]
    /\ UNCHANGED requests

\* delete_connector.  An update that commits later finds no row and fails.
Delete ==
  /\ requests < MaxRequests /\ requests' = requests + 1
  /\ row # {} /\ row' = {} /\ asked' = NoUrl
  /\ pend' = [c \in Clients |-> {}]

Rename(c) == Compute(c, {}, [url |-> NoUrl, password |-> ""], FALSE)
Update(c) ==
  \E sec \in SentSecret, keyed \in BOOLEAN :
    /\ sec.url # NoUrl => keyed
    /\ Compute(c, {}, sec, keyed) \/ \E cfg \in SentConfig : Compute(c, {cfg}, sec, keyed)
Next ==
  \/ \E cfg \in SentConfig, sec \in SentSecret : Create(cfg, sec)
  \/ \E c \in Clients : Rename(c) \/ Update(c) \/ Commit(c)
  \/ Delete
  \/ (requests = MaxRequests /\ (\A c \in Clients : pend[c] = {}) /\ UNCHANGED vars)
Spec == Init /\ [][Next]_vars

-----------------------------------------------------------------------------
\* Every variable has its type; stored URLs carry a submitted scheme or the default one.
TypeOK ==
  /\ row \subseteq [config : Config,
                    secret : [url : [scheme : Schemes \cup {"default", ""}, host : Opt(Hosts), user : Opt(Users),
                                     pw : Opt(Passwords), path : Opt(Paths)],
                              password : Opt(Passwords)]]
  /\ Cardinality(row) <= 1 /\ requests \in 0..MaxRequests

\* The URL that deployed workers are given is the one the operator is shown.
RuntimeMatchesDisplay ==
  \A r \in row : Runtime(r) # NoUrl => Shown(Runtime(r)) = Display(r)

\* The URL carries the stored password: after an edit of either, no worker is
\* given the old one.
UrlUsesPassword == \A r \in row : Runtime(r) # NoUrl => Runtime(r).pw = r.secret.password

\* A URL that is sent on its own is the one stored.
SubmittedUrlStored == \A r \in row : asked # NoUrl => r.secret.url = asked

\* A secret, once there, is only lost with its connector: blank fields of an
\* edit keep it, however the edits follow one another.
SecretKept ==
  \A r \in row, q \in row' : /\ r.secret.password # "" => q.secret.password # ""
                            /\ r.secret.url # NoUrl => q.secret.url # NoUrl

\* Storing a connector again as it is changes nothing (an edit of its name).
RenameKeeps == \A r \in row : Normalize(r.config, r.secret, FALSE) = r
=============================================================================
