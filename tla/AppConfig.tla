------------------------------ MODULE AppConfig ------------------------------
(***************************************************************************)
(* Loading an application from its YAML file: the .env file, the strict    *)
(* check of environment references, the expansion, the plugins that        *)
(* register resource types, strict validation, the resources built along   *)
(* their references, the tasks, hooks and reporter. One process may load   *)
(* several applications, one after the other, with one environment and one *)
(* registry.                                                               *)
(***************************************************************************)
EXTENDS TLC, FiniteSets, Naturals, SequencesExt

CONSTANTS Configs,   \* the configurations that may be loaded
          Vars,      \* environment variables
          EnvFiles,  \* .env files: for each, the variables it defines
          Plugins,   \* the entry points: [name, types], in order
          MaxLoads,  \* loads of one process
          MaxFaults  \* plugins that fail to load

None == "-"

VARIABLES env,      \* os.environ: for each variable where its value comes from
          types,    \* ResourceRegistry._handlers
          loaded,   \* ResourceRegistry._loaded_entry_points
          reporting,\* the reporter plugin is registered
          cfg,      \* the configuration being loaded
          stage,    \* where load_yaml_app is
          expanded, \* what each environment reference became
          specs,    \* _collect_resource_specs
          pending,  \* the names resolve still has to be called for
          stack,    \* resolving
          built,    \* resources
          builds,   \* how often each was built in this load
          next,     \* the task being built
          reason,   \* why the load failed
          loads, faults

loading == <<cfg, expanded, specs, pending, stack, built, builds, next>>
vars == <<env, types, loaded, reporting, stage, reason, loads, faults, loading>>

-----------------------------------------------------------------------------
(* The resource types of onestep and of its plugins: the fields a          *)
(* definition may have, its catalog entry, what its builder checks and     *)
(* what strict validation checks before. A definition is a function from   *)
(* the fields that are written to their values: "null", "bad" (a value of  *)
(* the wrong type or range) or anything else, which is accepted; connector *)
(* and state hold the name of another resource.                            *)

(* A catalog entry; extra are the fields of the catalog that a definition  *)
(* may not have (the parts a connection URL is made of).                   *)
Entry(roles, conns, required, secret, extra) ==
    [roles |-> roles, conns |-> conns, required |-> required, secret |-> secret, extra |-> extra]

Both == {"source", "sink"}

Connector(required, secret, extra) == Entry({"connector"}, {}, required, secret, extra)

(* The checks of one function: fields that must be there, fields that may  *)
(* be absent or null, and fields that may be absent but not null.          *)
Checks(req, opt, nonnull) == [req |-> req, opt |-> opt, nonnull |-> nonnull]

(* A builder: the connectors it works with and what it checks itself. *)
Builder(conns, checks) == [conns |-> conns, checks |-> checks]

Written(spec, f) == f \in DOMAIN spec

Given(spec, f) == Written(spec, f) /\ spec[f] # "null"

Passes(checks, spec) ==
    /\ \A f \in checks.req : Given(spec, f) /\ spec[f] # "bad"
    /\ \A f \in checks.opt : Given(spec, f) => spec[f] # "bad"
    /\ \A f \in checks.nonnull : Written(spec, f) => spec[f] \notin {"null", "bad"}

UrlParts == {"host", "port", "username", "password"}

-----------------------------------------------------------------------------
(* Built-in types. *)
MemoryFields == [memory |-> {"name", "maxsize", "batch_size", "poll_interval_s"}]
MemoryCatalog == [memory |-> Entry(Both, {}, {"maxsize"}, {}, {})]
MemoryBuild == [memory |-> Builder({}, Checks({}, {}, {}))]
MemoryValidate == [memory |-> Checks({"maxsize"}, {"batch_size", "poll_interval_s"}, {})]

ScheduleCommon ==
    {"name", "payload", "immediate", "overlap", "timezone", "timezone_name", "poll_interval_s", "max_queued_runs"}
Durations == {"days", "hours", "minutes", "seconds"}

ScheduleFields == [interval |-> ScheduleCommon \union Durations, cron |-> ScheduleCommon \union {"expression"}]
ScheduleCatalog == [interval |-> Entry({"source"}, {}, {}, {}, {}), cron |-> Entry({"source"}, {}, {"expression"}, {}, {})]
ScheduleBuild == [interval |-> Builder({}, Checks({}, {}, {})), cron |-> Builder({}, Checks({"expression"}, {}, {}))]
ScheduleValidate == LET c == Checks({}, {"poll_interval_s"}, {"max_queued_runs"}) IN [interval |-> c, cron |-> c]

(* The constructor of an interval refuses a duration of zero. *)
IntervalRule(spec) == \E f \in Durations : Given(spec, f)

WebhookFields ==
    [webhook |-> {"name", "path", "methods", "host", "port", "parser", "auth", "response", "max_body_bytes",
                  "read_timeout_s", "queue_maxsize", "batch_size", "poll_interval_s"}]
WebhookCatalog == [webhook |-> Entry({"source"}, {}, {"path"}, {"auth"}, {})]
WebhookBuild == [webhook |-> Builder({}, Checks({"path"}, {"auth", "response"}, {"methods"}))]
WebhookValidate == [webhook |-> Checks({}, {"auth", "response"}, {})]

HttpFields == [http_sink |-> {"name", "url", "method", "headers", "params", "body", "timeout_s", "success_statuses"}]
HttpCatalog == [http_sink |-> Entry({"sink"}, {}, {"url"}, {"url", "headers", "params", "body"}, {})]
HttpBuild == [http_sink |-> Builder({}, Checks({"url"}, {"headers", "params"}, {}))]
HttpValidate ==
    [http_sink |-> Checks({"url"}, {"headers", "params", "body", "timeout_s", "success_statuses"}, {"method"})]

-----------------------------------------------------------------------------
(* Brokers. *)
KafkaFields ==
    [kafka |-> {"bootstrap_servers", "options"},
     kafka_topic |-> {"name", "connector", "topic", "group_id", "client_id", "batch_size", "poll_timeout_ms", "key",
                      "headers", "consumer_options", "producer_options"}]
KafkaCatalog ==
    [kafka |-> Connector({"bootstrap_servers"}, {"options"}, {}),
     kafka_topic |-> Entry(Both, {"kafka"}, {"connector", "topic"}, {}, {})]
KafkaBuild ==
    [kafka |-> Builder({}, Checks({"bootstrap_servers"}, {"options"}, {})),
     kafka_topic |-> Builder({"kafka"}, Checks({"connector"}, {"topic", "consumer_options", "producer_options"}, {}))]
KafkaValidate ==
    [kafka |-> Checks({"bootstrap_servers"}, {}, {"options"}),
     kafka_topic |-> Checks({"connector", "topic"}, {"group_id", "client_id", "headers"},
                            {"batch_size", "poll_timeout_ms", "consumer_options", "producer_options"})]

RabbitFields ==
    [rabbitmq |-> {"url", "options"},
     rabbitmq_queue |-> {"name", "queue", "connector", "routing_key", "exchange", "exchange_type", "bind",
                         "bind_arguments", "durable", "auto_delete", "exclusive", "arguments", "exchange_durable",
                         "exchange_auto_delete", "exchange_arguments", "prefetch", "batch_size", "poll_interval_s",
                         "publisher_confirms", "persistent"}]
RabbitCatalog ==
    [rabbitmq |-> Connector({"url"}, {"url", "password"}, UrlParts \union {"vhost"}),
     rabbitmq_queue |-> Entry(Both, {"rabbitmq"}, {"connector"}, {}, {})]
RabbitBuild ==
    [rabbitmq |-> Builder({}, Checks({"url"}, {"options"}, {})),
     rabbitmq_queue |-> Builder({"rabbitmq"},
         Checks({"connector"}, {"queue", "bind_arguments", "arguments", "exchange_arguments"}, {}))]

RedisFields ==
    [redis |-> {"url", "options"},
     redis_stream |-> {"name", "stream", "connector", "group", "consumer", "batch_size", "poll_interval_s", "block_ms",
                       "start_id", "create_group", "maxlen", "approximate_trim"}]
RedisCatalog ==
    [redis |-> Connector({"url"}, {"url", "password"}, UrlParts \union {"database"}),
     redis_stream |-> Entry(Both, {"redis"}, {"connector"}, {}, {})]
RedisBuild ==
    [redis |-> Builder({}, Checks({"url"}, {"options"}, {})),
     redis_stream |-> Builder({"redis"}, Checks({"connector"}, {"stream"}, {}))]

AwsFields == {"region_name", "options"}
SqsFields ==
    [sqs |-> AwsFields, sns |-> AwsFields,
     sqs_queue |-> {"name", "url", "connector", "wait_time_s", "visibility_timeout", "batch_size", "poll_interval_s",
                    "message_group_id", "deduplication_id_factory", "on_fail", "delete_batch_size",
                    "delete_flush_interval_s", "heartbeat_interval_s", "heartbeat_visibility_timeout"},
     sns_topic |-> {"name", "arn", "connector", "subject", "message_group_id", "deduplication_id_factory",
                    "message_attributes", "retry_delay_s"}]
SqsCatalog ==
    [sqs |-> Connector({}, {"options"}, {}), sns |-> Connector({}, {"options"}, {}),
     sqs_queue |-> Entry(Both, {"sqs"}, {"url", "connector"}, {"url"}, {}),
     sns_topic |-> Entry({"sink"}, {"sns"}, {"arn", "connector"}, {"arn"}, {})]
SqsBuild ==
    [sqs |-> Builder({}, Checks({}, {"options"}, {})), sns |-> Builder({}, Checks({}, {"options"}, {})),
     sqs_queue |-> Builder({"sqs"}, Checks({"url", "connector"}, {"deduplication_id_factory"}, {})),
     sns_topic |-> Builder({"sns"}, Checks({"arn", "connector"}, {"deduplication_id_factory"}, {}))]

CfFields ==
    [cf_queues |-> {"account_id", "api_token", "base_url", "timeout_s"},
     cf_queue |-> {"name", "queue_id", "connector", "batch_size", "visibility_timeout_ms", "poll_interval_s", "on_fail",
                   "ack_batch_size", "ack_flush_interval_s"}]
CfCatalog ==
    [cf_queues |-> Connector({"account_id", "api_token"}, {"api_token"}, {}),
     cf_queue |-> Entry(Both, {"cf_queues"}, {"queue_id", "connector"}, {}, {})]
CfBuild ==
    [cf_queues |-> Builder({}, Checks({"account_id", "api_token"}, {}, {})),
     cf_queue |-> Builder({"cf_queues"}, Checks({"queue_id", "connector"}, {}, {}))]

-----------------------------------------------------------------------------
(* Document stores and tables. *)
MongoFields ==
    [mongodb |-> {"uri", "database", "client_options"},
     mongodb_polling |-> {"connector", "collection", "cursor", "filter", "projection", "batch_size", "poll_interval_s",
                          "state", "state_key", "initial_cursor"},
     mongodb_change_stream |-> {"connector", "collection", "pipeline", "full_document", "max_await_time_ms",
                                "batch_size", "poll_interval_s", "state", "state_key"},
     mongodb_collection_sink |-> {"connector", "collection", "mode", "keys", "ordered", "batch_size"}]
MongoCatalog ==
    [mongodb |-> Connector({"uri", "database"}, {"uri", "client_options"}, {}),
     mongodb_polling |-> Entry({"source"}, {"mongodb"}, {"connector", "collection"}, {}, {}),
     mongodb_change_stream |-> Entry({"source"}, {"mongodb"}, {"connector", "collection"}, {}, {}),
     mongodb_collection_sink |-> Entry({"sink"}, {"mongodb"}, {"connector", "collection"}, {}, {})]
MongoBuild ==
    [mongodb |-> Builder({}, Checks({"uri", "database"}, {"client_options"}, {})),
     mongodb_polling |-> Builder({"mongodb"}, Checks({"connector", "collection"}, {"filter", "projection"}, {"cursor"})),
     mongodb_change_stream |-> Builder({"mongodb"}, Checks({"connector", "collection"}, {}, {"pipeline"})),
     mongodb_collection_sink |-> Builder({"mongodb"}, Checks({"connector", "collection"}, {"keys"}, {}))]
MongoValidate ==
    [mongodb |-> Checks({"uri", "database"}, {}, {"client_options"}),
     mongodb_polling |-> Checks({"connector", "collection"}, {"batch_size", "poll_interval_s", "initial_cursor"},
                                {"cursor", "filter", "projection"}),
     mongodb_change_stream |-> Checks({"connector", "collection"}, {"max_await_time_ms", "batch_size", "poll_interval_s"},
                                      {"pipeline", "full_document"}),
     mongodb_collection_sink |-> Checks({"connector", "collection"}, {"batch_size"}, {"mode", "keys"})]

(* An upsert needs its keys. *)
MongoSinkRule(spec) == Written(spec, "mode") /\ spec["mode"] = "upsert" => Written(spec, "keys")

ClickHouseFields ==
    [clickhouse |-> {"dsn", "client_options"},
     clickhouse_table_sink |-> {"connector", "table", "columns", "batch_size", "settings"}]
ClickHouseCatalog ==
    [clickhouse |-> Connector({"dsn"}, {"dsn", "client_options"}, {}),
     clickhouse_table_sink |-> Entry({"sink"}, {"clickhouse"}, {"connector", "table"}, {}, {})]
ClickHouseBuild ==
    [clickhouse |-> Builder({}, Checks({"dsn"}, {"client_options"}, {})),
     clickhouse_table_sink |-> Builder({"clickhouse"}, Checks({"connector", "table"}, {"columns", "settings"}, {}))]
ClickHouseValidate ==
    [clickhouse |-> Checks({"dsn"}, {}, {"client_options"}),
     clickhouse_table_sink |-> Checks({"connector", "table"}, {"batch_size"}, {"columns", "settings"})]

ElasticFields ==
    [elasticsearch |-> {"hosts", "distribution", "username", "password", "api_key", "bearer_token", "headers",
                        "verify_certs", "ca_certs", "client_cert", "client_key", "request_timeout_s"},
     elasticsearch_bulk_sink |-> {"connector", "index", "operation", "id_field", "chunk_size", "max_chunk_bytes",
                                  "refresh", "pipeline"}]
ElasticCatalog ==
    [elasticsearch |-> Connector({"hosts"}, {"password", "api_key", "bearer_token", "headers", "client_key"}, {}),
     elasticsearch_bulk_sink |-> Entry({"sink"}, {"elasticsearch"}, {"connector", "index"}, {}, {})]
ElasticBuild ==
    [elasticsearch |-> Builder({}, Checks({"hosts"}, {"headers"}, {})),
     elasticsearch_bulk_sink |-> Builder({"elasticsearch"}, Checks({"connector", "index"}, {}, {}))]
ElasticValidate ==
    [elasticsearch |-> Checks({"hosts"}, {"request_timeout_s"}, {"distribution", "headers"}),
     elasticsearch_bulk_sink |-> Checks({"connector", "index"}, {"chunk_size", "max_chunk_bytes"}, {"operation", "refresh"})]

(* User name and password go together, and exclude the other credentials. *)
ElasticAuthRule(spec) ==
    /\ Given(spec, "username") <=> Given(spec, "password")
    /\ Cardinality({f \in {"username", "api_key", "bearer_token"} : Given(spec, f)}) <= 1

FeishuRefs == {"connector", "app_token", "table_id"}
FeishuFields ==
    [feishu_bitable |-> {"app_id", "app_secret", "base_url", "timeout_s"},
     feishu_bitable_incremental |-> FeishuRefs \union
         {"cursor_field", "batch_size", "poll_interval_s", "fallback_scan_page_limit", "state", "state_key", "user_id_type"},
     feishu_bitable_table_sink |-> FeishuRefs \union
         {"mode", "match_fields", "user_id_type", "relations", "batch_size", "flush_interval_s", "insert_key_index",
          "insert_index_page_size", "insert_index_max_pages", "ambiguous_write_max_rounds"}]
FeishuCatalog ==
    [feishu_bitable |-> Connector({"app_id", "app_secret"}, {"app_secret"}, {}),
     feishu_bitable_incremental |->
         Entry({"source"}, {"feishu_bitable"}, FeishuRefs \union {"cursor_field"}, {"app_token"}, {}),
     feishu_bitable_table_sink |->
         Entry({"sink"}, {"feishu_bitable"}, FeishuRefs \union {"match_fields"}, {"app_token"}, {})]
FeishuBuild ==
    [feishu_bitable |-> Builder({}, Checks({"app_id", "app_secret"}, {}, {})),
     feishu_bitable_incremental |-> Builder({"feishu_bitable"}, Checks(FeishuRefs \union {"cursor_field"}, {}, {})),
     feishu_bitable_table_sink |-> Builder({"feishu_bitable"}, Checks(FeishuRefs, {}, {}))]
FeishuValidate ==
    [feishu_bitable |-> Checks({"app_id", "app_secret"}, {"timeout_s"}, {"base_url"}),
     feishu_bitable_incremental |-> Checks(FeishuRefs \union {"cursor_field"},
         {"batch_size", "poll_interval_s", "user_id_type"}, {"fallback_scan_page_limit", "state", "state_key"}),
     feishu_bitable_table_sink |-> Checks(FeishuRefs,
         {"user_id_type", "batch_size", "flush_interval_s", "insert_index_page_size", "insert_index_max_pages",
          "ambiguous_write_max_rounds"}, {"mode", "match_fields", "relations", "insert_key_index"})]

(* Every mode but create matches rows by fields; the index of inserted     *)
(* keys is for inserts without relations.                                  *)
FeishuSinkRule(spec) ==
    LET mode == IF Written(spec, "mode") THEN spec["mode"] ELSE "upsert"
    IN  /\ mode # "create" => Written(spec, "match_fields")
        /\ Written(spec, "insert_key_index") /\ spec["insert_key_index"] = "true"
              => mode = "insert" /\ ~Written(spec, "relations")

-----------------------------------------------------------------------------
(* The SQL connectors share their shapes. Their builders ask whether the   *)
(* connector has the method they call, and all three have it.              *)
DsnFields == {"dsn", "engine_options"}
StoreFields == {"connector", "table", "key_column", "value_column", "updated_at_column", "auto_create"}
QueueRequired == {"connector", "table", "key", "where", "claim", "ack"}
QueueFields == QueueRequired \union {"nack", "batch_size", "poll_interval_s"}

IncrRequired == {"connector", "table", "key", "cursor"}
IncrFields == IncrRequired \union {"where", "batch_size", "poll_interval_s", "state", "state_key"}
SinkFields == {"connector", "table", "mode", "keys", "update_columns", "update_expr", "serialize_json"}
BinlogFields == {"connector", "server_id", "schemas", "tables", "events", "batch_size", "poll_interval_s", "state",
                 "state_key", "blocking"}
ExecutionFields == {"connector", "namespace", "task_names", "table", "attempts_table", "batch_size", "poll_interval_s",
                    "lease_duration_s", "heartbeat_interval_s", "worker_id", "auto_create", "max_payload_bytes",
                    "max_metadata_bytes", "max_result_bytes", "reclaim_batch_size"}

DsnConnector(extra) == Connector({"dsn"}, {"dsn"} \union (extra \intersect {"password"}), extra)

SqlConnectors == {"mysql", "postgres", "sqlite"}
DsnBuild == Builder({}, Checks({"dsn"}, {"engine_options"}, {}))
StoreBuild == Builder(SqlConnectors, Checks({"connector"}, {}, {}))
QueueBuild == Builder(SqlConnectors, Checks(QueueRequired, {"nack"}, {}))
IncrBuild == Builder(SqlConnectors, Checks({"connector", "table", "key", "cursor"}, {}, {}))
SinkBuild == Builder(SqlConnectors, Checks({"connector", "table"}, {"keys", "update_columns", "update_expr"}, {}))
BinlogBuild == Builder({"mysql"}, Checks({"connector", "server_id"}, {"schemas", "tables", "events"}, {}))
ExecutionBuild == Builder({"postgres"}, Checks({"connector", "namespace", "task_names"}, {}, {}))

MySQLFields ==
    [mysql |-> DsnFields, mysql_state_store |-> StoreFields, mysql_cursor_store |-> StoreFields,
     mysql_table_queue |-> QueueFields, mysql_incremental |-> IncrFields, mysql_binlog |-> BinlogFields,
     mysql_table_sink |-> SinkFields]
MySQLCatalog ==
    [mysql |-> DsnConnector(UrlParts \union {"database"}),
     mysql_state_store |-> Entry({"state_store"}, {"mysql"}, {"connector"}, {}, {}),
     mysql_cursor_store |-> Entry({"cursor_store"}, {"mysql"}, {"connector"}, {}, {}),
     mysql_table_queue |-> Entry({"source"}, {"mysql"}, QueueRequired, {}, {}),
     mysql_incremental |-> Entry({"source"}, {"mysql"}, IncrRequired, {}, {}),
     mysql_binlog |-> Entry({"source"}, {"mysql"}, {"connector", "server_id"}, {}, {}),
     mysql_table_sink |-> Entry({"sink"}, {"mysql"}, {"connector", "table"}, {}, {})]
MySQLBuild ==
    [mysql |-> DsnBuild, mysql_state_store |-> StoreBuild, mysql_cursor_store |-> StoreBuild,
     mysql_table_queue |-> QueueBuild, mysql_incremental |-> IncrBuild, mysql_binlog |-> BinlogBuild,
     mysql_table_sink |-> SinkBuild]

PostgresFields ==
    [postgres |-> DsnFields, postgres_state_store |-> StoreFields, postgres_cursor_store |-> StoreFields,
     postgres_table_queue |-> QueueFields, postgres_incremental |-> IncrFields, postgres_table_sink |-> SinkFields,
     postgres_execution_source |-> ExecutionFields]
PostgresCatalog ==
    [postgres |-> DsnConnector(UrlParts \union {"database"}),
     postgres_state_store |-> Entry({"state_store"}, {"postgres"}, {"connector"}, {}, {}),
     postgres_cursor_store |-> Entry({"cursor_store"}, {"postgres"}, {"connector"}, {}, {}),
     postgres_table_queue |-> Entry({"source"}, {"postgres"}, QueueRequired, {}, {}),
     postgres_incremental |-> Entry({"source"}, {"postgres"}, IncrRequired, {}, {}),
     postgres_table_sink |-> Entry({"sink"}, {"postgres"}, {"connector", "table"}, {}, {}),
     postgres_execution_source |-> Entry({"source"}, {"postgres"}, {"connector", "namespace", "task_names"}, {}, {})]
PostgresBuild ==
    [postgres |-> DsnBuild, postgres_state_store |-> StoreBuild, postgres_cursor_store |-> StoreBuild,
     postgres_table_queue |-> QueueBuild, postgres_incremental |-> IncrBuild, postgres_table_sink |-> SinkBuild,
     postgres_execution_source |-> ExecutionBuild]
PostgresValidate ==
    [postgres_execution_source |-> Checks({"namespace", "task_names"},
         {"table", "attempts_table", "max_payload_bytes", "max_metadata_bytes", "max_result_bytes", "reclaim_batch_size"},
         {"batch_size", "poll_interval_s", "lease_duration_s", "heartbeat_interval_s", "worker_id", "auto_create"})]

SqliteFields ==
    [sqlite |-> DsnFields, sqlite_state_store |-> StoreFields, sqlite_cursor_store |-> StoreFields,
     sqlite_table_queue |-> QueueFields, sqlite_incremental |-> IncrFields, sqlite_table_sink |-> SinkFields]
SqliteCatalog ==
    [sqlite |-> DsnConnector({}),
     sqlite_state_store |-> Entry({"state_store"}, {"sqlite"}, {"connector"}, {}, {}),
     sqlite_cursor_store |-> Entry({"cursor_store"}, {"sqlite"}, {"connector"}, {}, {}),
     sqlite_table_queue |-> Entry({"source"}, {"sqlite"}, QueueRequired, {}, {}),
     sqlite_incremental |-> Entry({"source"}, {"sqlite"}, IncrRequired, {}, {}),
     sqlite_table_sink |-> Entry({"sink"}, {"sqlite"}, {"connector", "table"}, {}, {})]
SqliteBuild ==
    [sqlite |-> DsnBuild, sqlite_state_store |-> StoreBuild, sqlite_cursor_store |-> StoreBuild,
     sqlite_table_queue |-> QueueBuild, sqlite_incremental |-> IncrBuild, sqlite_table_sink |-> SinkBuild]

-----------------------------------------------------------------------------
(* All types. *)
Allowed ==
    MemoryFields @@ ScheduleFields @@ WebhookFields @@ HttpFields @@ KafkaFields @@ RabbitFields @@ RedisFields
    @@ SqsFields @@ CfFields @@ MongoFields @@ ClickHouseFields @@ ElasticFields @@ FeishuFields
    @@ MySQLFields @@ PostgresFields @@ SqliteFields

Catalog ==
    MemoryCatalog @@ ScheduleCatalog @@ WebhookCatalog @@ HttpCatalog @@ KafkaCatalog @@ RabbitCatalog @@ RedisCatalog
    @@ SqsCatalog @@ CfCatalog @@ MongoCatalog @@ ClickHouseCatalog @@ ElasticCatalog @@ FeishuCatalog
    @@ MySQLCatalog @@ PostgresCatalog @@ SqliteCatalog

Build ==
    MemoryBuild @@ ScheduleBuild @@ WebhookBuild @@ HttpBuild @@ KafkaBuild @@ RabbitBuild @@ RedisBuild
    @@ SqsBuild @@ CfBuild @@ MongoBuild @@ ClickHouseBuild @@ ElasticBuild @@ FeishuBuild
    @@ MySQLBuild @@ PostgresBuild @@ SqliteBuild

Validate ==
    MemoryValidate @@ ScheduleValidate @@ WebhookValidate @@ HttpValidate @@ KafkaValidate @@ MongoValidate
    @@ ClickHouseValidate @@ ElasticValidate @@ FeishuValidate @@ PostgresValidate

Types == DOMAIN Catalog

(* What the builder and the constructor it calls check of a definition. *)
BuildAccepts(t, spec) ==
    /\ Passes(Build[t].checks, spec)
    /\ t = "interval" => IntervalRule(spec)
    /\ t = "mongodb_collection_sink" => MongoSinkRule(spec)
    /\ t = "feishu_bitable_table_sink" => FeishuSinkRule(spec)

(* What strict validation checks of a definition. *)
ValidateAccepts(t, spec) ==
    /\ DOMAIN spec \subseteq Allowed[t]
    /\ t \in DOMAIN Validate => Passes(Validate[t], spec)
    /\ t = "mongodb_collection_sink" => MongoSinkRule(spec)
    /\ t = "elasticsearch" => ElasticAuthRule(spec)
    /\ t = "feishu_bitable_table_sink" => FeishuSinkRule(spec)

(* Every type has its fields, its entry and its builder; what an entry     *)
(* requires may be written, and its connectors are connectors.             *)
TablesAgree ==
    /\ DOMAIN Allowed = Types /\ DOMAIN Build = Types /\ DOMAIN Validate \subseteq Types
    /\ \A t \in Types :
          /\ Catalog[t].required \subseteq Allowed[t]
          /\ Catalog[t].secret \subseteq Allowed[t] \union Catalog[t].extra
          /\ \A c \in Catalog[t].conns : "connector" \in Catalog[c].roles /\ c \in Build[t].conns

-----------------------------------------------------------------------------
Names(c) == {c.entries[i].name : i \in DOMAIN c.entries}

\* The type invariant.
TypeOK ==
    /\ env \in [Vars -> {"unset", "shell"} \union DOMAIN EnvFiles] /\ types \subseteq Types
    /\ loaded \subseteq {Plugins[i].name : i \in DOMAIN Plugins} /\ reporting \in BOOLEAN
    /\ stage \in {"idle", "dotenv", "expand", "plugins", "validate", "app", "resources", "tasks", "finish", "loaded", "failed"}
    /\ stage \notin {"idle", "failed"} => Range(stack) \union built \subseteq Names(cfg)
    /\ loads \in 0..MaxLoads /\ faults \in 0..MaxFaults

Init ==
    /\ env \in [Vars -> {"unset", "shell"}] /\ types = {} /\ loaded = {} /\ reporting = FALSE
    /\ stage = "idle" /\ reason = None /\ loads = 0 /\ faults = 0
    /\ cfg = CHOOSE c \in Configs : TRUE
    /\ expanded = << >> /\ specs = << >> /\ pending = << >> /\ stack = << >>
    /\ built = {} /\ builds = << >> /\ next = 1

Fail(why) == stage' = "failed" /\ reason' = why /\ UNCHANGED loading

Goto(s) == stage' = s /\ UNCHANGED <<reason, loading>>

Ended == stage \in {"idle", "loaded", "failed"}

-----------------------------------------------------------------------------
(* The environment. *)

(* load_yaml_app reads the file. *)
Open(c) ==
    /\ Ended /\ loads < MaxLoads /\ loads' = loads + 1
    /\ cfg' = c /\ stage' = "dotenv" /\ reason' = None
    /\ expanded' = << >> /\ specs' = << >> /\ pending' = << >> /\ stack' = << >>
    /\ built' = {} /\ builds' = [n \in Names(c) |-> 0] /\ next' = 1
    /\ UNCHANGED <<env, types, loaded, reporting, faults>>

(* A variable that is set keeps its value: os.environ is only completed. *)
_load_dotenv ==
    /\ stage = "dotenv"
    /\ IF cfg.env_file = "missing" THEN Fail("env_file") /\ UNCHANGED env
       ELSE /\ Goto("expand")
            /\ env' = [v \in Vars |->
                          IF cfg.env_file # None /\ v \in EnvFiles[cfg.env_file] /\ env[v] = "unset"
                          THEN cfg.env_file ELSE env[v]]
    /\ UNCHANGED <<types, loaded, reporting, loads, faults>>

(* References without a default whose variable is nowhere; the name is     *)
(* stripped before it is looked up.                                        *)
_collect_env_refs(c) == {r \in c.refs : r.form # "default" /\ r.var \notin c.given /\ env[r.var] = "unset"}

(* The expansion looks the name up as it is written. *)
_expand_env_var(c, r) ==
    IF r.form = "spaced" THEN "empty"
    ELSE IF r.var \in c.given THEN "given"
    ELSE IF env[r.var] # "unset" THEN env[r.var]
    ELSE IF r.form = "default" THEN "default" ELSE "empty"

Expand ==
    /\ stage = "expand"
    /\ IF cfg.strict_env /\ _collect_env_refs(cfg) # {} THEN Fail("env")
       ELSE /\ expanded' = [r \in cfg.refs |-> _expand_env_var(cfg, r)]
            /\ stage' = "plugins"
            /\ UNCHANGED <<reason, cfg, specs, pending, stack, built, builds, next>>
    /\ UNCHANGED <<env, types, loaded, reporting, loads, faults>>

-----------------------------------------------------------------------------
(* The registries. *)
Builtin == {"memory", "interval", "cron", "webhook", "http_sink"}

(* The next entry point that is not marked as loaded. *)
NextPlugin == CHOOSE i \in DOMAIN Plugins :
                  Plugins[i].name \notin loaded /\ \A j \in 1..(i - 1) : Plugins[j].name \in loaded

PluginsLeft == \E i \in DOMAIN Plugins : Plugins[i].name \notin loaded

LoadPlugin ==
    /\ stage = "plugins" /\ PluginsLeft
    /\ types' = types \union Builtin \union Range(Plugins[NextPlugin].types)
    /\ loaded' = loaded \union {Plugins[NextPlugin].name}
    /\ UNCHANGED <<env, reporting, stage, reason, loads, faults, loading>>

(* Loading or registering fails: what was registered stays, the entry      *)
(* point is not marked and a later load calls it again.                    *)
PluginFails ==
    /\ stage = "plugins" /\ PluginsLeft /\ faults < MaxFaults /\ faults' = faults + 1
    /\ \E k \in 0..(Len(Plugins[NextPlugin].types) - 1) :
          types' = types \union Builtin \union {Plugins[NextPlugin].types[i] : i \in 1..k}
    /\ Fail("plugin") /\ UNCHANGED <<env, loaded, reporting, loads>>

PluginsLoaded ==
    /\ stage = "plugins" /\ ~PluginsLeft /\ types' = types \union Builtin
    /\ Goto(IF cfg.strict THEN "validate" ELSE "app")
    /\ UNCHANGED <<env, loaded, reporting, loads, faults>>

(* The reporter's own registry, loaded when a reporter is configured. *)
NeedsReporter == cfg.reporter # None /\ ~reporting

LoadReporter ==
    /\ stage \in {"validate", "finish"} /\ NeedsReporter
    /\ \/ reporting' = TRUE /\ UNCHANGED <<stage, reason, loading, faults>>
       \/ faults < MaxFaults /\ faults' = faults + 1 /\ Fail("plugin") /\ UNCHANGED reporting
    /\ UNCHANGED <<env, types, loaded, loads>>

-----------------------------------------------------------------------------
(* References to callables: "ok", "missing" (it cannot be imported),       *)
(* "null_params", "null" or "bad"; "none" where there is no reference.     *)
_validate_ref_entry(r) == r \in {"none", "ok", "missing", "null_params"}
_resolve_callable_ref(r) == r \in {"none", "ok"}

(* An emit entry: its form, its callable and its branches of sink names. *)
BranchesWritten(e) == \A b \in Range(e.branches) : b # << >>

_validate_emit(e) == e.form # "nested" /\ _validate_ref_entry(e.ref) /\ BranchesWritten(e)

_validate_hooks(h) == h \in {"none", "ok"}
_build_hooks(h) == h \in {"none", "ok", "null", "empty"}

_validate_retry(r) == r \in {"none", "ok"}
_build_retry(r) == r \in {"none", "ok", "extra"}

_validate_task(t) ==
    /\ \A e \in Range(t.emit) : _validate_emit(e)
    /\ t.handler = "absent" => t.emit # << >>
    /\ t.handler # "absent" => _validate_ref_entry(t.handler)
    /\ _validate_hooks(t.hooks) /\ _validate_retry(t.retry)

_validate_resource(e) == e.type \in types /\ ValidateAccepts(e.type, e.spec)

(* validate_app_config, in strict mode only. *)
ValidateConfig ==
    /\ stage = "validate" /\ ~NeedsReporter
    /\ IF /\ cfg.app \in {"ok", "noname"} /\ cfg.reporter \in {None, "ok"}
          /\ \A i \in DOMAIN cfg.entries : _validate_resource(cfg.entries[i])
          /\ _validate_hooks(cfg.hooks)
          /\ \A i \in DOMAIN cfg.tasks : _validate_task(cfg.tasks[i])
       THEN Goto("app") ELSE Fail("strict")
    /\ UNCHANGED <<env, types, loaded, reporting, loads, faults>>

(* A name may be defined twice in the sections, by the same definition. *)
Consistent(c) ==
    \A i, j \in DOMAIN c.entries : c.entries[i].name = c.entries[j].name => c.entries[i] = c.entries[j]

_collect_resource_specs(c) == [n \in Names(c) |-> c.entries[CHOOSE i \in DOMAIN c.entries : c.entries[i].name = n]]

(* The application is created and the resource sections are merged. *)
CreateApp ==
    /\ stage = "app"
    /\ IF cfg.app \notin {"ok", "mixed"} \/ ~Consistent(cfg) THEN Fail("app")
       ELSE /\ specs' = _collect_resource_specs(cfg)
            /\ pending' = [i \in DOMAIN cfg.entries |-> cfg.entries[i].name]
            /\ stage' = "resources"
            /\ UNCHANGED <<reason, cfg, expanded, stack, built, builds, next>>
    /\ UNCHANGED <<env, types, loaded, reporting, loads, faults>>

-----------------------------------------------------------------------------
(* Resources. *)

(* Mutant: every name met before counts as a cycle. *)
EnterFalseCycle(n) ==
    IF n \notin DOMAIN specs THEN Fail("unknown")
    ELSE IF \E m \in built : "connector" \in DOMAIN specs[m].spec /\ specs[m].spec["connector"] = n THEN Fail("cycle")
    ELSE IF n \in Range(stack) \/ Len(stack) > 0 THEN Fail("cycle")
    ELSE stack' = Append(stack, n) /\ UNCHANGED <<stage, reason, cfg, expanded, specs, pending, built, builds, next>>

(* resolve of a name that is not built: unknown, being resolved, or next. *)
Enter(n) ==
    IF n \notin DOMAIN specs THEN Fail("unknown")
    ELSE IF n \in Range(stack) THEN Fail("cycle")
    ELSE stack' = Append(stack, n) /\ UNCHANGED <<stage, reason, cfg, expanded, specs, pending, built, builds, next>>

(* The loop over the names: a built one is skipped. *)
ResolveNext ==
    /\ stage = "resources" /\ stack = << >> /\ pending # << >>
    /\ IF Head(pending) \in built
       THEN /\ pending' = Tail(pending)
            /\ UNCHANGED <<stage, reason, cfg, expanded, specs, stack, built, builds, next>>
       ELSE Enter(Head(pending))
    /\ UNCHANGED <<env, types, loaded, reporting, loads, faults>>

IsStore(t) == Catalog[t].roles \intersect {"state_store", "cursor_store"} # {}

HasRole(n, role) == n \in built /\ role \in Catalog[specs[n].type].roles

(* isinstance or hasattr of the resolved connector. *)
ConnectorFits(t, n) == specs[n].type \in Build[t].conns

(* The builder of the resource on top of the stack: its connector is       *)
(* resolved and looked at, then its state, then the resource is made.      *)
BuildResource ==
    /\ stage = "resources" /\ stack # << >>
    /\ LET n == Last(stack)
           t == specs[n].type
           spec == specs[n].spec
           conn == IF Build[t].conns # {} THEN spec["connector"] ELSE None
           state == IF "state" \in Allowed[t] /\ Given(spec, "state") THEN spec["state"] ELSE None
       IN  IF t \notin types THEN Fail("type")
           ELSE IF Build[t].conns # {} /\ ~Passes(Checks({"connector"}, {}, {}), spec) THEN Fail("build")
           ELSE IF conn # None /\ conn \notin built THEN Enter(conn)
           ELSE IF conn # None /\ ~ConnectorFits(t, conn) THEN Fail("kind")
           ELSE IF state # None /\ state \notin built THEN Enter(state)
           ELSE IF (state # None /\ ~IsStore(specs[state].type)) \/ ~BuildAccepts(t, spec) THEN Fail("build")
           ELSE /\ built' = built \union {n} /\ builds' = [builds EXCEPT ![n] = @ + 1] /\ stack' = Front(stack)
                /\ UNCHANGED <<stage, reason, cfg, expanded, specs, pending, next>>
    /\ UNCHANGED <<env, types, loaded, reporting, loads, faults>>

(* bind_resources and the application's state. *)
BindResources ==
    /\ stage = "resources" /\ stack = << >> /\ pending = << >>
    /\ IF cfg.state # None /\ ~(cfg.state \in built /\ IsStore(specs[cfg.state].type))
       THEN Fail("state") ELSE Goto("tasks")
    /\ UNCHANGED <<env, types, loaded, reporting, loads, faults>>

-----------------------------------------------------------------------------
(* Tasks, hooks and the reporter. *)
_resolve_emit_entry(e) ==
    /\ _resolve_callable_ref(e.ref) /\ BranchesWritten(e)
    /\ \A b \in Range(e.branches) : \A n \in Range(b) : HasRole(n, "sink")

_resolve_optional_sinks(names) == \A n \in Range(names) : HasRole(n, "sink")

TaskBuilds(t) ==
    /\ t.source # None => HasRole(t.source, "source")
    /\ \A e \in Range(t.emit) : _resolve_emit_entry(e)
    /\ _resolve_optional_sinks(t.dead_letter)
    /\ t.handler = "absent" => t.emit # << >>
    /\ t.handler # "absent" => _resolve_callable_ref(t.handler)
    /\ _build_hooks(t.hooks) /\ _build_retry(t.retry) /\ t.limits = "ok"

BuildTask ==
    /\ stage = "tasks" /\ next <= Len(cfg.tasks)
    /\ IF TaskBuilds(cfg.tasks[next])
       THEN next' = next + 1 /\ UNCHANGED <<stage, reason, cfg, expanded, specs, pending, stack, built, builds>>
       ELSE Fail("task")
    /\ UNCHANGED <<env, types, loaded, reporting, loads, faults>>

TasksBuilt ==
    /\ stage = "tasks" /\ next > Len(cfg.tasks)
    /\ IF _build_hooks(cfg.hooks) THEN Goto("finish") ELSE Fail("hooks")
    /\ UNCHANGED <<env, types, loaded, reporting, loads, faults>>

_attach_reporter ==
    /\ stage = "finish" /\ ~NeedsReporter
    /\ IF cfg.reporter \in {None, "ok"} THEN Goto("loaded") ELSE Fail("reporter")
    /\ UNCHANGED <<env, types, loaded, reporting, loads, faults>>

Exit == Ended /\ loads = MaxLoads /\ UNCHANGED vars

Step ==
    \/ _load_dotenv \/ Expand \/ LoadPlugin \/ PluginFails \/ PluginsLoaded \/ LoadReporter \/ ValidateConfig \/ CreateApp
    \/ ResolveNext \/ BuildResource \/ BindResources \/ BuildTask \/ TasksBuilt \/ _attach_reporter

Next == (\E c \in Configs : Open(c)) \/ Step \/ Exit

Spec == Init /\ [][Next]_vars /\ WF_vars(Step)

-----------------------------------------------------------------------------
(* Properties. *)

(* What a loadable configuration is, said of the file alone: names agree,  *)
(* references exist and have the right kind, and every section has what    *)
(* its builder, and in strict mode its validator, asks for.                *)
Def(c, n) == c.entries[CHOOSE i \in DOMAIN c.entries : c.entries[i].name = n]

Installed == Builtin \union UNION {Range(Plugins[i].types) : i \in DOMAIN Plugins}

SoundResource(c, e) ==
    /\ e.type \in Installed
    /\ BuildAccepts(e.type, e.spec) /\ (c.strict => ValidateAccepts(e.type, e.spec))
    /\ Build[e.type].conns # {} => e.spec["connector"] \in Names(c) /\ Def(c, e.spec["connector"]).type \in Build[e.type].conns
    /\ "state" \in Allowed[e.type] /\ Given(e.spec, "state")
          => e.spec["state"] \in Names(c) /\ IsStore(Def(c, e.spec["state"]).type)

Uses(c, n, role) == n \in Names(c) /\ role \in Catalog[Def(c, n).type].roles

SoundTask(c, t) ==
    /\ t.source # None => Uses(c, t.source, "source")
    /\ \A n \in Range(t.dead_letter) \union UNION {UNION {Range(b) : b \in Range(e.branches)} : e \in Range(t.emit)} :
          Uses(c, n, "sink")
    /\ \A e \in Range(t.emit) : e.ref \in {"none", "ok"} /\ (\A b \in Range(e.branches) : b # << >>) /\ (c.strict => e.form # "nested")
    /\ IF t.handler = "absent" THEN t.emit # << >> ELSE t.handler = "ok"
    /\ t.hooks \in (IF c.strict THEN {"none", "ok"} ELSE {"none", "ok", "null", "empty"})
    /\ t.retry \in (IF c.strict THEN {"none", "ok"} ELSE {"none", "ok", "extra"}) /\ t.limits = "ok"

SoundConfig(c) ==
    /\ c.app \in (IF c.strict THEN {"ok"} ELSE {"ok", "mixed"}) /\ Consistent(c)
    /\ \A i \in DOMAIN c.entries : SoundResource(c, c.entries[i])
    /\ c.state # None => c.state \in Names(c) /\ IsStore(Def(c, c.state).type)
    /\ \A i \in DOMAIN c.tasks : SoundTask(c, c.tasks[i])
    /\ c.hooks \in (IF c.strict THEN {"none", "ok"} ELSE {"none", "ok", "null", "empty"}) /\ c.reporter \in {None, "ok"}

(* A load ends with an application exactly for the configurations that are *)
(* sound, whatever the order of the sections, the sharing of resources and *)
(* the loads before it (_build_resources, load_app_config).                *)
VerdictExact ==
    /\ stage = "loaded" => SoundConfig(cfg)
    /\ stage = "failed" /\ reason \notin {"plugin", "env", "env_file"} => ~SoundConfig(cfg)

(* resolve never enters a name that it is resolving, so its recursion is   *)
(* bounded by the number of resources (_build_resources).                  *)
StackBounded == stage = "resources" => IsInjective(stack) /\ Len(stack) <= Cardinality(Names(cfg))

(* Two references to a resource get one object: no resource is built twice *)
(* in a load (_build_resources).                                           *)
BuiltOnce == \A n \in DOMAIN builds : builds[n] <= 1

(* The references of a definition. *)
RefsOf(c, n) ==
    LET s == Def(c, n).spec IN {s[f] : f \in {f \in {"connector", "state"} : Given(s, f)}}

(* A cycle is reported only where some resources really refer to each      *)
(* other in a circle (_build_resources, resolving).                        *)
NoFalseCycle ==
    reason = "cycle" => \E S \in SUBSET Names(cfg) \ {{}} : \A n \in S : RefsOf(cfg, n) \intersect S # {}

(* Resources are built on the connectors their catalog entries and the     *)
(* documentation name.                                                     *)
ConnectorKind ==
    stage = "loaded" =>
        \A i \in DOMAIN cfg.entries :
            LET e == cfg.entries[i]
            IN  Catalog[e.type].conns # {} => Def(cfg, e.spec["connector"]).type \in Catalog[e.type].conns

(* Past the registries every installed type can be used, also after loads  *)
(* that failed in the middle of a plugin (load_resource_plugins).          *)
RegistryRecovers ==
    stage \in {"validate", "app", "resources", "tasks", "finish", "loaded"} =>
        \A i \in DOMAIN Plugins : Range(Plugins[i].types) \subseteq types

(* A value the shell gave, or an earlier load, is never replaced: a .env   *)
(* file only completes the environment (_load_dotenv).                     *)
ShellWins == \A v \in Vars : env[v] # "unset" => env'[v] = env[v]

(* With strict_env no reference without a default becomes empty            *)
(* (_collect_env_refs and _expand_env_var agree on what is missing).       *)
StrictEnvCatches ==
    cfg.strict_env => \A r \in DOMAIN expanded : expanded[r] # "empty"

(* strict_env refuses nothing else: with a default or a value for every    *)
(* reference the load goes on (_collect_env_refs).                         *)
StrictEnvExact == reason = "env" => \E r \in cfg.refs : _expand_env_var(cfg, r) = "empty"

(* In strict mode a definition with the fields its catalog entry requires  *)
(* loads, and one without them does not; an interval needs its duration as *)
(* well (resource_registry.ResourceCatalogField.required).                 *)
CatalogExact ==
    cfg.strict /\ stage \in {"loaded", "failed"} =>
        LET e == cfg.entries[1]
            complete == e.type # "interval" /\ Catalog[e.type].required \subseteq DOMAIN e.spec
        IN  complete <=> stage = "loaded"

=============================================================================
