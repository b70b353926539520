----------------------------- MODULE Resilience -----------------------------
(***************************************************************************)
(* How a connector turns an exception of its driver into a normalized      *)
(* ConnectorOperationError (the resilience.py of every plugin) and what    *)
(* the runner's fetch and the executor's send do with the result           *)
(* (resilience.py, runner.py and executor.py of the core).                 *)
(* A text is a sequence of parts that no token splits.                     *)
(*                                                                         *)
(* An exception is a record: "is", the classes it is an instance of;       *)
(* "code", its server error code or HTTP status (0: none); "says", the     *)
(* phrases the classifiers look for in its lower-cased text; "sent",       *)
(* whether the request may have reached the server before it was raised;   *)
(* "answer", what became of the answer.                                    *)
(***************************************************************************)
EXTENDS Integers, Sequences, FiniteSets, TLC

CONSTANTS Backends,     \* the plugins of this instance
          MaxOutage,    \* bound on the failures of one fetch loop
          SendAttempts, \* DeliveryExecutor._SEND_ATTEMPTS
          MaxMessage,   \* _MAX_MESSAGE_LENGTH, in parts
          ExplicitDelay \* retry_delay_s given by the connector, {} for None

-----------------------------------------------------------------------------
(* From an exception of the driver to a ConnectorErrorKind. *)
Kinds == {"none", "disconnected", "transient", "throttled", "misconfigured", "permanent", "uncertain"}

Retryable(kind) == kind \in {"disconnected", "transient", "throttled"}

(* Rules tried in order: the kind of the first whose test holds. *)
FirstMatch(rules) ==
    LET hits == {i \in DOMAIN rules : rules[i][1]}
    IN  IF hits = {} THEN "none"
        ELSE rules[CHOOSE i \in hits : \A j \in hits : i <= j][2]

Is(e, classes) == e.is \cap classes # {}
Says(e, phrases) == e.says \cap phrases # {}

classify_kafka_error(e) == FirstMatch(
    <<<<Is(e, {"ConnectionError", "OSError", "TimeoutError"}), "disconnected">>,
      <<{"connection", "closed"} \subseteq e.says, "disconnected">>,
      <<Says(e, {"timed out", "timeout"}), "transient">>,
      <<Is(e, {"KafkaError"}) /\ Is(e, {"retriable()"}), "transient">>,
      <<Is(e, {"KafkaError"}) /\ Is(e, {"InvalidConfigurationError"}), "misconfigured">>,
      <<Is(e, {"KafkaError"}), "permanent">>>>)

_classify_amqp_error(e) == FirstMatch(
    <<<<Is(e, {"AMQPConnectionError", "AMQPChannelError", "ConnectionClosed", "ChannelClosed",
               "ChannelInvalidStateError", "DeliveryError"}), "disconnected">>,
      <<Is(e, {"AuthenticationError", "ProbableAuthenticationError", "IncompatibleProtocolError"}),
        "misconfigured">>,
      <<Is(e, {"ChannelNotFoundEntity", "ChannelPreconditionFailed"}), "permanent">>>>)

classify_rabbitmq_error(e) ==
    IF Is(e, {"ConnectionError", "OSError"})
       \/ (Is(e, {"RuntimeError"}) /\ Says(e, {"closed", "no active transport"}))
    THEN "disconnected" ELSE _classify_amqp_error(e)

classify_redis_error(e) == FirstMatch(
    <<<<Is(e, {"ConnectionError", "OSError", "TimeoutError"}), "disconnected">>,
      <<Is(e, {"redis.ConnectionError", "redis.TimeoutError", "ConnectionPoolExhaustedError"}), "disconnected">>,
      <<Is(e, {"redis.AuthenticationError", "NoPermissionError"}), "misconfigured">>,
      <<Is(e, {"ResponseError"}) /\ Says(e, {"auth", "noauth", "wrongpass", "invalid password",
                                             "permission", "denied"}), "misconfigured">>,
      <<Is(e, {"ResponseError"}), "transient">>,
      <<Is(e, {"BusyLoadingError", "ReadOnlyError", "MasterDownError"}), "transient">>>>)

(* The code of a botocore ClientError is a phrase of "says". *)
classify_sqs_error(e) == FirstMatch(
    <<<<Is(e, {"ConnectionError", "OSError", "TimeoutError"}), "disconnected">>,
      <<Is(e, {"EndpointConnectionError", "ConnectionClosedError", "ReadTimeoutError",
               "ConnectTimeoutError"}), "disconnected">>,
      <<~Is(e, {"ClientError"}), "none">>,
      <<Says(e, {"throttling", "throttlingexception", "requestthrottled",
                 "toomanyrequestsexception", "slowdown"}), "throttled">>,
      <<Says(e, {"requesttimeout", "internalerror", "serviceunavailable"}), "transient">>,
      <<Says(e, {"accessdenied", "accessdeniedexception", "invalidclienttokenid",
                 "signaturedoesnotmatch", "nonexistentqueue"}), "misconfigured">>,
      <<TRUE, "permanent">>>>)

classify_cf_status(status) == FirstMatch(
    <<<<status = 429, "throttled">>,
      <<status \in {500, 502, 503, 504}, "transient">>,
      <<status \in {401, 403, 404}, "misconfigured">>,
      <<TRUE, "permanent">>>>)

classify_cf_error(e) ==
    IF Is(e, {"APITimeoutError"}) THEN "uncertain"
    ELSE IF Is(e, {"APIStatusError"}) THEN classify_cf_status(e.code)
    ELSE IF Is(e, {"APIConnectionError", "ConnectionError", "OSError", "TimeoutError"}) THEN "disconnected"
    ELSE "none"

(* Mutant: a timeout is an OSError, and the wider class is tested first. *)
ClickHouseWideFirst(e) == FirstMatch(
    <<<<Is(e, {"ConnectionError", "OSError"}), "disconnected">>,
      <<Is(e, {"TimeoutError"}), "uncertain">>,
      <<e.code \in {159, 164, 241, 252}, "throttled">>,
      <<e.code # 0, "transient">>>>)

classify_clickhouse_error(e) == FirstMatch(
    <<<<Is(e, {"TimeoutError"}), "uncertain">>,
      <<Is(e, {"ConnectionError", "OSError"}), "disconnected">>,
      <<e.code \in {202, 203, 209, 210}, "disconnected">>,
      <<e.code \in {159, 164, 241, 252}, "throttled">>,
      <<e.code \in {60, 62, 81, 516}, "misconfigured">>,
      <<e.code \in {6, 27, 53, 117, 386}, "permanent">>,
      <<e.code # 0, "transient">>>>)

classify_elasticsearch_status(status) == FirstMatch(
    <<<<status = 429, "throttled">>,
      <<status \in {502, 503, 504}, "transient">>,
      <<status \in {401, 403, 404}, "misconfigured">>,
      <<TRUE, "permanent">>>>)

classify_elasticsearch_exception(e) == FirstMatch(
    <<<<Is(e, {"SSLError"}), "misconfigured">>,
      <<Is(e, {"ConnectTimeout", "ConnectError"}), "disconnected">>,
      <<Is(e, {"ReadTimeout", "WriteError", "ReadError", "TimeoutException"}), "uncertain">>,
      <<Is(e, {"ConnectionError", "OSError"}), "disconnected">>>>)

classify_mongodb_error(e, operation) ==
    LET lost(kind) == IF operation = "send" THEN "uncertain" ELSE kind
    IN FirstMatch(
    <<<<Is(e, {"BulkWriteError"}) /\ e.code \in {13, 18}, "misconfigured">>,
      <<Is(e, {"BulkWriteError"}) /\ e.code \in {50, 16500}, "throttled">>,
      <<Is(e, {"BulkWriteError"}), "permanent">>,
      <<Is(e, {"ConfigurationError", "InvalidURI"}), "misconfigured">>,
      <<Is(e, {"InvalidDocument", "InvalidStringData", "DuplicateKeyError"}), "permanent">>,
      <<Is(e, {"ServerSelectionTimeoutError"}), "disconnected">>,
      <<Is(e, {"NetworkTimeout"}), lost("disconnected")>>,
      <<Is(e, {"ExecutionTimeout"}), lost("transient")>>,
      <<Is(e, {"OperationFailure"}) /\ e.code \in {13, 18}, "misconfigured">>,
      <<Is(e, {"OperationFailure"}) /\ e.code \in {286, 280}, "permanent">>,
      <<Is(e, {"OperationFailure"}) /\ e.code \in {50, 16500}, "throttled">>,
      <<Is(e, {"OperationFailure"}) /\ Is(e, {"ResumableChangeStreamError"}), "transient">>,
      <<Is(e, {"OperationFailure"}), "permanent">>,
      <<Is(e, {"AutoReconnect"}), lost("disconnected")>>>>)

(* The three SQLAlchemy tables share their first rules and their last. *)
mysql_classify(e) == FirstMatch(
    <<<<Is(e, {"sa.TimeoutError"}), "transient">>,
      <<Is(e, {"InterfaceError"}), "disconnected">>,
      <<Is(e, {"ProgrammingError"}), "permanent">>,
      <<~Is(e, {"DBAPIError"}), "none">>,
      <<Is(e, {"connection_invalidated"}), "disconnected">>,
      <<Says(e, {"server has gone away", "lost connection", "connection refused"}), "disconnected">>,
      <<Says(e, {"lock wait timeout", "deadlock found"}), "transient">>,
      <<Says(e, {"access denied", "unknown database", "authentication"}), "misconfigured">>,
      <<Says(e, {"no such table", "unknown table", "unknown column", "syntax error"}), "permanent">>,
      <<Is(e, {"OperationalError"}), "transient">>>>)

postgres_classify(e) == FirstMatch(
    <<<<Is(e, {"sa.TimeoutError"}), "transient">>,
      <<Is(e, {"InterfaceError"}), "disconnected">>,
      <<Is(e, {"ProgrammingError"}), "permanent">>,
      <<~Is(e, {"DBAPIError"}), "none">>,
      <<Is(e, {"connection_invalidated"}), "disconnected">>,
      <<Says(e, {"server closed the connection", "connection refused", "connection reset"}), "disconnected">>,
      <<Says(e, {"deadlock detected", "lock timeout", "could not serialize access"}), "transient">>,
      <<Says(e, {"password authentication failed", "permission denied"}), "misconfigured">>,
      <<Says(e, {"database", "role"}) /\ Says(e, {"does not exist"}), "misconfigured">>,
      <<Says(e, {"undefined table", "undefined column", "syntax error", "does not exist"}), "permanent">>,
      <<Is(e, {"OperationalError"}), "transient">>>>)

sqlite_classify(e) == FirstMatch(
    <<<<Is(e, {"sa.TimeoutError"}), "transient">>,
      <<Is(e, {"InterfaceError"}), "disconnected">>,
      <<Is(e, {"ProgrammingError", "IntegrityError"}), "permanent">>,
      <<~Is(e, {"DBAPIError"}), "none">>,
      <<Is(e, {"connection_invalidated"}), "disconnected">>,
      <<Says(e, {"database is locked"}), "transient">>,
      <<Says(e, {"no such table", "no such column", "syntax error"}), "permanent">>,
      <<Is(e, {"OperationalError"}), "transient">>>>)

-----------------------------------------------------------------------------
(* The connector's configuration: a connection URL with userinfo, and      *)
(* options, some nested one level down.                                    *)
Config == [user |-> "user", password |-> "pw",
           options |-> ("password" :> "optpw" @@ "sasl_plain_password" :> "saslpw" @@ "api_token" :> "apitok"
                        @@ "aws_secret_access_key" :> "awskey" @@ "timeout" :> "thirty"),
           nested |-> ("token" :> "nestedtok")]

Url == <<"scheme", Config.user, ":", Config.password, "@", "host">>
UserInfo == {<<Config.user, ":", Config.password>>, <<Config.user, ":", Config.password, "@">>, <<Config.password>>}
SecretValues(options, keys) == {<<options[k]>> : k \in DOMAIN options \cap keys}
CommonKeys == {"password", "passwd", "pwd", "secret", "token", "access_token", "api_key", "apikey",
               "credentials", "authorization"}

kafka_tokens == {Url} \cup UserInfo \cup SecretValues(Config.options, CommonKeys \cup {"sasl_password", "sasl_plain_password"})
rabbitmq_tokens == {Url} \cup UserInfo \cup SecretValues(Config.options, CommonKeys)
redis_tokens == {Url} \cup UserInfo \cup SecretValues(Config.options, CommonKeys)
sqs_tokens == SecretValues(Config.options, (CommonKeys \ {"passwd", "pwd"})
                             \cup {"aws_secret_access_key", "aws_access_key_id", "aws_session_token"})
cf_tokens == {<<Config.options["api_token"]>>, <<"bearer", Config.options["api_token"]>>}
(* The host and the user alone stay readable. *)
clickhouse_tokens == UserInfo \cup SecretValues(Config.options, CommonKeys)
(* The user name is a token of its own here; raw and decoded userinfo are one. *)
elasticsearch_tokens == {<<Config.user>>} \cup UserInfo \cup {<<"basic">>}
mongodb_tokens == UserInfo \cup SecretValues(Config.options, CommonKeys \cup {"aws_session_token", "proxypassword"})
                  \cup SecretValues(Config.nested, CommonKeys)
sql_tokens == {Url} \cup UserInfo \cup SecretValues(Config.options, CommonKeys) \cup SecretValues(Config.nested, CommonKeys)

(* message.replace(token, _REDACTED), from the left. *)
Replaced(text, token) ==
    LET n == Len(token)
        At(i) == i + n - 1 <= Len(text) /\ SubSeq(text, i, i + n - 1) = token
        Rest[i \in 1..(Len(text) + n)] ==
            IF i > Len(text) THEN <<>>
            ELSE IF At(i) THEN <<"<redacted>">> \o Rest[i + n]
            ELSE <<text[i]>> \o Rest[i + 1]
    IN  Rest[1]

Shorter(text) == SubSeq(text, 1, IF Len(text) < MaxMessage THEN Len(text) ELSE MaxMessage)

(* redact_message: the longest token first, then the cut to MaxMessage.    *)
(* Scrub[left] has replaced every token of left, the shortest one last.    *)
redact_message(text, tokens) ==
    LET Scrub[left \in SUBSET tokens] ==
            IF left = {} THEN text
            ELSE LET t == CHOOSE x \in left : \A y \in left : Len(x) <= Len(y)
                 IN  Replaced(Scrub[left \ {t}], t)
    IN  Shorter(Scrub[tokens])

(* MongoDB scrubs the userinfo of every URI before the configured tokens. *)
redacted_mongodb_cause(text) ==
    redact_message(Replaced(text, <<Config.user, ":", Config.password, "@">>), mongodb_tokens)

-----------------------------------------------------------------------------
(* as_connector_operation_error: no error for an exception that is not     *)
(* classified, which its caller raises as it is.                           *)
as_connector_operation_error(kind, cause) ==
    IF kind = "none" THEN [kind |-> "none", cause |-> <<>>]
    ELSE [kind |-> kind, cause |-> cause]

as_kafka_error(e, text) == as_connector_operation_error(classify_kafka_error(e), redact_message(text, kafka_tokens))
as_rabbitmq_error(e, text) == as_connector_operation_error(classify_rabbitmq_error(e), redact_message(text, rabbitmq_tokens))
as_redis_error(e, text) == as_connector_operation_error(classify_redis_error(e), redact_message(text, redis_tokens))
as_sqs_error(e, text) == as_connector_operation_error(classify_sqs_error(e), redact_message(text, sqs_tokens))
as_cf_error(e, text) == as_connector_operation_error(classify_cf_error(e), redact_message(text, cf_tokens))
redacted_clickhouse_cause(e, text) == as_connector_operation_error(classify_clickhouse_error(e), redact_message(text, clickhouse_tokens))
redacted_es_cause(e, text) == as_connector_operation_error(classify_elasticsearch_exception(e), redact_message(text, elasticsearch_tokens))
as_mongodb_error(e, text, operation) == as_connector_operation_error(classify_mongodb_error(e, operation), redacted_mongodb_cause(text))
as_mysql_error(e, text) == as_connector_operation_error(mysql_classify(e), redact_message(text, sql_tokens))
as_postgres_error(e, text) == as_connector_operation_error(postgres_classify(e), redact_message(text, sql_tokens))
as_sqlite_error(e, text) == as_connector_operation_error(sqlite_classify(e), redact_message(text, sql_tokens))

Normalized(b, e, text, operation) ==
    CASE b = "kafka" -> as_kafka_error(e, text)
      [] b = "rabbitmq" -> as_rabbitmq_error(e, text)
      [] b = "redis" -> as_redis_error(e, text)
      [] b = "sqs" -> as_sqs_error(e, text)
      [] b = "cf_queues" -> as_cf_error(e, text)
      [] b = "clickhouse" -> redacted_clickhouse_cause(e, text)
      [] b = "elasticsearch" -> redacted_es_cause(e, text)
      [] b = "mongodb" -> as_mongodb_error(e, text, operation)
      [] b = "mysql" -> as_mysql_error(e, text)
      [] b = "postgres" -> as_postgres_error(e, text)
      [] b = "sqlite" -> as_sqlite_error(e, text)

Tokens(b) ==
    CASE b = "kafka" -> kafka_tokens [] b = "rabbitmq" -> rabbitmq_tokens [] b = "redis" -> redis_tokens
      [] b = "sqs" -> sqs_tokens [] b = "cf_queues" -> cf_tokens [] b = "clickhouse" -> clickhouse_tokens
      [] b = "elasticsearch" -> elasticsearch_tokens [] b = "mongodb" -> mongodb_tokens
      [] OTHER -> sql_tokens

-----------------------------------------------------------------------------
(* What the drivers raise.  "lost": the connection, with nothing to say of *)
(* the request; "late": no answer in time.                                 *)
Exc(is, code, says, sent, answer) == [is |-> is, code |-> code, says |-> says, sent |-> sent, answer |-> answer]
Lost(is) == Exc(is, 0, {}, TRUE, "lost")
Refused(is, code, says) == Exc(is, code, says, FALSE, "refused")
Late(is) == Exc(is, 0, {}, TRUE, "late")
SqlLost == Exc({"DBAPIError", "OperationalError", "connection_invalidated"}, 0, {"role", "does not exist"}, TRUE, "lost")

Raised(b) ==
    CASE b = "kafka" -> {Lost({"ConnectionError", "OSError"}), Late({"TimeoutError", "OSError"}),
                         Refused({"KafkaError"}, 0, {}), Refused({"KafkaError", "InvalidConfigurationError"}, 0, {})}
      [] b = "rabbitmq" -> {Lost({"AMQPConnectionError"}), Exc({"RuntimeError"}, 0, {"closed"}, TRUE, "lost"),
                            Refused({"IncompatibleProtocolError"}, 0, {}), Refused({"ChannelPreconditionFailed"}, 0, {}),
                            Refused({"ValueError"}, 0, {})}
      [] b = "redis" -> {Lost({"redis.ConnectionError"}), Late({"redis.TimeoutError"}),
                         Refused({"ResponseError"}, 0, {"wrongpass"}), Refused({"ResponseError"}, 0, {"loading"}),
                         Refused({"ReadOnlyError"}, 0, {})}
      [] b = "sqs" -> {Lost({"EndpointConnectionError"}), Late({"ReadTimeoutError"}),
                       Refused({"ClientError"}, 0, {"throttling"}), Refused({"ClientError"}, 0, {"accessdenied"}),
                       Refused({"ClientError"}, 0, {"internalerror"}), Refused({"ClientError"}, 0, {})}
      [] b = "cf_queues" -> {Lost({"APIConnectionError"}), Late({"APITimeoutError", "APIConnectionError"}),
                             Refused({"APIStatusError"}, 429, {}), Refused({"APIStatusError"}, 503, {}),
                             Refused({"APIStatusError"}, 403, {}), Refused({"APIStatusError"}, 400, {})}
      [] b = "clickhouse" -> {Lost({"ConnectionError", "OSError"}), Late({"TimeoutError", "OSError"}),
                              Refused({"ServerError"}, 209, {}), Refused({"ServerError"}, 241, {}),
                              Refused({"ServerError"}, 60, {}), Refused({"ServerError"}, 27, {}),
                              Refused({"ServerError"}, 1, {}), Refused({"ValueError"}, 0, {})}
      [] b = "elasticsearch" -> {Refused({"ConnectError"}, 0, {}), Late({"ReadTimeout", "TimeoutException"}),
                                 Lost({"ReadError"}), Refused({"ConnectError", "SSLError"}, 0, {}),
                                 Refused({"RemoteProtocolError"}, 0, {})}
      [] b = "mongodb" -> {Lost({"AutoReconnect"}), Late({"NetworkTimeout", "AutoReconnect"}),
                           Late({"ExecutionTimeout", "OperationFailure"}), Refused({"ServerSelectionTimeoutError", "AutoReconnect"}, 0, {}),
                           Refused({"OperationFailure"}, 16500, {}), Refused({"OperationFailure"}, 286, {}),
                           Refused({"OperationFailure", "ResumableChangeStreamError"}, 1, {}),
                           Refused({"DuplicateKeyError", "OperationFailure"}, 11000, {})}
      [] b = "mysql" -> {SqlLost, Refused({"DBAPIError", "OperationalError"}, 0, {"deadlock found"}),
                         Refused({"DBAPIError", "ProgrammingError"}, 0, {"syntax error"}),
                         Refused({"DBAPIError", "OperationalError"}, 0, {"access denied"})}
      [] b = "postgres" -> {SqlLost, Refused({"DBAPIError", "OperationalError"}, 0, {"could not serialize access"}),
                            Refused({"DBAPIError", "OperationalError"}, 0, {"database", "does not exist"}),
                            Refused({"DBAPIError", "ProgrammingError"}, 0, {"undefined table"})}
      [] b = "sqlite" -> {SqlLost, Refused({"DBAPIError", "OperationalError"}, 0, {"database is locked"}),
                          Refused({"DBAPIError", "IntegrityError"}, 0, {}), Refused({"sa.TimeoutError"}, 0, {})}

(* What the text of an exception may echo of the configuration. *)
Echoes == {<<>>, Url, <<Config.user, ":", Config.password>>, <<Config.password>>}
          \cup {<<Config.options[k]>> : k \in DOMAIN Config.options}

-----------------------------------------------------------------------------
VARIABLES backend, op,
          phase,    \* "call", "backoff", "done", "raised"
          failures, \* failed attempts of this fetch loop or send
          applied,  \* how often the server has applied the write
          last,     \* the exception of the last attempt
          error,    \* the normalized error of the last attempt
          delay     \* seconds the caller waits before it tries again

vars == <<backend, op, phase, failures, applied, last, error, delay>>

NoError == [kind |-> "none", cause |-> <<>>]
NoException == Exc({}, 0, {}, FALSE, "answered")

\* The type invariant.
TypeOK ==
    /\ phase \in {"call", "backoff", "done", "raised"} /\ failures \in 0..MaxOutage
    /\ applied \in 0..MaxOutage /\ error.kind \in Kinds /\ Len(error.cause) <= MaxMessage /\ delay \in Nat

(* Elasticsearch and ClickHouse have sinks only. *)
Init ==
    /\ backend \in Backends /\ op \in {"fetch", "send"} /\ phase = "call"
    /\ backend \in {"clickhouse", "elasticsearch"} => op = "send"
    /\ failures = 0 /\ applied = 0 /\ last = NoException /\ error = NoError /\ delay = 0

(* Mutant: the floor of a throttled call is lost. *)
DelayNoFloor(err, fallback) == IF ExplicitDelay # {} THEN CHOOSE d \in ExplicitDelay : TRUE ELSE fallback

connector_retry_delay(err, fallback) ==
    IF ExplicitDelay # {} THEN CHOOSE d \in ExplicitDelay : TRUE
    ELSE IF err.kind = "throttled" /\ fallback < 1 THEN 1 ELSE fallback

(* The call raises and is normalized.  A retryable error backs off: a      *)
(* fetch for ever, a send for SendAttempts, both at once when there is no  *)
(* delay or the app is stopping; any other is raised, which ends the       *)
(* runner of a fetch and fails the delivery of a send.                     *)
CallFails(e, text, reached) ==
    LET err == Normalized(backend, e, text, op)
        again == Retryable(err.kind) /\ (op = "send" => failures < SendAttempts - 1)
    IN  /\ phase = "call" /\ failures < MaxOutage
        /\ reached => e.sent /\ op = "send"
        /\ applied' = IF reached THEN applied + 1 ELSE applied
        /\ failures' = failures + 1 /\ last' = e /\ error' = err
        /\ phase' \in IF again THEN {"backoff", "call"} ELSE {"raised"}
        /\ delay' = IF again THEN connector_retry_delay(err, 0) ELSE 0
        /\ UNCHANGED <<backend, op>>

CallSucceeds ==
    /\ phase = "call" /\ phase' = "done" /\ applied < MaxOutage
    /\ applied' = IF op = "send" THEN applied + 1 ELSE applied
    /\ UNCHANGED <<backend, op, failures, last, error, delay>>

Again == phase = "backoff" /\ phase' = "call" /\ UNCHANGED <<backend, op, failures, applied, last, error, delay>>

(* The app stops while the caller waits: a fetch returns, a send raises. *)
StopsWhileWaiting ==
    /\ phase = "backoff" /\ phase' = IF op = "send" THEN "raised" ELSE "done"
    /\ UNCHANGED <<backend, op, failures, applied, last, error, delay>>

Next ==
    \/ \E e \in Raised(backend), echo \in Echoes, reached \in BOOLEAN : CallFails(e, <<"failed">> \o echo, reached)
    \/ CallSucceeds \/ Again \/ StopsWhileWaiting

Spec == Init /\ [][Next]_vars

-----------------------------------------------------------------------------
BulkSinkBackends == {"clickhouse", "elasticsearch", "mongodb", "cf_queues"}

(* A write to a bulk sink or a Cloudflare queue whose answer did not come  *)
(* in time may have been applied: it is never sent again by itself.        *)
LateWriteNotRepeated ==
    op = "send" /\ backend \in BulkSinkBackends /\ last.answer = "late" => phase # "backoff" /\ phase # "call"

(* A source whose driver reports a lost connection keeps its runner: the   *)
(* fetch backs off and asks again, whatever the text of the exception says.*)
OutageSurvived == op = "fetch" /\ last.answer = "lost" => phase # "raised"

(* No normalized error carries a configured secret, alone or as part of a  *)
(* longer one, nor the user name next to its password.                     *)
NoCredentialsInCause ==
    /\ \A t \in Tokens(backend) : Len(t) = 1 => \A i \in DOMAIN error.cause : error.cause[i] # t[1]
    /\ \A i \in DOMAIN error.cause : UserInfo \subseteq Tokens(backend) => error.cause[i] # Config.user

(* A throttled call is not repeated within a second, unless the connector  *)
(* asked for a delay of its own.                                           *)
ThrottledWaits == phase = "backoff" /\ error.kind = "throttled" => delay >= 1
=============================================================================
