------------------------------ MODULE BulkSink ------------------------------
(***************************************************************************)
(* The bulk sinks of Elasticsearch, ClickHouse and MongoDB under the       *)
(* executor's send: one logical batch of documents is cut into chunks,     *)
(* each chunk is written, answered in part, refused or left without an     *)
(* answer, and a failed send is repeated from its first document when its  *)
(* error is retryable.                                                     *)
(***************************************************************************)
EXTENDS Integers, Sequences, FiniteSets

CONSTANTS Backend,      \* "elasticsearch", "clickhouse" or "mongodb"
          Operation,    \* ES "index" or "create"; MongoDB "insert" or "upsert"
          HasIds,       \* every document has id_field (ES)
          Ordered,      \* MongoDB ordered bulk writes
          Sizes,        \* the encoded size of each document
          ChunkSize,    \* chunk_size or batch_size
          MaxBytes,     \* max_chunk_bytes (ES)
          MaxRetries,   \* max_retries of the ES sink
          SendAttempts, \* DeliveryExecutor._SEND_ATTEMPTS
          Faults,       \* what may go wrong in this instance
          Kinds, Retryable(_),   \* the kinds of error, and how Resilience classifies one
          classify_elasticsearch_status(_), classify_elasticsearch_exception(_),
          classify_clickhouse_error(_), classify_mongodb_error(_, _)

N == Len(Sizes)
Docs == 1..N

VARIABLES writes,    \* how often the server has applied each document
          phase,     \* "start", "sending", "ok", "raised"
          kind,      \* the kind of the error raised
          attempt,   \* sends made by the executor so far
          first,     \* the first document of the current chunk
          pending,   \* the documents of the chunk still to be written
          tries,     \* ES: requests made for the current chunk
          partial,   \* ES: some item of the chunk was acknowledged
          committed  \* chunks acknowledged in this send

vars == <<writes, phase, kind, attempt, first, pending, tries, partial, committed>>

\* The type invariant.
TypeOK ==
    /\ writes \in [Docs -> Nat] /\ phase \in {"start", "sending", "ok", "raised"} /\ kind \in Kinds
    /\ attempt \in 0..SendAttempts /\ first \in 1..(N + 1) /\ pending \subseteq Docs
    /\ tries \in 0..MaxRetries /\ partial \in BOOLEAN /\ committed \in 0..N

-----------------------------------------------------------------------------
(* Writing the whole batch again leaves the same documents behind. *)
replay_safe ==
    \/ Backend = "elasticsearch" /\ Operation = "index" /\ HasIds
    \/ Backend = "mongodb" /\ Operation = "upsert"

(* The chunk that starts at document i ends where the next one would go    *)
(* over the number of documents or, for Elasticsearch, of bytes.           *)
Bytes(i, j) == LET Sum[k \in (i - 1)..j] == IF k < i THEN 0 ELSE Sum[k - 1] + Sizes[k] IN Sum[j]

ChunkFits(i, j) == j - i < ChunkSize /\ (Backend = "elasticsearch" /\ j > i => Bytes(i, j) <= MaxBytes)

ChunkEnd(i) == CHOOSE j \in i..N : ChunkFits(i, j) /\ (j = N \/ ~ChunkFits(i, j + 1))

(* Encoding the chunk looks one document further: an action over MaxBytes  *)
(* is refused there, after the chunks before have been sent.               *)
TooLarge(i) ==
    /\ Backend = "elasticsearch"
    /\ \E j \in i..N : j <= ChunkEnd(i) + 1 /\ Sizes[j] > MaxBytes

Init ==
    /\ writes = [d \in Docs |-> 0] /\ phase = "start" /\ kind = "none" /\ attempt = 0
    /\ first = 1 /\ pending = {} /\ tries = 0 /\ partial = FALSE /\ committed = 0

(* send begins: the payload is checked before anything is written. *)
Begin ==
    /\ phase = "start" /\ phase' = "sending" /\ attempt' = attempt + 1
    /\ first' = 1 /\ pending' = {} /\ tries' = 0 /\ partial' = FALSE /\ committed' = 0
    /\ UNCHANGED <<writes, kind>>

(* The executor: a retryable error starts the send over, any other, or the *)
(* last one, is raised.                                                    *)
Raise(k) ==
    /\ kind' = k
    /\ phase' = IF Retryable(k) /\ attempt < SendAttempts THEN "start" ELSE "raised"
    /\ UNCHANGED <<attempt, first, pending, tries, partial, committed>>

BadPayload ==
    /\ phase = "start" /\ attempt = 0 /\ "payload" \in Faults
    /\ phase' = "raised" /\ kind' = "permanent"
    /\ UNCHANGED <<writes, attempt, first, pending, tries, partial, committed>>

(* The next chunk is encoded. *)
NextChunk ==
    /\ phase = "sending" /\ pending = {} /\ first <= N
    /\ IF TooLarge(first)
       THEN Raise("permanent") /\ UNCHANGED writes
       ELSE /\ pending' = first..ChunkEnd(first) /\ tries' = 0 /\ partial' = FALSE
            /\ UNCHANGED <<writes, phase, kind, attempt, first, committed>>

Sent ==
    /\ phase = "sending" /\ pending = {} /\ first > N /\ phase' = "ok"
    /\ UNCHANGED <<writes, kind, attempt, first, pending, tries, partial, committed>>

Applied(docs) == writes' = [d \in Docs |-> IF d \in docs THEN writes[d] + 1 ELSE writes[d]]

(* Every document of the request is acknowledged. *)
ChunkWritten ==
    /\ phase = "sending" /\ pending # {} /\ Applied(pending)
    /\ first' = ChunkEnd(first) + 1 /\ pending' = {} /\ committed' = committed + 1
    /\ UNCHANGED <<phase, kind, attempt, tries, partial>>

-----------------------------------------------------------------------------
(* Mutant: only whole chunks count as committed. *)
BulkErrorForgets(status, uncertain, part) ==
    IF uncertain \/ (committed > 0 /\ ~replay_safe) THEN "uncertain" ELSE classify_elasticsearch_status(status)

(* The kind of an ElasticsearchBulkError whose first item has this status. *)
BulkErrorKind(status, uncertain, part) ==
    IF uncertain \/ ((committed > 0 \/ part) /\ ~replay_safe) THEN "uncertain"
    ELSE classify_elasticsearch_status(status)

(* A request refused as a whole may be sent again, one that a gateway did  *)
(* not answer only if that does no harm.                                   *)
CanRetryRequest(status) == status = 429 \/ (status \in {502, 503, 504} /\ replay_safe)

(* _send_chunk: the request failed as a whole. *)
EsStatus(status, docs) ==
    /\ Backend = "elasticsearch" /\ "status" \in Faults /\ phase = "sending" /\ pending # {}
    /\ docs # {} => status = 503
    /\ Applied(docs)
    /\ IF CanRetryRequest(status) /\ tries < MaxRetries
       THEN tries' = tries + 1 /\ UNCHANGED <<phase, kind, attempt, first, pending, partial, committed>>
       ELSE Raise(BulkErrorKind(status, status = 503 /\ ~replay_safe, partial))

(* _send_chunk: the answer does not match the request, or an item of it    *)
(* cannot be read.                                                         *)
EsMalformed(docs, acknowledged) ==
    /\ Backend = "elasticsearch" /\ "malformed" \in Faults /\ phase = "sending" /\ pending # {}
    /\ acknowledged \subseteq docs /\ Applied(docs)
    /\ Raise(BulkErrorKind(0, ~replay_safe, partial \/ acknowledged # {}))

Remaining(failed) == failed

(* _parse_items: the documents whose item reports no success. *)
FailedItems(st) == {d \in pending : st[d] # 200}

(* _send_chunk: an answer per item, in which not all of them succeeded.    *)
(* Only items refused for now are sent again.                              *)
EsItems(st) ==
    LET failed == FailedItems(st)
        part == partial \/ failed # pending
        again == {d \in failed : st[d] \in {429, 503}}
        head == CHOOSE d \in failed : \A x \in failed : d <= x
    IN  /\ Backend = "elasticsearch" /\ "items" \in Faults /\ phase = "sending"
        /\ pending # {} /\ failed # {}
        /\ Applied(pending \ failed)
        /\ IF again = failed /\ tries < MaxRetries
           THEN /\ pending' = Remaining(failed) /\ tries' = tries + 1 /\ partial' = part
                /\ UNCHANGED <<phase, kind, attempt, first, committed>>
           ELSE Raise(BulkErrorKind(st[head], FALSE, part))

-----------------------------------------------------------------------------

(* The kind of an exception: chunks or items committed before it make the  *)
(* write set uncertain, unless it can be written again.  "count" is what   *)
(* the driver reports as committed in the failing chunk (MongoDB).         *)
ExceptionKind(k, count) ==
    IF k # "none" /\ (committed > 0 \/ count > 0) /\ ~replay_safe THEN "uncertain" ELSE k

Exception(is, code) == [is |-> is, code |-> code, says |-> {}, sent |-> TRUE, answer |-> "lost"]

Classified(is, code) ==
    CASE Backend = "elasticsearch" -> classify_elasticsearch_exception(Exception(is, code))
      [] Backend = "clickhouse" -> classify_clickhouse_error(Exception(is, code))
      [] Backend = "mongodb" -> classify_mongodb_error(Exception(is, code), "send")

(* The server was never reached. *)
NoConnection ==
    /\ "connect" \in Faults /\ phase = "sending" /\ pending # {}
    /\ Raise(ExceptionKind(Classified(CASE Backend = "elasticsearch" -> {"ConnectError"}
                                        [] Backend = "clickhouse" -> {"ConnectionError", "OSError"}
                                        [] OTHER -> {"ServerSelectionTimeoutError", "AutoReconnect"}, 0), 0))
    /\ UNCHANGED writes

(* No answer in time: the chunk may have been written. *)
NoAnswer(docs) ==
    /\ "late" \in Faults /\ phase = "sending" /\ pending # {} /\ Applied(docs)
    /\ Raise(ExceptionKind(Classified(CASE Backend = "elasticsearch" -> {"ReadTimeout", "TimeoutException"}
                                        [] Backend = "clickhouse" -> {"TimeoutError", "OSError"}
                                        [] OTHER -> {"NetworkTimeout", "AutoReconnect"}, 0), 0))

(* The connection broke while the answer was awaited. *)
ConnectionLost(docs) ==
    /\ "lost" \in Faults /\ phase = "sending" /\ pending # {} /\ Applied(docs)
    /\ Raise(ExceptionKind(Classified(CASE Backend = "elasticsearch" -> {"ReadError"}
                                        [] Backend = "clickhouse" -> {"ConnectionError", "OSError"}
                                        [] OTHER -> {"AutoReconnect"}, 0), 0))

(* A MongoDB BulkWriteError, or a ClickHouse error code, for the chunk: an *)
(* ordered bulk write stops at the first document that fails.              *)
Refuses(docs, code) ==
    /\ Backend \in {"mongodb", "clickhouse"} /\ "items" \in Faults /\ phase = "sending" /\ pending # {}
    /\ docs # pending /\ (Backend = "clickhouse" => docs = {})
    /\ Ordered => \A d \in docs : \A x \in pending : x < d => x \in docs
    /\ Applied(docs)
    /\ Raise(ExceptionKind(Classified({"BulkWriteError", "ServerError"}, code), Cardinality(docs)))

Next ==
    \/ Begin \/ BadPayload \/ NextChunk \/ Sent \/ ChunkWritten \/ NoConnection
    \/ \E docs \in SUBSET pending :
         \/ NoAnswer(docs) \/ ConnectionLost(docs)
         \/ \E status \in {400, 429, 503} : EsStatus(status, docs)
         \/ \E acknowledged \in SUBSET docs : EsMalformed(docs, acknowledged)
         \/ \E code \in {50, 241, 11000} : Refuses(docs, code)
    \/ \E st \in [pending -> {200, 400, 429, 503}] : EsItems(st)

Spec == Init /\ [][Next]_vars

-----------------------------------------------------------------------------
(* A send that returns has written every document of the batch. *)
SentMeansWritten == phase = "ok" => \A d \in Docs : writes[d] > 0

(* A batch that cannot be written again without harm is never written      *)
(* twice by the retries of the sink and of the executor.                   *)
WrittenOnce == ~replay_safe => \A d \in Docs : writes[d] <= 1

(* A send that fails after documents were written reports UNCERTAIN unless *)
(* the batch can be written again.                                         *)
PartialIsUncertain ==
    phase = "raised" /\ ~replay_safe /\ (\E d \in Docs : writes[d] > 0) => kind = "uncertain"
=============================================================================
