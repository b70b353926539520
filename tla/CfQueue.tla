-------------------------------- MODULE CfQueue -------------------------------
(* A Cloudflare queue pulled by onestep-cf-queues: leases without renewal,    *)
(* acknowledgements and retries staged for one request, and failed requests.  *)
EXTENDS Integers, Sequences, FiniteSets, Functions

CONSTANTS Msgs,
          BatchLimit,   \* ack_batch_size
          MaxStaged,    \* bound on the staged entries
          OnFail,       \* "leave", "retry" or "ack"
          Expiry,       \* may a lease run out: "never", "unheld" (the timeout covers
                        \* handling and staging), or "any" time?
          MaxFaults, MaxRetries, MaxStops, MaxCrashes   \* bounds

VARIABLES state,      \* message -> "queued", "leased", "gone" at the server
          answer,     \* messages leased to a pull whose answer is under way
          hand,       \* leases being handled: a message and whether its lease holds
          acks, rets, \* _pending_acks and _pending_retries, sequences of leases
          flushing,   \* <<>>, <<"loop">>, or the lease whose staging flushes
          handled,    \* messages whose handler succeeded or failed for good
          faults, retries, stops, crashes
bounds == <<faults, retries, stops, crashes>>
vars == <<state, answer, hand, acks, rets, flushing, handled, bounds>>

Init ==
  /\ state = [m \in Msgs |-> "queued"] /\ answer = {} /\ hand = {}
  /\ acks = <<>> /\ rets = <<>> /\ flushing = <<>> /\ handled = {}
  /\ faults = 0 /\ retries = 0 /\ stops = 0 /\ crashes = 0

-----------------------------------------------------------------------------
(* Pulling *)

\* fetch: the server leases the messages when it answers the pull.
Pull(S) ==
  /\ answer = {} /\ S # {} /\ \A m \in S : state[m] = "queued"
  /\ answer' = S /\ state' = [m \in Msgs |-> IF m \in S THEN "leased" ELSE state[m]]
  /\ UNCHANGED <<hand, acks, rets, flushing, handled, bounds>>
\* The answer is parsed: one delivery for each message.
Pulled ==
  /\ answer # {} /\ hand' = hand \cup {<<m, TRUE>> : m \in answer} /\ answer' = {}
  /\ UNCHANGED <<state, acks, rets, flushing, handled, bounds>>
\* A cancelled fetch drops the answer: fetch_is_cancel_safe is True.
FetchCancelled ==
  /\ answer # {} /\ stops < MaxStops /\ stops' = stops + 1 /\ answer' = {}
  /\ UNCHANGED <<state, hand, acks, rets, flushing, handled, faults, retries, crashes>>

Old(d, m) == IF d = <<m, TRUE>> THEN <<m, FALSE>> ELSE d
Held(m) == \E ok \in BOOLEAN : <<m, ok>> \in hand \cup Range(acks) \cup Range(rets)
\* A lease runs out; there is no endpoint to renew it.
LeaseExpires(m) ==
  /\ Expiry = "any" \/ (Expiry = "unheld" /\ ~Held(m))
  /\ state[m] = "leased" /\ m \notin answer
  /\ state' = [state EXCEPT ![m] = "queued"]
  /\ hand' = {Old(d, m) : d \in hand}
  /\ acks' = [i \in DOMAIN acks |-> Old(acks[i], m)]
  /\ rets' = [i \in DOMAIN rets |-> Old(rets[i], m)]
  /\ flushing' = Old(flushing, m)
  /\ UNCHANGED <<answer, handled, bounds>>

-----------------------------------------------------------------------------
(* Settling *)

\* _should_flush, after an entry has been staged.
ShouldFlush == Len(acks) + Len(rets) + 1 >= BatchLimit
Stageable == flushing = <<>> /\ Len(acks) + Len(rets) < MaxStaged

\* stage_ack and stage_retry, under the lock.
StageAck(d) ==
  /\ Stageable /\ acks' = Append(acks, d) /\ flushing' = IF ShouldFlush THEN d ELSE <<>>
  /\ UNCHANGED rets
StageRetry(d) ==
  /\ Stageable /\ rets' = Append(rets, d) /\ flushing' = IF ShouldFlush THEN d ELSE <<>>
  /\ UNCHANGED acks

Ack(d) ==
  /\ d \in hand /\ StageAck(d) /\ hand' = hand \ {d} /\ handled' = handled \cup {d[1]}
  /\ UNCHANGED <<state, answer, bounds>>
\* Mutant: a failed message is acknowledged whatever on_fail says.
FailAcks(d) ==
  /\ d \in hand /\ hand' = hand \ {d} /\ retries < MaxRetries /\ retries' = retries + 1
  /\ StageAck(d) /\ UNCHANGED <<state, answer, handled, faults, stops, crashes>>
\* fail: left to its lease, staged for a retry, or acknowledged.
Fail(d) ==
  /\ d \in hand /\ hand' = hand \ {d} /\ retries < MaxRetries /\ retries' = retries + 1
  /\ \/ OnFail = "ack" /\ StageAck(d) /\ handled' = handled \cup {d[1]}
     \/ OnFail = "retry" /\ StageRetry(d) /\ UNCHANGED handled
     \/ OnFail = "leave" /\ UNCHANGED <<acks, rets, flushing, handled>>
  /\ UNCHANGED <<state, answer, faults, stops, crashes>>
\* retry, and release_unstarted, which flushes at once.
Retry(d) ==
  /\ d \in hand /\ hand' = hand \ {d} /\ retries < MaxRetries /\ retries' = retries + 1
  /\ StageRetry(d)
  /\ UNCHANGED <<state, answer, handled, faults, stops, crashes>>

-----------------------------------------------------------------------------
(* Flushing *)

\* _ack_flush_loop.
FlushAcks ==
  /\ flushing = <<>> /\ acks \o rets # <<>> /\ flushing' = <<"loop">>
  /\ UNCHANGED <<state, answer, hand, acks, rets, handled, bounds>>

Least(a, b) == IF a < b THEN a ELSE b
\* The lists one request takes: acknowledgements first.
NAcks == Least(Len(acks), BatchLimit)
NRets == Least(Len(rets), BatchLimit - NAcks)
Current(q, n) == {q[i][1] : i \in {j \in 1..n : q[j][2]}}
Sent ==
  [m \in Msgs |-> IF m \in Current(acks, NAcks) THEN "gone"
                  ELSE IF m \in Current(rets, NRets) /\ state[m] = "leased" THEN "queued" ELSE state[m]]
\* _flush_locked: a request that is answered takes its entries off the lists.
FlushLocked ==
  /\ flushing # <<>> /\ state' = Sent
  /\ acks' = SubSeq(acks, NAcks + 1, Len(acks)) /\ rets' = SubSeq(rets, NRets + 1, Len(rets))
  /\ flushing' = IF acks' \o rets' = <<>> THEN <<>> ELSE flushing
  /\ UNCHANGED <<answer, hand, handled, bounds>>
\* A request that fails, applied by the server or not: the entries stay staged;
\* the executor retries the delivery whose acknowledgement was flushing.
FlushFails(applied) ==
  /\ flushing # <<>> /\ faults < MaxFaults /\ faults' = faults + 1
  /\ state' = IF applied THEN Sent ELSE state
  /\ rets' = IF flushing # <<"loop">> /\ flushing \in Range(acks) THEN Append(rets, flushing) ELSE rets
  /\ flushing' = <<>>
  /\ UNCHANGED <<answer, hand, acks, handled, retries, stops, crashes>>

Crash ==
  /\ crashes < MaxCrashes /\ crashes' = crashes + 1
  /\ answer' = {} /\ hand' = {} /\ acks' = <<>> /\ rets' = <<>> /\ flushing' = <<>>
  /\ UNCHANGED <<state, handled, faults, retries, stops>>

Next ==
  \/ \E S \in SUBSET Msgs : Pull(S)
  \/ \E m \in Msgs : LeaseExpires(m)
  \/ \E d \in hand : Ack(d) \/ Fail(d) \/ Retry(d)
  \/ \E applied \in BOOLEAN : FlushFails(applied)
  \/ Pulled \/ FetchCancelled \/ FlushAcks \/ FlushLocked \/ Crash
Spec == Init /\ [][Next]_vars
FairSpec == Spec /\ WF_vars(Pulled) /\ WF_vars(FlushAcks) /\ WF_vars(FlushLocked)
  /\ \A m \in Msgs : WF_vars(Pull({m})) /\ WF_vars(LeaseExpires(m)) /\ SF_vars(Ack(<<m, TRUE>>)) /\ SF_vars(Ack(<<m, FALSE>>))

-----------------------------------------------------------------------------
(* Properties *)

\* A message leaves the queue only when its handler has succeeded or failed for
\* good, over expired leases, failed requests and crashes.
GoneWhenHandled == \A m \in Msgs : state[m] = "gone" => m \in handled

\* Without crashes and expired leases a leased message is with somebody: its
\* pull, its handler, or a staged entry. Nothing waits for its lease in vain.
LeasedIsHeld == Expiry = "never" /\ crashes = 0 /\ OnFail # "leave" =>
  \A m \in Msgs : state[m] = "leased" =>
     m \in answer \/ Held(m)

==============================================================================
