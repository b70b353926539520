----------------------------- MODULE BrokersProofs -----------------------------
(*****************************************************************************)
(* Proofs about the message brokers of MCBrokers. The lemmas hold for every  *)
(* configuration c of a connector: any number of messages, any batch size,   *)
(* any bounds. The theorems about MCBrokers take them at its configurations. *)
(*****************************************************************************)
EXTENDS MCBrokers, FiniteSetTheorems, SequenceTheorems, WellFoundedInduction, TLAPS

--------------------------------------------------------------------------------
(* Sets of numbers *)

\* A nonempty set of natural numbers has a smallest element.
LEMMA NatMin ==
  ASSUME NEW T \in SUBSET Nat, T # {}
  PROVE  \E x \in T : \A y \in T : x <= y
  <1>1. PICK x \in T : \A y \in T : ~ (<<y, x>> \in OpToRel(<, Nat))
    BY WFMin, NatLessThanWellFounded
  <1>2. \A y \in T : ~ (y < x)
    BY <1>1 DEF OpToRel
  <1> QED
    BY <1>2

\* A nonempty set of natural numbers up to n has a largest element.
LEMMA NatMax ==
  ASSUME NEW n \in Nat, NEW T \in SUBSET (0..n), T # {}
  PROVE  \E x \in T : \A y \in T : y <= x
  <1> DEFINE D == {d \in 0..n : n - d \in T}
  <1>1. D \in SUBSET Nat /\ D # {}
    <2>1. PICK t \in T : TRUE
      OBVIOUS
    <2>2. n - t \in 0..n /\ n - (n - t) = t
      OBVIOUS
    <2> QED
      BY <2>2
  <1>2. PICK d \in D : \A e \in D : d <= e
    BY <1>1, NatMin
  <1>3. \A y \in T : n - y \in D
    OBVIOUS
  <1> QED
    BY <1>2, <1>3

--------------------------------------------------------------------------------
(* Kafka *)

\* Offsets are numbers; nothing else is asked of a topic's configuration.
KafkaConfig(c) == c.LastOffset \in Nat

\* Every record below o was handled.
Passed(c, o) == \A r \in Kafka(c)!Records : r < o => r \in done

\* What makes NothingSkipped inductive: every offset that may still be committed
\* (the tracker's next offset, the commit under way) has only handled records
\* below it, and so has the position from which a tracker without a state starts.
KafkaInv(c) ==
  /\ Kafka(c)!TypeOK
  /\ fresh \subseteq Kafka(c)!Records /\ completed \subseteq Kafka(c)!Records
  /\ Passed(c, broker) /\ Passed(c, next) /\ Passed(c, commit)
  /\ next = 0 => /\ fresh = {} /\ \A r \in Kafka(c)!Records : hand[r] = 0
                 /\ Passed(c, position)

\* Smallest and Largest are what they are named for.
LEMMA KafkaBounds ==
  ASSUME NEW c, KafkaConfig(c), NEW S \in SUBSET Kafka(c)!Records, S # {}
  PROVE  /\ Kafka(c)!Smallest(S) \in S /\ \A p \in S : Kafka(c)!Smallest(S) <= p
         /\ Kafka(c)!Largest(S) \in S /\ \A p \in S : p <= Kafka(c)!Largest(S)
  <1>1. S \in SUBSET Nat /\ S \in SUBSET (0..c.LastOffset)
    BY DEF KafkaConfig, Kafka!Records
  <1>2. \E x \in S : \A y \in S : x <= y
    BY <1>1, NatMin
  <1>3. \E x \in S : \A y \in S : y <= x
    BY <1>1, NatMax DEF KafkaConfig
  <1>4. Kafka(c)!Smallest(S) \in S /\ \A p \in S : Kafka(c)!Smallest(S) <= p
    BY <1>2 DEF Kafka!Smallest
  <1>5. Kafka(c)!Largest(S) \in S /\ \A p \in S : p <= Kafka(c)!Largest(S)
    BY <1>3 DEF Kafka!Largest
  <1> QED
    BY <1>4, <1>5

\* _next_committable_offset exists and passes completed offsets only.
LEMMA KafkaCommittable ==
  ASSUME NEW c, KafkaConfig(c), NEW n \in 1..c.LastOffset + 1,
         NEW S \in SUBSET Kafka(c)!Records
  PROVE  /\ Kafka(c)!Committable(n, S) \in n..c.LastOffset + 1
         /\ \A p \in n..Kafka(c)!Committable(n, S) - 1 : p \in S
  <1> DEFINE T == {o \in n..c.LastOffset + 1 : o \notin S}
  <1>1. T \in SUBSET Nat /\ c.LastOffset + 1 \in T
    BY DEF KafkaConfig, Kafka!Records
  <1>2. PICK o \in T : \A q \in T : o <= q
    BY <1>1, NatMin
  <1>3. \A p \in n..o - 1 : p \in S
    BY <1>1, <1>2
  <1> QED
    BY <1>2, <1>3 DEF Kafka!Committable

\* The tracker starts with its invariant.
LEMMA KafkaInit ==
  ASSUME NEW c, KafkaConfig(c)
  PROVE  Kafka(c)!Init => KafkaInv(c)
  BY DEF KafkaConfig, KafkaInv, Passed, Kafka!Init, Kafka!TypeOK, Kafka!Records, Kafka!Offsets

\* The cardinality the module uses is the library's.
LEMMA KafkaCardinality ==
  ASSUME NEW c, NEW S
  PROVE  Kafka(c)!Cardinality(S) = Cardinality(S)
  BY DEF Kafka!Cardinality, Cardinality

\* One fetch takes a nonempty set of records, the first available one included.
LEMMA KafkaTaken ==
  ASSUME NEW c, KafkaConfig(c), Kafka(c)!Available # {}, NEW n \in Nat \ {0}
  PROVE  /\ Kafka(c)!Taken(n) \subseteq Kafka(c)!Available /\ Kafka(c)!Taken(n) # {}
         /\ \A r \in Kafka(c)!Available : Kafka(c)!Smallest(Kafka(c)!Taken(n)) <= r
  <1> DEFINE A == Kafka(c)!Available
             m == Kafka(c)!Smallest(A)
             T == Kafka(c)!Taken(n)
  <1>1. A \in SUBSET Kafka(c)!Records /\ \A r \in A : r \in Nat
    BY DEF Kafka!Available, Kafka!Records, KafkaConfig
  <1>2. m \in A /\ \A p \in A : m <= p
    BY <1>1, KafkaBounds
  <1>3. {q \in A : q < m} = {}
    BY <1>1, <1>2
  <1>4. Kafka(c)!Cardinality({q \in A : q < m}) < n
    BY <1>3, FS_EmptySet, KafkaCardinality
  <1>5. m \in T /\ T \subseteq A
    BY <1>2, <1>4 DEF Kafka!Taken
  <1>6. Kafka(c)!Smallest(T) <= m /\ Kafka(c)!Smallest(T) \in T
    BY <1>1, <1>5, KafkaBounds
  <1> QED
    BY <1>1, <1>2, <1>5, <1>6

\* Every step, or none, keeps it.
LEMMA KafkaStep ==
  ASSUME NEW c, KafkaConfig(c), KafkaInv(c), [Kafka(c)!Next]_(Kafka(c)!vars)
  PROVE  KafkaInv(c)'
  <1> USE DEF KafkaConfig, KafkaInv, Passed, Kafka!TypeOK, Kafka!Offsets, Kafka!tracker, Kafka!bounds
  <1>0. \A r \in Kafka(c)!Records : r \in 1..c.LastOffset
    BY DEF Kafka!Records
  <1>1. CASE Kafka(c)!OpenConsumer
    BY <1>0, <1>1 DEF Kafka!OpenConsumer
  <1>2. ASSUME NEW n, Kafka(c)!Fetch(n)
        PROVE  KafkaInv(c)'
    <2> DEFINE out == Kafka(c)!Taken(n)
               low == Kafka(c)!Smallest(out)
               high == Kafka(c)!Largest(out)
    <2>1. n \in Nat \ {0} /\ Kafka(c)!Available # {}
      BY <1>2 DEF Kafka!Fetch
    <2>2. /\ out \in SUBSET Kafka(c)!Records /\ out # {}
          /\ \A r \in Kafka(c)!Available : low <= r
      BY <2>1, KafkaTaken DEF Kafka!Available
    <2>3. low \in out /\ high \in out
      BY <2>2, KafkaBounds
    <2>4. low \in 1..c.LastOffset /\ high \in 1..c.LastOffset
      BY <1>0, <2>2, <2>3
    <2>5. /\ fresh' = out /\ position' = 1 + high /\ next' = Kafka(c)!State(low)
          /\ fetched' = fetched \cup out
          /\ UNCHANGED <<broker, started, completed, hand, commit, done>>
      BY <1>2 DEF Kafka!Fetch
    <2>6. next' \in 1..c.LastOffset + 1
      BY <2>4, <2>5 DEF Kafka!State
    <2>7. Passed(c, next)'
      <3>1. \A r \in Kafka(c)!Records : r < low => r < position
        BY <1>0, <2>2, <2>4 DEF Kafka!Available
      <3>2. CASE next = 0
        BY <2>5, <3>1, <3>2 DEF Kafka!State
      <3>3. CASE next # 0
        BY <1>0, <2>4, <2>5, <3>3 DEF Kafka!State
      <3> QED
        BY <3>2, <3>3
    <2> HIDE DEF out, low, high
    <2> QED
      BY <1>0, <2>2, <2>3, <2>4, <2>5, <2>6, <2>7
  <1>3. CASE Kafka(c)!Start
    <2>1. Kafka(c)!Smallest(fresh) \in fresh
      BY <1>3, KafkaBounds DEF Kafka!Start
    <2>2. next' \in 1..c.LastOffset + 1 /\ next' <= next
      BY <1>0, <1>3, <2>1 DEF Kafka!Start, Kafka!State
    <2>3. hand' \in [Kafka(c)!Records -> Nat]
      BY <1>3 DEF Kafka!Start
    <2> QED
      BY <1>0, <1>3, <2>2, <2>3 DEF Kafka!Start
  <1>4. CASE Kafka(c)!Release
    <2>1. Kafka(c)!Smallest(fresh) \in fresh
      BY <1>4, KafkaBounds DEF Kafka!Release
    <2>2. next' \in 1..c.LastOffset + 1 /\ next' <= next
      BY <1>0, <1>4, <2>1 DEF Kafka!Release, Kafka!State
    <2>3. position' \in 0..c.LastOffset + 1
      <3>1. CASE Kafka(c)!Released = {}
        BY <1>4, <3>1 DEF Kafka!Release
      <3>2. CASE Kafka(c)!Released # {}
        BY <1>0, <1>4, <3>2, KafkaBounds DEF Kafka!Release, Kafka!Released
      <3> QED
        BY <3>1, <3>2
    <2> QED
      BY <1>0, <1>4, <2>2, <2>3 DEF Kafka!Release
  <1>5. ASSUME NEW r \in Kafka(c)!Records, Kafka(c)!Ack(r)
        PROVE  KafkaInv(c)'
    <2>1. next # 0 /\ next' \in 1..c.LastOffset + 1 /\ next' <= next
      BY <1>0, <1>5 DEF Kafka!Ack, Kafka!State
    <2>2. completed' \in SUBSET Kafka(c)!Records /\ completed' \subseteq done'
      BY <1>5 DEF Kafka!Ack
    <2> DEFINE o == Kafka(c)!Committable(next', completed')
    <2>3. o \in next'..c.LastOffset + 1 /\ \A p \in next'..o - 1 : p \in completed'
      BY <2>1, <2>2, KafkaCommittable
    <2>4. commit' \in {0, o}
      BY <1>5 DEF Kafka!Ack
    <2>5. \A q \in Kafka(c)!Records : q < o => q \in done'
      <3> SUFFICES ASSUME NEW q \in Kafka(c)!Records, q < o
                   PROVE  q \in done'
        OBVIOUS
      <3> HIDE DEF o
      <3>1. CASE q < next'
        BY <1>0, <1>5, <2>1, <3>1 DEF Kafka!Ack
      <3>2. CASE ~(q < next')
        <4>1. q \in next'..o - 1
          BY <1>0, <2>1, <2>3, <3>2
        <4> QED
          BY <2>2, <2>3, <4>1
      <3> QED
        BY <3>1, <3>2
    <2>6. hand' \in [Kafka(c)!Records -> Nat]
      BY <1>5 DEF Kafka!Ack
    <2> HIDE DEF o
    <2>7. Passed(c, commit)' /\ Passed(c, next)' /\ Passed(c, broker)'
      BY <1>0, <1>5, <2>1, <2>4, <2>5 DEF Kafka!Ack
    <2>8. /\ commit' \in 0..c.LastOffset + 1 /\ next' # 0
          /\ UNCHANGED <<broker, position, fetched, started, fresh>>
      BY <1>5, <2>1, <2>3, <2>4 DEF Kafka!Ack
    <2> QED
      BY <2>1, <2>2, <2>6, <2>7, <2>8
  <1>6. CASE Kafka(c)!Committed
    BY <1>0, <1>6 DEF Kafka!Committed
  <1>7. CASE Kafka(c)!CommitFails
    BY <1>0, <1>7 DEF Kafka!CommitFails
  <1>8. ASSUME NEW r \in Kafka(c)!Records, Kafka(c)!Retry(r)
        PROVE  KafkaInv(c)'
    <2>1. hand' \in [Kafka(c)!Records -> Nat]
      BY <1>8 DEF Kafka!Retry
    <2> QED
      BY <1>0, <1>8, <2>1 DEF Kafka!Retry
  <1>9. CASE Kafka(c)!Crash
    BY <1>0, <1>9 DEF Kafka!Crash
  <1>10. ASSUME NEW o \in Kafka(c)!Offsets, Kafka(c)!Rebalance(o)
         PROVE  KafkaInv(c)'
    BY <1>0, <1>10 DEF Kafka!Rebalance
  <1>11. CASE UNCHANGED Kafka(c)!vars
    BY <1>11 DEF Kafka!vars
  <1> QED
    BY <1>1, <1>2, <1>3, <1>4, <1>5, <1>6, <1>7, <1>8, <1>9, <1>10, <1>11 DEF Kafka!Next

\* The committed offset of a topic never passes a record that was not handled, for
\* every log, batch size and bound: acknowledgements in any order, seeks back by
\* retries and releases, failed commits, rebalances and crashes included.
THEOREM KafkaSafe ==
  ASSUME NEW c, KafkaConfig(c)
  PROVE  Kafka(c)!Spec => [](Kafka(c)!TypeOK /\ Kafka(c)!NothingSkipped)
  <1>1. Kafka(c)!Init => KafkaInv(c)
    BY KafkaInit
  <1>2. KafkaInv(c) /\ [Kafka(c)!Next]_(Kafka(c)!vars) => KafkaInv(c)'
    BY KafkaStep
  <1>3. KafkaInv(c) => Kafka(c)!TypeOK /\ Kafka(c)!NothingSkipped
    BY DEF KafkaInv, Passed, Kafka!NothingSkipped
  <1> QED
    BY <1>1, <1>2, <1>3, PTL DEF Kafka!Spec

--------------------------------------------------------------------------------
(* Redis *)

\* The numbers of a stream's configuration are natural numbers.
RedisConfig(c) ==
  c.MaxAdded \in Nat /\ c.Batch \in Nat /\ c.MaxLen \in Nat /\ c.MaxCrashes \in Nat

\* What makes NoneForgotten inductive: the lists and the settled entries hold only
\* entries that were delivered, on one list each, and this process's name is one of
\* the consumers'.
RedisInv(c) ==
  /\ Redis(c)!TypeOK /\ Redis(c)!NoneForgotten
  /\ added \in 0..c.MaxAdded /\ floor \in 0..added /\ cursor \in -1..added /\ start \in Int
  /\ crashes \in 0..c.MaxCrashes /\ me \in 0..crashes
  /\ pel \in [0..c.MaxCrashes -> SUBSET (1..cursor)] /\ done \subseteq 1..cursor
  /\ hand \in [Redis(c)!Entries -> Nat]

\* The stream starts with its invariant.
LEMMA RedisInit ==
  ASSUME NEW c, RedisConfig(c)
  PROVE  Redis(c)!Init => RedisInv(c)
  BY DEF RedisConfig, RedisInv, Redis!Init, Redis!TypeOK, Redis!NoneForgotten, Redis!Entries

\* The cardinality the module uses is the library's.
LEMMA RedisCardinality ==
  ASSUME NEW c, NEW S
  PROVE  Redis(c)!Cardinality(S) = Cardinality(S)
  BY DEF Redis!Cardinality, Cardinality

\* Max is the largest element.
LEMMA RedisMax ==
  ASSUME NEW c, NEW n \in Nat, NEW S \in SUBSET (0..n), S # {}
  PROVE  Redis(c)!Max(S) \in S /\ \A e \in S : e <= Redis(c)!Max(S)
  <1>1. PICK x \in S : \A y \in S : y <= x
    BY NatMax
  <1>2. \A y \in S : x >= y
    BY <1>1
  <1>3. Redis(c)!Max(S) \in S /\ \A e \in S : Redis(c)!Max(S) >= e
    BY <1>2 DEF Redis!Max
  <1> QED
    BY <1>3

\* The n first entries of a set are a prefix of it.
LEMMA RedisFirst ==
  ASSUME NEW c, NEW m \in Nat, NEW S \in SUBSET (1..m), NEW n \in Int,
         NEW e \in Redis(c)!First(S, n), NEW f \in S, f <= e
  PROVE  f \in Redis(c)!First(S, n)
  <1> DEFINE E == {g \in S : g < e}
             F == {g \in S : g < f}
  <1>1. IsFiniteSet(E) /\ F \in SUBSET E
    <2>1. IsFiniteSet(1..m)
      BY FS_Interval
    <2>2. IsFiniteSet(S)
      BY <2>1, FS_Subset
    <2>3. E \in SUBSET S
      OBVIOUS
    <2>4. IsFiniteSet(E)
      BY <2>2, <2>3, FS_Subset
    <2>5. e \in S
      BY DEF Redis!First
    <2>6. \A g \in S : g < f => g < e
      BY <2>5
    <2> QED
      BY <2>4, <2>6
  <1>2. Cardinality(F) <= Cardinality(E) /\ Cardinality(F) \in Nat /\ Cardinality(E) \in Nat
    BY <1>1, FS_Subset, FS_CardinalityType
  <1>3. Cardinality(E) < n
    BY RedisCardinality DEF Redis!First
  <1>4. Cardinality(F) < n
    BY <1>2, <1>3
  <1> QED
    BY <1>4, RedisCardinality DEF Redis!First

\* Every step, or none, keeps it.
LEMMA RedisStep ==
  ASSUME NEW c, RedisConfig(c), RedisInv(c), [Redis(c)!Next]_(Redis(c)!vars)
  PROVE  RedisInv(c)'
  <1> USE DEF RedisConfig, RedisInv, Redis!TypeOK, Redis!NoneForgotten, Redis!bounds
  <1>0. Redis(c)!Entries = 1..c.MaxAdded
    BY DEF Redis!Entries
  <1>1. CASE Redis(c)!Open
    BY <1>0, <1>1 DEF Redis!Open
  <1>2. CASE Redis(c)!OpenFails
    BY <1>0, <1>2 DEF Redis!OpenFails
  <1>3. CASE Redis(c)!Reset
    BY <1>0, <1>3 DEF Redis!Reset
  <1>4. CASE Redis(c)!Send
    BY <1>0, <1>4 DEF Redis!Send
  <1>5. CASE Redis(c)!Crash
    BY <1>0, <1>5 DEF Redis!Crash
  <1>6. ASSUME NEW n \in 1..c.Batch, Redis(c)!FetchPending(n)
        PROVE  RedisInv(c)'
    <2>1. Redis(c)!Pending(n) \subseteq pel[me]
      BY DEF Redis!Pending, Redis!ProcessMessages, Redis!First
    <2>2. hand' \in [Redis(c)!Entries -> Nat]
      BY <1>6 DEF Redis!FetchPending, Redis!Handed
    <2>3. \A e \in Redis(c)!Entries : hand'[e] > 0 => hand[e] > 0 \/ e \in pel[me]
      BY <1>6, <2>1 DEF Redis!FetchPending, Redis!Handed
    <2> QED
      BY <1>0, <1>6, <2>2, <2>3 DEF Redis!FetchPending
  <1>7. ASSUME NEW n \in 1..c.Batch, Redis(c)!FetchNew(n)
        PROVE  RedisInv(c)'
    <2> DEFINE S == {e \in Redis(c)!Entries : e > cursor /\ e > floor /\ e <= added}
               out == Redis(c)!First(S, n)
    <2>1. /\ out # {} /\ cursor' = Redis(c)!Max(out)
          /\ pel' = [pel EXCEPT ![me] = @ \cup out]
          /\ hand' = Redis(c)!Handed(Redis(c)!ProcessMessages(out))
          /\ UNCHANGED <<added, floor, start, me, opened, refs, done, crashes>>
      BY <1>7 DEF Redis!FetchNew
    <2>2. out \subseteq S /\ S \subseteq 1..added /\ \A e \in S : e > cursor
      BY <1>0 DEF Redis!First
    <2>3. /\ cursor' \in out /\ \A e \in out : e <= cursor'
          /\ cursor' \in 1..added /\ cursor' > cursor
      <3>1. out \in SUBSET (0..added) /\ added \in Nat
        BY <2>2
      <3> HIDE DEF S, out
      <3>2. cursor' \in out /\ \A e \in out : e <= cursor'
        BY <2>1, <3>1, RedisMax
      <3> QED
        BY <2>2, <3>1, <3>2
    <2>4. out \subseteq 1..cursor'
      BY <2>2, <2>3
    <2>5. \A e \in S : e <= cursor' => e \in out
      <3>1. S \in SUBSET (1..added) /\ added \in Nat /\ n \in Int
        BY <2>2
      <3> QED
        BY <2>3, <3>1, RedisFirst
    <2>6. hand' \in [Redis(c)!Entries -> Nat]
      BY <2>1 DEF Redis!Handed
    <2>7. \A e \in Redis(c)!Entries : hand'[e] > 0 => hand[e] > 0 \/ e \in out
      BY <2>1 DEF Redis!Handed, Redis!ProcessMessages
    <2>8. \A e \in out : e \notin done /\ \A k \in 0..c.MaxCrashes : e \notin pel[k]
      <3> SUFFICES ASSUME NEW e \in out
                   PROVE  e \notin 1..cursor
        OBVIOUS
      <3> QED
        BY <2>2
    <2>9. me \in 0..c.MaxCrashes
      OBVIOUS
    <2>10. pel' \in [0..c.MaxCrashes -> SUBSET (1..cursor')] /\ done' \subseteq 1..cursor'
      <3>1. 1..cursor \subseteq 1..cursor'
        BY <2>2, <2>3
      <3> QED
        BY <2>1, <2>4, <2>9, <3>1
    <2>11. \A k \in 0..c.MaxCrashes : pel'[k] = IF k = me THEN pel[k] \cup out ELSE pel[k]
      BY <2>1
    <2>12. Redis(c)!NoneForgotten'
      <3> SUFFICES ASSUME NEW e \in Redis(c)!Entries,
                          start < e, e <= cursor', e > floor, e \notin done
                   PROVE  \E k \in 0..c.MaxCrashes : e \in pel'[k]
        BY <2>1, <2>10
      <3>1. CASE e <= cursor
        BY <2>11, <3>1
      <3>2. CASE ~(e <= cursor)
        <4>1. e \in S
          BY <1>0, <2>3, <3>2
        <4> QED
          BY <2>5, <2>9, <2>11, <4>1
      <3> QED
        BY <3>1, <3>2
    <2> HIDE DEF S, out
    <2>13. Redis(c)!TypeOK'
      BY <2>1, <2>3, <2>6, <2>7, <2>8, <2>9, <2>10, <2>11
    <2> QED
      BY <2>1, <2>3, <2>6, <2>10, <2>12, <2>13
  <1>8. ASSUME NEW e \in Redis(c)!Entries, Redis(c)!Ack(e)
        PROVE  RedisInv(c)'
    <2>1. hand' \in [Redis(c)!Entries -> Nat] /\ \A f \in Redis(c)!Entries : hand'[f] <= hand[f]
      BY <1>8 DEF Redis!Ack
    <2>2. /\ pel' \in [0..c.MaxCrashes -> SUBSET (1..cursor)]
          /\ \A k \in 0..c.MaxCrashes : pel'[k] = pel[k] \ {e}
      BY <1>8 DEF Redis!Ack
    <2>3. e \in 1..cursor /\ done' = done \cup {e}
      <3>1. e \in pel[me] \cup done /\ me \in 0..c.MaxCrashes
        BY <1>8 DEF Redis!Ack
      <3> QED
        BY <1>8, <3>1 DEF Redis!Ack
    <2>4. UNCHANGED <<added, floor, cursor, start, me, opened, refs, crashes>>
      BY <1>8 DEF Redis!Ack
    <2>5. Redis(c)!NoneForgotten'
      BY <2>2, <2>3, <2>4
    <2>6. Redis(c)!TypeOK'
      <3>1. \A f \in Redis(c)!Entries : hand'[f] > 0 => f \in pel'[me] \cup done'
        <4> SUFFICES ASSUME NEW f \in Redis(c)!Entries, hand'[f] > 0
                     PROVE  f \in pel'[me] \cup done'
          OBVIOUS
        <4>1. hand[f] > 0
          BY <2>1
        <4> QED
          BY <2>2, <2>3, <4>1
      <3>2. \A k \in 0..c.MaxCrashes : pel'[k] \subseteq pel[k] /\ e \notin pel'[k]
        BY <2>2
      <3>3. \A k \in 0..c.MaxCrashes : pel'[k] \subseteq 1..added /\ pel'[k] \cap done' = {}
        BY <2>3, <3>2
      <3> QED
        BY <2>2, <2>4, <3>1, <3>2, <3>3
    <2> QED
      BY <2>1, <2>2, <2>3, <2>4, <2>5, <2>6
  <1>9. ASSUME NEW e \in Redis(c)!Entries, Redis(c)!Retry(e)
        PROVE  RedisInv(c)'
    BY <1>0, <1>9 DEF Redis!Retry
  <1>10. CASE UNCHANGED Redis(c)!vars
    BY <1>10 DEF Redis!vars
  <1> QED
    BY <1>1, <1>2, <1>3, <1>4, <1>5, <1>6, <1>7, <1>8, <1>9, <1>10 DEF Redis!Next

\* No entry that the group has delivered is forgotten before it is settled, for every
\* stream, batch size, trimming and consumer name.
THEOREM RedisSafe ==
  ASSUME NEW c, RedisConfig(c)
  PROVE  Redis(c)!Spec => [](Redis(c)!TypeOK /\ Redis(c)!NoneForgotten)
  <1>1. Redis(c)!Init => RedisInv(c)
    BY RedisInit
  <1>2. RedisInv(c) /\ [Redis(c)!Next]_(Redis(c)!vars) => RedisInv(c)'
    BY RedisStep
  <1>3. RedisInv(c) => Redis(c)!TypeOK /\ Redis(c)!NoneForgotten
    BY DEF RedisInv
  <1> QED
    BY <1>1, <1>2, <1>3, PTL DEF Redis!Spec

--------------------------------------------------------------------------------
(* Counting *)

\* The members of S up to t.
UpTo(S, t) == {j \in S : j <= t}

\* Sets of numbers up to n are finite, and so are their parts.
LEMMA UpToFinite ==
  ASSUME NEW n \in Nat, NEW S \in SUBSET (1..n)
  PROVE  /\ IsFiniteSet(S) /\ Cardinality(S) \in Nat
         /\ \A t : UpTo(S, t) \in SUBSET S
         /\ \A t : IsFiniteSet(UpTo(S, t)) /\ Cardinality(UpTo(S, t)) \in Nat
  <1>1. IsFiniteSet(1..n)
    BY FS_Interval
  <1>2. IsFiniteSet(S)
    BY <1>1, FS_Subset
  <1>3. \A t : UpTo(S, t) \in SUBSET S
    BY DEF UpTo
  <1> QED
    BY <1>2, <1>3, FS_Subset, FS_CardinalityType

\* A finite set of positive numbers with at least k members has a k-th one.
LEMMA NthExists ==
  ASSUME NEW n \in Nat, NEW S \in SUBSET (1..n), NEW k \in 1..Cardinality(S)
  PROVE  \E i \in S : Cardinality(UpTo(S, i)) = k
  <1> DEFINE N(t) == Cardinality(UpTo(S, t))
             T == {t \in Nat : N(t) >= k}
  <1>1. /\ \A t : IsFiniteSet(UpTo(S, t)) /\ N(t) \in Nat
        /\ Cardinality(S) \in Nat /\ k \in Nat /\ k >= 1
    <2>1. Cardinality(S) \in Nat /\ \A t : IsFiniteSet(UpTo(S, t)) /\ N(t) \in Nat
      BY UpToFinite
    <2>2. k \in Nat /\ k >= 1
      BY <2>1
    <2> QED
      BY <2>1, <2>2
  <1>2. \A j \in S : j \in Nat /\ 1 <= j /\ j <= n
    OBVIOUS
  <1>3. n \in T
    <2>1. UpTo(S, n) = S
      BY <1>2 DEF UpTo
    <2> QED
      BY <1>1, <2>1
  <1> HIDE DEF N
  <1>4. PICK t \in T : \A u \in T : t <= u
    BY <1>3, NatMin
  <1>5. t # 0
    <2>1. UpTo(S, 0) = {}
      <3>1. \A j \in S : ~(j <= 0)
        BY <1>2
      <3> QED
        BY <3>1 DEF UpTo
    <2>2. N(0) = 0
      BY <2>1, FS_EmptySet DEF N
    <2> QED
      BY <1>1, <1>4, <2>2
  <1>6. t \in Nat /\ t - 1 \in Nat /\ ~(N(t - 1) >= k) /\ N(t) >= k
    BY <1>4, <1>5
  <1>7. t \in S
    <2>1. SUFFICES ASSUME t \notin S
                   PROVE  FALSE
      OBVIOUS
    <2>2. \A j \in S : j <= t <=> j <= t - 1
      BY <1>2, <1>6, <2>1
    <2>3. UpTo(S, t) = UpTo(S, t - 1)
      BY <2>2 DEF UpTo
    <2> QED
      BY <1>6, <2>3 DEF N
  <1>8. UpTo(S, t) = UpTo(S, t - 1) \cup {t} /\ t \notin UpTo(S, t - 1)
    <2>1. \A j \in S : j <= t <=> j <= t - 1 \/ j = t
      BY <1>2, <1>6
    <2>2. ~(t <= t - 1)
      BY <1>6
    <2> QED
      BY <1>7, <2>1, <2>2, Zenon DEF UpTo
  <1>9. N(t) = N(t - 1) + 1
    <2>1. IsFiniteSet(UpTo(S, t - 1))
      BY <1>1
    <2>2. Cardinality(UpTo(S, t - 1) \cup {t}) = Cardinality(UpTo(S, t - 1)) + 1
      BY <1>8, <2>1, FS_AddElement
    <2> QED
      BY <1>8, <2>2 DEF N
  <1>10. N(t) = k
    <2>1. N(t - 1) \in Nat
      BY <1>1
    <2> QED
      BY <1>1, <1>6, <1>9, <2>1
  <1> QED
    BY <1>7, <1>10 DEF N

\* Two members with as many members up to them are the same.
LEMMA NthUnique ==
  ASSUME NEW n \in Nat, NEW S \in SUBSET (1..n), NEW i \in S, NEW k \in S,
         Cardinality(UpTo(S, i)) = Cardinality(UpTo(S, k))
  PROVE  i = k
  <1>1. \A j \in S : j \in Nat
    OBVIOUS
  <1>2. ASSUME NEW a \in S, NEW b \in S, a < b
        PROVE  Cardinality(UpTo(S, a)) # Cardinality(UpTo(S, b))
    <2>1. \A j \in S : j <= a => j <= b
      BY <1>1, <1>2
    <2>2. ~(b <= a) /\ b <= b
      BY <1>1, <1>2
    <2>3. UpTo(S, a) \in SUBSET UpTo(S, b) /\ b \notin UpTo(S, a) /\ b \in UpTo(S, b)
      BY <2>1, <2>2 DEF UpTo
    <2> QED
      BY <2>3, UpToFinite, FS_Subset
  <1> QED
    BY <1>1, <1>2

\* The first n elements of a sequence.
LEMMA TakeFirst ==
  ASSUME NEW S, NEW q \in Seq(S), NEW n \in 0..Len(q)
  PROVE  /\ SubSeq(q, 1, n) \in Seq(S) /\ Len(SubSeq(q, 1, n)) = n
         /\ \A i \in 1..n : SubSeq(q, 1, n)[i] = q[i]
  <1>1. Len(q) \in Nat /\ \A i \in 1..Len(q) : q[i] \in S
    BY LenProperties, ElementOfSeq
  <1>2. n \in Int /\ 1 \in Int /\ \A i \in 1..n : q[i] \in S
    BY <1>1
  <1>3. /\ SubSeq(q, 1, n) \in Seq(S)
        /\ Len(SubSeq(q, 1, n)) = IF 1 <= n THEN n - 1 + 1 ELSE 0
        /\ \A i \in 1..n - 1 + 1 : SubSeq(q, 1, n)[i] = q[1 + i - 1]
    BY <1>1, <1>2, SubSeqProperties
  <1> QED
    BY <1>1, <1>3

\* A sequence without its first n elements.
LEMMA DropFirst ==
  ASSUME NEW S, NEW q \in Seq(S), NEW n \in 0..Len(q)
  PROVE  /\ SubSeq(q, n + 1, Len(q)) \in Seq(S)
         /\ Len(SubSeq(q, n + 1, Len(q))) = Len(q) - n
         /\ \A i \in 1..Len(q) - n : SubSeq(q, n + 1, Len(q))[i] = q[n + i]
  <1>1. Len(q) \in Nat /\ \A i \in 1..Len(q) : q[i] \in S
    BY LenProperties, ElementOfSeq
  <1>2. \A i \in n + 1..Len(q) : q[i] \in S
    BY <1>1
  <1>3. /\ SubSeq(q, n + 1, Len(q)) \in Seq(S)
        /\ Len(SubSeq(q, n + 1, Len(q))) = IF n + 1 <= Len(q) THEN Len(q) - (n + 1) + 1 ELSE 0
        /\ \A i \in 1..Len(q) - (n + 1) + 1 : SubSeq(q, n + 1, Len(q))[i] = q[n + 1 + i - 1]
    BY <1>1, <1>2, SubSeqProperties
  <1> QED
    BY <1>1, <1>3

--------------------------------------------------------------------------------
(* SQS *)

\* The batch size of a queue is a number.
SqsConfig(c) == c.BatchLimit \in Nat

Receipts(c) == c.Msgs \X BOOLEAN

\* A receipt that is not current any more is one of the same message.
LEMMA OldReceipt ==
  ASSUME NEW c, NEW m \in c.Msgs, NEW d \in Receipts(c)
  PROVE  /\ (IF d = <<m, TRUE>> THEN <<m, FALSE>> ELSE d) \in Receipts(c)
         /\ (IF d = <<m, TRUE>> THEN <<m, FALSE>> ELSE d)[1] = d[1]
  <1>1. <<m, FALSE>> \in Receipts(c) /\ <<m, FALSE>>[1] = m /\ <<m, TRUE>>[1] = m
    BY DEF Receipts
  <1>2. CASE d = <<m, TRUE>>
    BY <1>1, <1>2
  <1>3. CASE d # <<m, TRUE>>
    BY <1>3
  <1> QED
    BY <1>2, <1>3

\* The cardinality the module uses is the library's.
LEMMA SqsCardinality ==
  ASSUME NEW c, NEW S
  PROVE  Sqs(c)!Cardinality(S) = Cardinality(S)
  BY DEF Sqs!Cardinality, Cardinality

\* A flush splits the staged deletes into the batch and the remainder.
LEMMA SqsBatch ==
  ASSUME NEW c, SqsConfig(c), pending \in Seq(Receipts(c))
  PROVE  \E b \in 0..Len(pending) :
           /\ Sqs(c)!Batch \in Seq(Receipts(c)) /\ Len(Sqs(c)!Batch) = b
           /\ DOMAIN Sqs(c)!Batch = 1..b
           /\ \A i \in 1..b : Sqs(c)!Batch[i] = pending[i]
           /\ Sqs(c)!Remainder \in Seq(Receipts(c)) /\ Len(Sqs(c)!Remainder) = Len(pending) - b
           /\ \A i \in 1..Len(pending) - b : Sqs(c)!Remainder[i] = pending[b + i]
  <1> DEFINE b == IF Len(pending) < c.BatchLimit THEN Len(pending) ELSE c.BatchLimit
  <1>1. Len(pending) \in Nat /\ b \in 0..Len(pending) /\ b \in Nat
    BY LenProperties DEF SqsConfig
  <1>2. \A i \in 1..Len(pending) : pending[i] \in Receipts(c)
    BY ElementOfSeq
  <1>3. Sqs(c)!Batch = SubSeq(pending, 1, b)
    BY DEF Sqs!Batch
  <1> HIDE DEF b
  <1>4. /\ Sqs(c)!Batch \in Seq(Receipts(c)) /\ Len(Sqs(c)!Batch) = b
        /\ \A i \in 1..b : Sqs(c)!Batch[i] = pending[i]
    <2>1. \A i \in 1..b : pending[i] \in Receipts(c)
      BY <1>1, <1>2
    <2> QED
      BY <1>1, <1>3, <2>1, SubSeqProperties
  <1>5. DOMAIN Sqs(c)!Batch = 1..b
    BY <1>4, LenProperties
  <1>6. Sqs(c)!Remainder = SubSeq(pending, b + 1, Len(pending))
    BY <1>4 DEF Sqs!Remainder
  <1>7. /\ Sqs(c)!Remainder \in Seq(Receipts(c)) /\ Len(Sqs(c)!Remainder) = Len(pending) - b
        /\ \A i \in 1..Len(pending) - b : Sqs(c)!Remainder[i] = pending[b + i]
    BY <1>1, <1>6, DropFirst
  <1> QED
    BY <1>1, <1>4, <1>5, <1>7

\* What stays staged after a flush: the failed entries and the remainder, no more
\* and no less.
LEMMA SqsKept ==
  ASSUME NEW c, SqsConfig(c), pending \in Seq(Receipts(c)),
         NEW failed \in SUBSET DOMAIN Sqs(c)!Batch
  PROVE  /\ Sqs(c)!Kept(failed) \in Seq(Receipts(c))
         /\ \A i \in 1..Len(Sqs(c)!Kept(failed)) :
              \E j \in 1..Len(pending) : Sqs(c)!Kept(failed)[i] = pending[j]
         /\ \A j \in 1..Len(pending) : j \in failed \/ j \notin DOMAIN Sqs(c)!Batch =>
              \E i \in 1..Len(Sqs(c)!Kept(failed)) : Sqs(c)!Kept(failed)[i] = pending[j]
         /\ failed = {} => Len(Sqs(c)!Kept(failed)) = Len(Sqs(c)!Remainder)
  <1>1. PICK b \in 0..Len(pending) :
           /\ Sqs(c)!Batch \in Seq(Receipts(c)) /\ Len(Sqs(c)!Batch) = b
           /\ DOMAIN Sqs(c)!Batch = 1..b
           /\ \A i \in 1..b : Sqs(c)!Batch[i] = pending[i]
           /\ Sqs(c)!Remainder \in Seq(Receipts(c)) /\ Len(Sqs(c)!Remainder) = Len(pending) - b
           /\ \A i \in 1..Len(pending) - b : Sqs(c)!Remainder[i] = pending[b + i]
    BY SqsBatch
  <1>2. Len(pending) \in Nat /\ b \in Nat /\ b <= Len(pending) /\ failed \in SUBSET (1..b)
    BY <1>1, LenProperties
  <1>3. Cardinality(failed) \in Nat /\ \A t : Cardinality(UpTo(failed, t)) \in Nat
    BY <1>2, UpToFinite
  <1> DEFINE n == Cardinality(failed)
             place(k) == Sqs(c)!Nth(failed, k)
             first == [k \in 1..n |-> Sqs(c)!Batch[place(k)]]
             rest == Sqs(c)!Remainder
  <1>4. \A k : place(k) = CHOOSE i \in failed : Cardinality(UpTo(failed, i)) = k
    BY SqsCardinality DEF Sqs!Nth, UpTo
  <1>5. \A k \in 1..n : place(k) \in failed
    <2> SUFFICES ASSUME NEW k \in 1..n
                 PROVE  place(k) \in failed
      OBVIOUS
    <2>1. \E i \in failed : Cardinality(UpTo(failed, i)) = k
      BY <1>2, NthExists
    <2> QED
      BY <1>4, <2>1
  <1>6. \A i \in failed : \E k \in 1..n : place(k) = i
    <2> SUFFICES ASSUME NEW i \in failed
                 PROVE  \E k \in 1..n : place(k) = i
      OBVIOUS
    <2> DEFINE k == Cardinality(UpTo(failed, i))
    <2>1. k \in 1..n
      <3>1. UpTo(failed, i) \in SUBSET failed /\ IsFiniteSet(failed) /\ IsFiniteSet(UpTo(failed, i))
        BY <1>2, UpToFinite
      <3>2. k <= n
        BY <3>1, FS_Subset
      <3>3. i \in UpTo(failed, i)
        <4>1. i <= i
          BY <1>2
        <4> QED
          BY <4>1 DEF UpTo
      <3>4. k # 0
        BY <3>1, <3>3, FS_EmptySet
      <3> QED
        BY <1>3, <3>2, <3>4
    <2>2. place(k) \in failed /\ Cardinality(UpTo(failed, place(k))) = k
      <3> HIDE DEF k, place
      <3>1. Cardinality(UpTo(failed, i)) = k
        BY DEF k
      <3> QED
        BY <1>4, <3>1
    <2>3. place(k) = i
      BY <1>2, <2>2, NthUnique
    <2> QED
      BY <2>1, <2>3
  <1> HIDE DEF place, n
  <1>7. \A k \in 1..n : Sqs(c)!Batch[place(k)] \in Receipts(c)
    BY <1>1, <1>2, <1>5, ElementOfSeq
  <1>8. n \in Nat
    BY <1>3 DEF n
  <1>9. first \in Seq(Receipts(c)) /\ Len(first) = n /\ \A k \in 1..n : first[k] = pending[place(k)]
    <2>1. first \in [1..n -> Receipts(c)]
      BY <1>7
    <2>2. first \in Seq(Receipts(c)) /\ Len(first) = n
      BY <1>8, <2>1
    <2>3. \A k \in 1..n : place(k) \in 1..b
      BY <1>2, <1>5
    <2> QED
      BY <1>1, <2>2, <2>3
  <1>10. Sqs(c)!Kept(failed) = first \o rest
    BY SqsCardinality DEF Sqs!Kept, n, place
  <1> HIDE DEF first, rest
  <1>11. rest \in Seq(Receipts(c)) /\ Len(rest) = Len(pending) - b /\ rest = Sqs(c)!Remainder
    BY <1>1 DEF rest
  <1>12. \A i \in 1..Len(pending) - b : rest[i] = pending[b + i]
    BY <1>1 DEF rest
  <1> DEFINE kept == first \o rest
  <1>13. /\ kept \in Seq(Receipts(c)) /\ Len(kept) = n + (Len(pending) - b)
         /\ \A i \in 1..n : kept[i] = first[i]
         /\ \A i \in 1..Len(pending) - b : kept[n + i] = rest[i]
         /\ \A i \in n + 1..n + (Len(pending) - b) : kept[i] = rest[i - n]
    <2>1. /\ kept \in Seq(Receipts(c)) /\ Len(kept) = Len(first) + Len(rest)
          /\ \A i \in 1..Len(first) + Len(rest) :
               kept[i] = IF i <= Len(first) THEN first[i] ELSE rest[i - Len(first)]
      BY <1>9, <1>11, ConcatProperties
    <2> HIDE DEF kept
    <2>2. /\ Len(kept) = n + (Len(pending) - b)
          /\ \A i \in 1..n + (Len(pending) - b) :
               kept[i] = IF i <= n THEN first[i] ELSE rest[i - n]
      BY <1>9, <1>11, <2>1
    <2>3. \A i \in 1..n : kept[i] = first[i]
      BY <1>2, <1>8, <2>2
    <2>4. \A i \in n + 1..n + (Len(pending) - b) : kept[i] = rest[i - n]
      BY <1>2, <1>8, <2>2
    <2>5. \A i \in 1..Len(pending) - b : kept[n + i] = rest[i]
      <3> SUFFICES ASSUME NEW i \in 1..Len(pending) - b
                   PROVE  kept[n + i] = rest[i]
        OBVIOUS
      <3>1. n + i \in n + 1..n + (Len(pending) - b) /\ (n + i) - n = i
        BY <1>2, <1>8
      <3> QED
        BY <2>4, <3>1
    <2> QED
      BY <2>1, <2>2, <2>3, <2>4, <2>5
  <1> HIDE DEF kept
  <1>14. \A i \in 1..Len(kept) : \E j \in 1..Len(pending) : kept[i] = pending[j]
    <2> SUFFICES ASSUME NEW i \in 1..Len(kept)
                 PROVE  \E j \in 1..Len(pending) : kept[i] = pending[j]
      OBVIOUS
    <2>1. CASE i <= n
      <3>1. i \in 1..n
        BY <1>2, <1>8, <1>13, <2>1
      <3>2. place(i) \in 1..Len(pending)
        <4>1. place(i) \in 1..b
          BY <1>2, <1>5, <3>1
        <4> QED
          BY <1>2, <4>1
      <3> QED
        BY <1>9, <1>13, <3>1, <3>2
    <2>2. CASE ~(i <= n)
      <3>1. i - n \in 1..Len(pending) - b /\ i \in n + 1..n + (Len(pending) - b)
        BY <1>2, <1>8, <1>13, <2>2
      <3> QED
        BY <1>2, <1>12, <1>13, <3>1
    <2> QED
      BY <2>1, <2>2
  <1>15. \A j \in 1..Len(pending) : j \in failed \/ j \notin 1..b =>
           \E i \in 1..Len(kept) : kept[i] = pending[j]
    <2> SUFFICES ASSUME NEW j \in 1..Len(pending), j \in failed \/ j \notin 1..b
                 PROVE  \E i \in 1..Len(kept) : kept[i] = pending[j]
      OBVIOUS
    <2>1. CASE j \in failed
      <3>1. PICK k \in 1..n : place(k) = j
        BY <1>6, <2>1
      <3>2. k \in 1..Len(kept)
        BY <1>2, <1>8, <1>13
      <3> QED
        BY <1>9, <1>13, <3>1, <3>2
    <2>2. CASE j \notin 1..b
      <3>1. j - b \in 1..Len(pending) - b /\ b + (j - b) = j
        BY <1>2, <2>2
      <3>2. n + (j - b) \in 1..Len(kept)
        BY <1>2, <1>8, <1>13, <3>1
      <3> QED
        BY <1>12, <1>13, <3>1, <3>2
    <2> QED
      BY <2>1, <2>2
  <1>16. failed = {} => Len(kept) = Len(rest)
    BY <1>2, <1>11, <1>13, FS_EmptySet DEF n
  <1>17. Sqs(c)!Kept(failed) = kept
    BY <1>10 DEF kept
  <1> QED
    BY <1>1, <1>11, <1>13, <1>14, <1>15, <1>16, <1>17

\* A message whose delete is staged was handled.
StagedHandled == \A i \in 1..Len(pending) : pending[i][1] \in handled

\* While no lease runs out and nothing crashed, every receipt is the current one,
\* and a handled message is deleted or still staged.
AllCurrent(c) == ~c.MayExpire /\ crashes = 0 =>
  /\ \A d \in hand : d[2]
  /\ \A i \in 1..Len(pending) : pending[i][2]
  /\ \A m \in handled : state[m] = "deleted" \/ \E i \in 1..Len(pending) : pending[i] = <<m, TRUE>>

\* With a heartbeat that never fails, every delivery in hand has the current receipt.
AllBeating(c) == c.Heartbeat /\ c.MaxFaults = 0 => /\ faults = 0 /\ dead = {}
                                                   /\ \A d \in hand : d[2]

SqsInv(c) ==
  /\ Sqs(c)!TypeOK /\ pending \in Seq(Receipts(c)) /\ handled \subseteq c.Msgs
  /\ crashes \in Nat /\ faults \in Nat
  /\ Sqs(c)!DeletedWhenHandled /\ StagedHandled /\ AllCurrent(c) /\ AllBeating(c)

\* The queue starts with its invariant.
LEMMA SqsInit ==
  ASSUME NEW c, SqsConfig(c)
  PROVE  Sqs(c)!Init => SqsInv(c)
  BY DEF SqsInv, Receipts, StagedHandled, AllCurrent, AllBeating,
         Sqs!Init, Sqs!TypeOK, Sqs!DeletedWhenHandled, Sqs!Range, Sqs!Free

\* Staging a delete of a handled message.
LEMMA SqsStage ==
  ASSUME NEW c, SqsConfig(c), SqsInv(c), NEW d \in hand, Sqs(c)!StageDelete(d),
         handled' = handled \cup {d[1]}, hand' = hand \ {d},
         UNCHANGED <<state, dead, faults, crashes>>, d \notin dead
  PROVE  SqsInv(c)'
  <1> USE DEF SqsInv
  <1>1. d \in Receipts(c) /\ d[1] \in c.Msgs /\ d = <<d[1], d[2]>> /\ d[2] \in BOOLEAN
    BY DEF Sqs!TypeOK, Receipts
  <1>2. pending' = Append(pending, d)
    BY DEF Sqs!StageDelete
  <1>3. /\ pending' \in Seq(Receipts(c)) /\ Len(pending') = Len(pending) + 1
        /\ \A i \in 1..Len(pending) : pending'[i] = pending[i]
        /\ pending'[Len(pending) + 1] = d /\ pending' # <<>>
    BY <1>1, <1>2, AppendProperties
  <1>4. Len(pending) \in Nat /\ \A i \in 1..Len(pending') : i \in 1..Len(pending) \/ i = Len(pending) + 1
    BY <1>3, LenProperties
  <1>5. StagedHandled'
    BY <1>3, <1>4 DEF StagedHandled
  <1>6. Sqs(c)!TypeOK'
    <2>1. Sqs(c)!Range(pending') \subseteq c.Msgs \X BOOLEAN
      BY <1>3, LenProperties DEF Sqs!Range, Receipts
    <2> QED
      BY <1>3, <2>1 DEF Sqs!TypeOK
  <1>7. Sqs(c)!DeletedWhenHandled'
    BY DEF Sqs!DeletedWhenHandled
  <1>8. AllCurrent(c)'
    <2> SUFFICES ASSUME ~c.MayExpire, crashes = 0
                 PROVE  /\ \A e \in hand' : e[2]
                        /\ \A i \in 1..Len(pending') : pending'[i][2]
                        /\ \A m \in handled' : state[m] = "deleted"
                             \/ \E i \in 1..Len(pending') : pending'[i] = <<m, TRUE>>
      BY DEF AllCurrent
    <2>1. d[2] /\ d = <<d[1], TRUE>>
      BY <1>1 DEF AllCurrent
    <2>2. \A i \in 1..Len(pending') : pending'[i][2]
      BY <1>3, <1>4, <2>1 DEF AllCurrent
    <2>3. ASSUME NEW m \in handled', state[m] # "deleted"
          PROVE  \E i \in 1..Len(pending') : pending'[i] = <<m, TRUE>>
      <3>1. CASE m = d[1]
        <4>1. Len(pending) + 1 \in 1..Len(pending')
          BY <1>3, <1>4
        <4>2. pending'[Len(pending) + 1] = <<m, TRUE>>
          BY <1>3, <2>1, <3>1
        <4> QED
          BY <4>1, <4>2
      <3>2. CASE m # d[1]
        <4>1. PICK i \in 1..Len(pending) : pending[i] = <<m, TRUE>>
          BY <2>3, <3>2 DEF AllCurrent
        <4>2. i \in 1..Len(pending')
          BY <1>3, <1>4
        <4> QED
          BY <1>3, <4>1, <4>2
      <3> QED
        BY <3>1, <3>2
    <2> QED
      BY <2>2, <2>3 DEF AllCurrent
  <1>9. AllBeating(c)'
    BY DEF AllBeating
  <1> QED
    BY <1>1, <1>3, <1>5, <1>6, <1>7, <1>8, <1>9

\* A delivery leaves the hands and nothing is staged: its message stays as it is or
\* becomes visible again.
LEMMA SqsLetGo ==
  ASSUME NEW c, SqsConfig(c), SqsInv(c), NEW d \in hand, hand' = hand \ {d},
         dead' = dead \ {d}, state' = state \/ state' = Sqs(c)!MadeVisible(d),
         UNCHANGED <<pending, lock, handled, faults, crashes>>
  PROVE  SqsInv(c)'
  <1> USE DEF SqsInv
  <1>1. d[1] \in c.Msgs
    BY DEF Sqs!TypeOK
  <1>2. /\ state' \in [c.Msgs -> {"visible", "leased", "deleted"}]
        /\ \A m \in c.Msgs : state'[m] = "deleted" <=> state[m] = "deleted"
    BY <1>1 DEF Sqs!TypeOK, Sqs!MadeVisible
  <1>3. Sqs(c)!TypeOK'
    BY <1>2 DEF Sqs!TypeOK, Sqs!Range
  <1>4. Sqs(c)!DeletedWhenHandled' /\ StagedHandled'
    BY <1>2 DEF Sqs!DeletedWhenHandled, StagedHandled
  <1>5. AllCurrent(c)'
    BY <1>2 DEF AllCurrent
  <1>6. AllBeating(c)'
    BY DEF AllBeating
  <1> QED
    BY <1>3, <1>4, <1>5, <1>6

\* A visibility timeout makes receipts old; it stages and deletes nothing.
LEMMA SqsExpires ==
  ASSUME NEW c, SqsConfig(c), SqsInv(c), NEW m \in c.Msgs, Sqs(c)!VisibilityTimeout(m)
  PROVE  SqsInv(c)'
  <1> USE DEF SqsInv
  <1>1. /\ c.MayExpire /\ ~Sqs(c)!Beating(m) /\ state' = [state EXCEPT ![m] = "visible"]
        /\ state[m] = "leased"
        /\ hand' = Sqs(c)!OldReceipts(hand, m) /\ dead' = Sqs(c)!OldReceipts(dead, m)
        /\ UNCHANGED <<handled, faults, crashes>>
    BY DEF Sqs!VisibilityTimeout, Sqs!Expired, Sqs!bounds
  <1>2. /\ DOMAIN pending = 1..Len(pending) /\ Len(pending) \in Nat
        /\ \A i \in 1..Len(pending) : pending[i] \in Receipts(c)
    BY LenProperties, ElementOfSeq
  <1>3. pending' = [i \in 1..Len(pending) |-> IF pending[i] = <<m, TRUE>> THEN <<m, FALSE>> ELSE pending[i]]
    BY <1>2 DEF Sqs!VisibilityTimeout, Sqs!Expired
  <1> DEFINE old(d) == IF d = <<m, TRUE>> THEN <<m, FALSE>> ELSE d
  <1>0. \A d \in Receipts(c) : old(d) \in Receipts(c) /\ old(d)[1] = d[1]
    BY OldReceipt
  <1>4. /\ pending' \in [1..Len(pending) -> Receipts(c)]
        /\ \A i \in 1..Len(pending) : pending'[i][1] = pending[i][1]
    <2>1. pending' = [i \in 1..Len(pending) |-> old(pending[i])]
      BY <1>3
    <2> HIDE DEF old
    <2> QED
      BY <1>0, <1>2, <2>1
  <1>5. pending' \in Seq(Receipts(c)) /\ Len(pending') = Len(pending)
    BY <1>2, <1>4
  <1>6. StagedHandled'
    BY <1>1, <1>4, <1>5 DEF StagedHandled
  <1>7. Sqs(c)!DeletedWhenHandled' /\ state' \in [c.Msgs -> {"visible", "leased", "deleted"}]
    BY <1>1 DEF Sqs!DeletedWhenHandled, Sqs!TypeOK
  <1>8. Sqs(c)!TypeOK'
    <2>1. hand' \subseteq c.Msgs \X BOOLEAN /\ dead' \subseteq hand'
      <3>1. hand' = {old(d) : d \in hand} /\ dead' = {old(d) : d \in dead}
        BY <1>1 DEF Sqs!OldReceipts
      <3>2. \A d \in hand : d \in Receipts(c)
        BY DEF Sqs!TypeOK, Receipts
      <3> HIDE DEF old
      <3>3. hand' \subseteq Receipts(c)
        BY <1>0, <3>1, <3>2
      <3>4. dead' \subseteq hand'
        BY <3>1 DEF Sqs!TypeOK
      <3> QED
        BY <3>3, <3>4 DEF Receipts
    <2>2. Sqs(c)!Range(pending') \subseteq c.Msgs \X BOOLEAN
      BY <1>4 DEF Sqs!Range, Receipts
    <2>3. lock' # Sqs(c)!Free => lock # Sqs(c)!Free
      <3>1. Len(<<>>) = 0 /\ Len(<<m, TRUE>>) = 2
        OBVIOUS
      <3>2. <<>> # <<m, TRUE>>
        BY <3>1
      <3> QED
        BY <3>2 DEF Sqs!VisibilityTimeout, Sqs!Expired, Sqs!Free
    <2>4. pending # <<>> => pending' # <<>>
      BY <1>2, <1>5, EmptySeq
    <2> QED
      BY <1>7, <2>1, <2>2, <2>3, <2>4 DEF Sqs!TypeOK
  <1>9. AllCurrent(c)'
    BY <1>1 DEF AllCurrent
  <1>10. AllBeating(c)'
    <2> SUFFICES ASSUME c.Heartbeat, c.MaxFaults = 0
                 PROVE  faults' = 0 /\ dead' = {} /\ \A d \in hand' : d[2]
      BY DEF AllBeating
    <2>1. <<m, TRUE>> \notin hand
      BY <1>1 DEF AllBeating, Sqs!Beating
    <2> QED
      BY <1>1, <2>1 DEF AllBeating, Sqs!OldReceipts
  <1> QED
    BY <1>1, <1>5, <1>6, <1>7, <1>8, <1>9, <1>10

\* A flush deletes messages of staged entries only, and keeps what failed.
LEMMA SqsFlush ==
  ASSUME NEW c, SqsConfig(c), SqsInv(c), NEW failed, NEW noop, Sqs(c)!FlushLocked(failed, noop)
  PROVE  SqsInv(c)'
  <1> USE DEF SqsInv
  <1> DEFINE gone == {Sqs(c)!Batch[i][1] : i \in DOMAIN Sqs(c)!Batch \ (failed \cup noop)}
             left == [m \in c.Msgs |-> IF m \in gone THEN "deleted" ELSE state[m]]
  <1>1. /\ failed \in SUBSET DOMAIN Sqs(c)!Batch /\ noop \subseteq Sqs(c)!Stale
        /\ pending' = Sqs(c)!Kept(failed) /\ lock # Sqs(c)!Free
        /\ lock' = IF failed # {} \/ Sqs(c)!Remainder = <<>> THEN Sqs(c)!Free ELSE lock
        /\ state' = left \/ \E m \in {lock[1]} : left[m] = "leased" /\ state' = [left EXCEPT ![m] = "visible"]
        /\ UNCHANGED <<hand, dead, handled, crashes>>
    BY DEF Sqs!FlushLocked
  <1>2. /\ pending' \in Seq(Receipts(c))
        /\ \A i \in 1..Len(pending') : \E j \in 1..Len(pending) : pending'[i] = pending[j]
        /\ \A j \in 1..Len(pending) : j \in failed \/ j \notin DOMAIN Sqs(c)!Batch =>
             \E i \in 1..Len(pending') : pending'[i] = pending[j]
        /\ failed = {} => Len(pending') = Len(Sqs(c)!Remainder)
    BY <1>1, SqsKept
  <1>3. PICK b \in 0..Len(pending) :
          /\ DOMAIN Sqs(c)!Batch = 1..b
          /\ \A i \in 1..b : Sqs(c)!Batch[i] = pending[i]
          /\ Sqs(c)!Remainder \in Seq(Receipts(c))
    BY SqsBatch
  <1>4. 1..b \subseteq 1..Len(pending)
    BY LenProperties
  <1>5. \A m \in gone : m \in handled
    BY <1>3, <1>4 DEF StagedHandled
  <1> HIDE DEF gone
  <1>6. /\ left \in [c.Msgs -> {"visible", "leased", "deleted"}]
        /\ \A m \in c.Msgs : left[m] = "deleted" <=> state[m] = "deleted" \/ m \in gone
    BY DEF Sqs!TypeOK
  <1>7. /\ state' \in [c.Msgs -> {"visible", "leased", "deleted"}]
        /\ \A m \in c.Msgs : state'[m] = "deleted" <=> left[m] = "deleted"
    <2> HIDE DEF left
    <2> QED
      BY <1>1, <1>6
  <1> HIDE DEF left
  <1>8. Sqs(c)!DeletedWhenHandled'
    BY <1>1, <1>5, <1>6, <1>7 DEF Sqs!DeletedWhenHandled
  <1>9. StagedHandled'
    BY <1>1, <1>2 DEF StagedHandled
  <1>10. Sqs(c)!TypeOK'
    <2>1. Sqs(c)!Range(pending') \subseteq c.Msgs \X BOOLEAN
      BY <1>2, LenProperties DEF Sqs!Range, Receipts
    <2>2. lock' # Sqs(c)!Free => pending' # <<>>
      <3> SUFFICES ASSUME lock' # Sqs(c)!Free
                   PROVE  pending' # <<>>
        OBVIOUS
      <3>1. failed = {} /\ Sqs(c)!Remainder # <<>>
        BY <1>1
      <3>2. Len(Sqs(c)!Remainder) # 0
        BY <1>3, <3>1, EmptySeq
      <3> QED
        BY <1>2, <3>1, <3>2, EmptySeq
    <2> QED
      BY <1>1, <1>7, <2>1, <2>2 DEF Sqs!TypeOK
  <1>11. AllCurrent(c)'
    <2> SUFFICES ASSUME ~c.MayExpire, crashes = 0
                 PROVE  /\ \A d \in hand : d[2]
                        /\ \A i \in 1..Len(pending') : pending'[i][2]
                        /\ \A m \in handled : state'[m] = "deleted"
                             \/ \E i \in 1..Len(pending') : pending'[i] = <<m, TRUE>>
      BY <1>1 DEF AllCurrent
    <2>1. \A i \in 1..Len(pending') : pending'[i][2]
      BY <1>2 DEF AllCurrent
    <2>2. noop = {}
      BY <1>1, <1>3, <1>4 DEF AllCurrent, Sqs!Stale
    <2>3. ASSUME NEW m \in handled, state'[m] # "deleted"
          PROVE  \E i \in 1..Len(pending') : pending'[i] = <<m, TRUE>>
      <3>1. state[m] # "deleted" /\ m \notin gone
        BY <1>6, <1>7, <2>3
      <3>2. PICK j \in 1..Len(pending) : pending[j] = <<m, TRUE>>
        BY <3>1 DEF AllCurrent
      <3>3. j \in failed \/ j \notin DOMAIN Sqs(c)!Batch
        <4> SUFFICES ASSUME j \notin failed, j \in DOMAIN Sqs(c)!Batch
                     PROVE  m \in gone
          BY <3>1
        <4>1. Sqs(c)!Batch[j][1] = m
          BY <1>3, <3>2
        <4> QED
          BY <2>2, <4>1 DEF gone
      <3> QED
        BY <1>2, <3>2, <3>3
    <2> QED
      BY <2>1, <2>3 DEF AllCurrent
  <1>12. faults' \in Nat /\ (c.MaxFaults = 0 /\ faults = 0 => faults' = 0)
    BY DEF Sqs!FlushLocked
  <1>13. AllBeating(c)'
    BY <1>1, <1>12 DEF AllBeating
  <1> QED
    BY <1>1, <1>2, <1>8, <1>9, <1>10, <1>11, <1>12, <1>13

\* Every step, or none, keeps it.
LEMMA SqsStep ==
  ASSUME NEW c, SqsConfig(c), SqsInv(c), [Sqs(c)!Next]_(Sqs(c)!vars)
  PROVE  SqsInv(c)'
  <1> USE DEF Sqs!bounds
  <1>1. ASSUME NEW m \in c.Msgs, Sqs(c)!Receive(m)
        PROVE  SqsInv(c)'
    <2>0. <<m, TRUE>> \in c.Msgs \X BOOLEAN /\ <<m, TRUE>>[2] = TRUE
      OBVIOUS
    <2>1. Sqs(c)!TypeOK'
      <3>1. hand' \subseteq c.Msgs \X BOOLEAN /\ dead' \subseteq hand'
        BY <1>1, <2>0 DEF SqsInv, Sqs!Receive, Sqs!TypeOK
      <3> QED
        BY <1>1, <3>1 DEF SqsInv, Sqs!Receive, Sqs!TypeOK, Sqs!Range, Sqs!Free
    <2>2. /\ UNCHANGED <<pending, handled, dead, faults, crashes>>
          /\ \A d \in hand' : d \in hand \/ d = <<m, TRUE>>
          /\ \A n \in c.Msgs : state'[n] = "deleted" <=> state[n] = "deleted"
      BY <1>1 DEF SqsInv, Sqs!Receive, Sqs!TypeOK
    <2>3. Sqs(c)!DeletedWhenHandled' /\ StagedHandled'
      BY <2>2 DEF SqsInv, Sqs!DeletedWhenHandled, StagedHandled
    <2>4. AllCurrent(c)'
      <3>1. (\A d \in hand : d[2]) => (\A d \in hand' : d[2])
        BY <2>0, <2>2
      <3> QED
        BY <2>2, <3>1 DEF SqsInv, AllCurrent
    <2>5. AllBeating(c)'
      BY <2>0, <2>2 DEF SqsInv, AllBeating
    <2> QED
      BY <2>1, <2>2, <2>3, <2>4, <2>5 DEF SqsInv
  <1>2. ASSUME NEW m \in c.Msgs, Sqs(c)!VisibilityTimeout(m)
        PROVE  SqsInv(c)'
    BY <1>2, SqsExpires
  <1>3. ASSUME NEW d \in hand, Sqs(c)!HeartbeatFails(d)
        PROVE  SqsInv(c)'
    <2>1. /\ faults' \in Nat /\ faults < c.MaxFaults /\ dead' \subseteq hand'
          /\ UNCHANGED <<state, hand, pending, lock, handled, crashes>>
      BY <1>3 DEF SqsInv, Sqs!HeartbeatFails, Sqs!TypeOK
    <2>2. Sqs(c)!TypeOK'
      BY <2>1 DEF SqsInv, Sqs!TypeOK, Sqs!Range
    <2>3. Sqs(c)!DeletedWhenHandled' /\ StagedHandled' /\ AllCurrent(c)'
      BY <2>1 DEF SqsInv, Sqs!DeletedWhenHandled, StagedHandled, AllCurrent
    <2>4. AllBeating(c)'
      BY <2>1 DEF SqsInv, AllBeating
    <2> QED
      BY <2>1, <2>2, <2>3, <2>4 DEF SqsInv
  <1>4. ASSUME NEW d \in hand, Sqs(c)!SettleFails(d)
        PROVE  SqsInv(c)'
    BY <1>4, SqsLetGo DEF Sqs!SettleFails
  <1>5. ASSUME NEW d \in hand, Sqs(c)!Ack(d)
        PROVE  SqsInv(c)'
    BY <1>5, SqsStage DEF Sqs!Ack
  <1>6. ASSUME NEW d \in hand, Sqs(c)!Fail(d)
        PROVE  SqsInv(c)'
    <2>1. d \notin dead /\ dead' = dead \ {d} /\ dead' = dead
      BY <1>6 DEF Sqs!Fail
    <2>2. CASE c.OnFail = "delete"
      BY <1>6, <2>1, <2>2, SqsStage DEF Sqs!Fail
    <2>3. CASE c.OnFail # "delete"
      BY <1>6, <2>1, <2>3, SqsLetGo DEF Sqs!Fail
    <2> QED
      BY <2>2, <2>3
  <1>7. ASSUME NEW d \in hand, Sqs(c)!Retry(d)
        PROVE  SqsInv(c)'
    <2>1. dead' = dead \ {d}
      BY <1>7 DEF Sqs!Retry
    <2> QED
      BY <1>7, <2>1, SqsLetGo DEF Sqs!Retry
  <1>8. ASSUME NEW failed, NEW noop, Sqs(c)!FlushLocked(failed, noop)
        PROVE  SqsInv(c)'
    BY <1>8, SqsFlush
  <1>9. CASE Sqs(c)!FlushDeletes
    BY <1>9 DEF Sqs!FlushDeletes, SqsInv, Sqs!TypeOK, Sqs!DeletedWhenHandled, Sqs!Range,
                StagedHandled, AllCurrent, AllBeating
  <1>10. CASE Sqs(c)!Crash
    BY <1>10 DEF Sqs!Crash, SqsInv, Sqs!TypeOK, Sqs!DeletedWhenHandled, Sqs!Range, Sqs!Free,
                 StagedHandled, AllCurrent, AllBeating
  <1>11. CASE UNCHANGED Sqs(c)!vars
    BY <1>11 DEF Sqs!vars, SqsInv, Sqs!TypeOK, Sqs!DeletedWhenHandled, Sqs!Range,
                 StagedHandled, AllCurrent, AllBeating
  <1> QED
    BY <1>1, <1>2, <1>3, <1>4, <1>5, <1>6, <1>7, <1>8, <1>9, <1>10, <1>11 DEF Sqs!Next

\* The invariant says what the runs check of a queue.
LEMMA SqsInvImplies ==
  ASSUME NEW c, SqsInv(c)
  PROVE  /\ Sqs(c)!TypeOK /\ Sqs(c)!DeletedWhenHandled
         /\ Sqs(c)!HandledNotForgotten
         /\ c.Heartbeat /\ c.MaxFaults = 0 => Sqs(c)!OneHandler
  <1>1. Sqs(c)!HandledNotForgotten
    <2> SUFFICES ASSUME crashes = 0, ~c.MayExpire, NEW m \in handled, state[m] = "leased"
                 PROVE  <<m, TRUE>> \in Sqs(c)!Range(pending)
      BY DEF Sqs!HandledNotForgotten
    <2>1. PICK i \in 1..Len(pending) : pending[i] = <<m, TRUE>>
      BY DEF SqsInv, AllCurrent
    <2> QED
      BY <2>1, LenProperties DEF SqsInv, Sqs!Range
  <1>2. c.Heartbeat /\ c.MaxFaults = 0 => Sqs(c)!OneHandler
    <2> SUFFICES ASSUME c.Heartbeat, c.MaxFaults = 0, NEW m \in c.Msgs
                 PROVE  <<m, FALSE>> \notin hand
      BY DEF Sqs!OneHandler
    <2>1. <<m, FALSE>>[2] = FALSE
      OBVIOUS
    <2> QED
      BY <2>1 DEF SqsInv, AllBeating
  <1> QED
    BY <1>1, <1>2 DEF SqsInv

\* No message is deleted before it was handled, and none that was handled is
\* forgotten by a failed batch, for every queue, batch size and bound.
THEOREM SqsSafe ==
  ASSUME NEW c, SqsConfig(c)
  PROVE  Sqs(c)!Spec => [](/\ Sqs(c)!TypeOK /\ Sqs(c)!DeletedWhenHandled
                           /\ Sqs(c)!HandledNotForgotten
                           /\ c.Heartbeat /\ c.MaxFaults = 0 => Sqs(c)!OneHandler)
  <1>1. Sqs(c)!Init => SqsInv(c)
    BY SqsInit
  <1>2. SqsInv(c) /\ [Sqs(c)!Next]_(Sqs(c)!vars) => SqsInv(c)'
    BY SqsStep
  <1>3. SqsInv(c) => /\ Sqs(c)!TypeOK /\ Sqs(c)!DeletedWhenHandled
                     /\ Sqs(c)!HandledNotForgotten
                     /\ c.Heartbeat /\ c.MaxFaults = 0 => Sqs(c)!OneHandler
    BY SqsInvImplies
  <1> QED
    BY <1>1, <1>2, <1>3, PTL DEF Sqs!Spec

--------------------------------------------------------------------------------
(* Cloudflare *)

CfConfig(c) == c.BatchLimit \in Nat

\* A message whose acknowledgement is staged was handled.
AcksHandled == \A i \in 1..Len(acks) : acks[i][1] \in handled

\* While no lease can be lost, every lease holds and a leased message is with its
\* pull, with its handler or on a list.
AllHeld(c) == c.Expiry = "never" /\ c.MaxStops = 0 /\ c.OnFail # "leave" /\ crashes = 0 =>
  /\ \A d \in hand : d[2]
  /\ \A i \in 1..Len(acks) : acks[i][2]
  /\ \A i \in 1..Len(rets) : rets[i][2]
  /\ \A m \in c.Msgs : state[m] = "leased" =>
       \/ m \in answer \/ <<m, TRUE>> \in hand
       \/ \E i \in 1..Len(acks) : acks[i] = <<m, TRUE>>
       \/ \E i \in 1..Len(rets) : rets[i] = <<m, TRUE>>

CfInv(c) ==
  /\ state \in [c.Msgs -> {"queued", "leased", "gone"}] /\ answer \subseteq c.Msgs
  /\ hand \subseteq Receipts(c) /\ acks \in Seq(Receipts(c)) /\ rets \in Seq(Receipts(c))
  /\ stops \in Nat /\ crashes \in Nat
  /\ Cloudflare(c)!GoneWhenHandled /\ AcksHandled /\ AllHeld(c)

\* The queue starts with its invariant.
LEMMA CfInit ==
  ASSUME NEW c, CfConfig(c)
  PROVE  Cloudflare(c)!Init => CfInv(c)
  BY DEF CfInv, Receipts, AcksHandled, AllHeld, Cloudflare!Init, Cloudflare!GoneWhenHandled

\* The numbers of entries one request takes are there.
LEMMA CfTaken ==
  ASSUME NEW c, CfConfig(c), CfInv(c)
  PROVE  /\ Cloudflare(c)!NAcks \in 0..Len(acks) /\ Cloudflare(c)!NRets \in 0..Len(rets)
         /\ Len(acks) \in Nat /\ Len(rets) \in Nat
  <1>1. Len(acks) \in Nat /\ Len(rets) \in Nat
    BY LenProperties DEF CfInv
  <1>2. Cloudflare(c)!NAcks \in 0..Len(acks) /\ c.BatchLimit - Cloudflare(c)!NAcks \in Nat
    BY <1>1 DEF CfConfig, Cloudflare!NAcks, Cloudflare!Least
  <1>3. Cloudflare(c)!NRets \in 0..Len(rets)
    BY <1>1, <1>2 DEF Cloudflare!NRets, Cloudflare!Least
  <1> QED
    BY <1>1, <1>2, <1>3

\* What a request does at the server: only acknowledged messages go, and a message
\* that is still leased is not on the part of a list that it took.
LEMMA CfSent ==
  ASSUME NEW c, CfConfig(c), CfInv(c)
  PROVE  /\ Cloudflare(c)!Sent \in [c.Msgs -> {"queued", "leased", "gone"}]
         /\ \A m \in c.Msgs : Cloudflare(c)!Sent[m] = "gone" => state[m] = "gone" \/ m \in handled
         /\ \A m \in c.Msgs : Cloudflare(c)!Sent[m] = "leased" => state[m] = "leased"
         /\ \A i \in 1..Cloudflare(c)!NAcks : acks[i][2] => Cloudflare(c)!Sent[acks[i][1]] = "gone"
         /\ \A i \in 1..Cloudflare(c)!NRets : rets[i][2] => Cloudflare(c)!Sent[rets[i][1]] # "leased"
  <1> DEFINE A == Cloudflare(c)!Current(acks, Cloudflare(c)!NAcks)
             R == Cloudflare(c)!Current(rets, Cloudflare(c)!NRets)
  <1>1. /\ 1..Cloudflare(c)!NAcks \subseteq 1..Len(acks)
        /\ 1..Cloudflare(c)!NRets \subseteq 1..Len(rets)
    BY CfTaken
  <1>2. /\ \A i \in 1..Len(acks) : acks[i] \in Receipts(c) /\ acks[i][1] \in c.Msgs
        /\ \A i \in 1..Len(rets) : rets[i] \in Receipts(c) /\ rets[i][1] \in c.Msgs
    BY ElementOfSeq DEF CfInv, Receipts
  <1>3. \A m \in A : m \in handled
    BY <1>1 DEF CfInv, AcksHandled, Cloudflare!Current
  <1>4. \A i \in 1..Cloudflare(c)!NAcks : acks[i][2] => acks[i][1] \in A
    BY DEF Cloudflare!Current
  <1>5. \A i \in 1..Cloudflare(c)!NRets : rets[i][2] => rets[i][1] \in R
    BY DEF Cloudflare!Current
  <1>6. Cloudflare(c)!Sent = [m \in c.Msgs |-> IF m \in A THEN "gone"
                 ELSE IF m \in R /\ state[m] = "leased" THEN "queued" ELSE state[m]]
    BY DEF Cloudflare!Sent
  <1> HIDE DEF A, R
  <1> QED
    BY <1>1, <1>2, <1>3, <1>4, <1>5, <1>6 DEF CfInv

\* Appending to a list keeps it and adds the entry.
LEMMA CfAppend ==
  ASSUME NEW c, NEW q \in Seq(Receipts(c)), NEW d \in Receipts(c)
  PROVE  /\ Append(q, d) \in Seq(Receipts(c)) /\ Len(Append(q, d)) = Len(q) + 1
         /\ \A i \in 1..Len(q) : i \in 1..Len(q) + 1 /\ Append(q, d)[i] = q[i]
         /\ Len(q) + 1 \in 1..Len(q) + 1 /\ Append(q, d)[Len(q) + 1] = d
         /\ \A i \in 1..Len(q) + 1 : i \in 1..Len(q) \/ i = Len(q) + 1
  <1>1. Len(q) \in Nat
    BY LenProperties
  <1> QED
    BY <1>1, AppendProperties

\* A delivery leaves the hands for one of the lists.
LEMMA CfStage ==
  ASSUME NEW c, CfInv(c), NEW d \in hand, hand' = hand \ {d},
         \/ acks' = Append(acks, d) /\ rets' = rets /\ handled' = handled \cup {d[1]}
         \/ rets' = Append(rets, d) /\ acks' = acks /\ handled' = handled,
         UNCHANGED <<state, answer, stops, crashes>>
  PROVE  CfInv(c)'
  <1> USE DEF CfInv
  <1>1. d \in Receipts(c) /\ d = <<d[1], d[2]>> /\ d[2] \in BOOLEAN
    BY DEF Receipts
  <1>2. /\ acks' \in Seq(Receipts(c)) /\ rets' \in Seq(Receipts(c))
        /\ \A i \in 1..Len(acks) : i \in 1..Len(acks') /\ acks'[i] = acks[i]
        /\ \A i \in 1..Len(rets) : i \in 1..Len(rets') /\ rets'[i] = rets[i]
        /\ \A i \in 1..Len(acks') : i \in 1..Len(acks) \/ (acks'[i] = d /\ d[1] \in handled')
        /\ \A i \in 1..Len(rets') : i \in 1..Len(rets) \/ rets'[i] = d
        /\ \/ \E i \in 1..Len(acks') : acks'[i] = d
           \/ \E i \in 1..Len(rets') : rets'[i] = d
    <2>1. CASE acks' = Append(acks, d) /\ rets' = rets /\ handled' = handled \cup {d[1]}
      BY <1>1, <2>1, CfAppend
    <2>2. CASE rets' = Append(rets, d) /\ acks' = acks
      BY <1>1, <2>2, CfAppend
    <2> QED
      BY <2>1, <2>2
  <1>3. handled \subseteq handled'
    OBVIOUS
  <1>4. AcksHandled' /\ Cloudflare(c)!GoneWhenHandled'
    BY <1>2, <1>3 DEF AcksHandled, Cloudflare!GoneWhenHandled
  <1>5. AllHeld(c)'
    <2> SUFFICES ASSUME c.Expiry = "never", c.MaxStops = 0, c.OnFail # "leave", crashes = 0
                 PROVE  /\ \A e \in hand' : e[2]
                        /\ \A i \in 1..Len(acks') : acks'[i][2]
                        /\ \A i \in 1..Len(rets') : rets'[i][2]
                        /\ \A m \in c.Msgs : state[m] = "leased" =>
                             \/ m \in answer \/ <<m, TRUE>> \in hand'
                             \/ \E i \in 1..Len(acks') : acks'[i] = <<m, TRUE>>
                             \/ \E i \in 1..Len(rets') : rets'[i] = <<m, TRUE>>
      BY DEF AllHeld
    <2>1. d[2] /\ \A e \in hand : e[2]
      BY DEF AllHeld
    <2>2. /\ \A i \in 1..Len(acks') : acks'[i][2]
          /\ \A i \in 1..Len(rets') : rets'[i][2]
      BY <1>2, <2>1 DEF AllHeld
    <2>3. ASSUME NEW m \in c.Msgs, state[m] = "leased", m \notin answer, <<m, TRUE>> \notin hand'
          PROVE  \/ \E i \in 1..Len(acks') : acks'[i] = <<m, TRUE>>
                 \/ \E i \in 1..Len(rets') : rets'[i] = <<m, TRUE>>
      <3>1. \/ <<m, TRUE>> = d
            \/ \E i \in 1..Len(acks) : acks[i] = <<m, TRUE>>
            \/ \E i \in 1..Len(rets) : rets[i] = <<m, TRUE>>
        BY <2>3 DEF AllHeld
      <3> QED
        BY <1>2, <3>1
    <2> QED
      BY <2>1, <2>2, <2>3
  <1> QED
    BY <1>2, <1>4, <1>5

\* A lease that runs out makes its entries old.
LEMMA CfExpires ==
  ASSUME NEW c, CfInv(c), NEW m \in c.Msgs, Cloudflare(c)!LeaseExpires(m)
  PROVE  CfInv(c)'
  <1> USE DEF CfInv
  <1> DEFINE old(d) == Cloudflare(c)!Old(d, m)
  <1>0. \A d \in Receipts(c) : old(d) \in Receipts(c) /\ old(d)[1] = d[1]
    BY OldReceipt DEF Cloudflare!Old
  <1> HIDE DEF old
  <1>1. /\ c.Expiry # "never" /\ state' = [state EXCEPT ![m] = "queued"]
        /\ UNCHANGED <<answer, handled, stops, crashes>>
    BY DEF Cloudflare!LeaseExpires, Cloudflare!bounds
  <1>2. /\ DOMAIN acks = 1..Len(acks) /\ Len(acks) \in Nat
        /\ DOMAIN rets = 1..Len(rets) /\ Len(rets) \in Nat
        /\ \A i \in 1..Len(acks) : acks[i] \in Receipts(c)
        /\ \A i \in 1..Len(rets) : rets[i] \in Receipts(c)
    BY LenProperties, ElementOfSeq
  <1>3. /\ hand' = {old(d) : d \in hand}
        /\ acks' = [i \in 1..Len(acks) |-> old(acks[i])]
        /\ rets' = [i \in 1..Len(rets) |-> old(rets[i])]
    BY <1>2 DEF Cloudflare!LeaseExpires, old
  <1>4. hand' \subseteq Receipts(c)
    BY <1>0, <1>3
  <1>5. /\ acks' \in [1..Len(acks) -> Receipts(c)] /\ rets' \in [1..Len(rets) -> Receipts(c)]
        /\ \A i \in 1..Len(acks) : acks'[i][1] = acks[i][1]
    BY <1>0, <1>2, <1>3
  <1>6. acks' \in Seq(Receipts(c)) /\ rets' \in Seq(Receipts(c)) /\ Len(acks') = Len(acks)
    <2>1. acks' \in Seq(Receipts(c)) /\ Len(acks') = Len(acks)
      BY <1>2, <1>5
    <2>2. rets' \in Seq(Receipts(c))
      BY <1>2, <1>5
    <2> QED
      BY <2>1, <2>2
  <1>7. AcksHandled' /\ Cloudflare(c)!GoneWhenHandled'
    BY <1>1, <1>5, <1>6 DEF AcksHandled, Cloudflare!GoneWhenHandled
  <1>8. AllHeld(c)'
    BY <1>1 DEF AllHeld
  <1> QED
    BY <1>1, <1>4, <1>6, <1>7, <1>8

\* A request that is answered takes its entries off the lists.
LEMMA CfFlush ==
  ASSUME NEW c, CfConfig(c), CfInv(c), Cloudflare(c)!FlushLocked
  PROVE  CfInv(c)'
  <1> USE DEF CfInv
  <1> DEFINE a == Cloudflare(c)!NAcks
             r == Cloudflare(c)!NRets
  <1>1. a \in 0..Len(acks) /\ r \in 0..Len(rets) /\ Len(acks) \in Nat /\ Len(rets) \in Nat
    BY CfTaken
  <1>2. /\ state' = Cloudflare(c)!Sent
        /\ acks' = SubSeq(acks, a + 1, Len(acks)) /\ rets' = SubSeq(rets, r + 1, Len(rets))
        /\ UNCHANGED <<answer, hand, handled, stops, crashes>>
    BY DEF Cloudflare!FlushLocked, Cloudflare!bounds
  <1> HIDE DEF a, r
  <1>3. /\ acks' \in Seq(Receipts(c)) /\ Len(acks') = Len(acks) - a
        /\ \A i \in 1..Len(acks) - a : acks'[i] = acks[a + i]
        /\ rets' \in Seq(Receipts(c)) /\ Len(rets') = Len(rets) - r
        /\ \A i \in 1..Len(rets) - r : rets'[i] = rets[r + i]
    <2>1. /\ acks' \in Seq(Receipts(c)) /\ Len(acks') = Len(acks) - a
          /\ \A i \in 1..Len(acks) - a : acks'[i] = acks[a + i]
      BY <1>1, <1>2, DropFirst
    <2>2. /\ rets' \in Seq(Receipts(c)) /\ Len(rets') = Len(rets) - r
          /\ \A i \in 1..Len(rets) - r : rets'[i] = rets[r + i]
      BY <1>1, <1>2, DropFirst
    <2> QED
      BY <2>1, <2>2
  <1>4. /\ \A i \in 1..Len(acks') : \E j \in 1..Len(acks) : acks'[i] = acks[j]
        /\ \A i \in 1..Len(rets') : \E j \in 1..Len(rets) : rets'[i] = rets[j]
    <2>1. /\ \A i \in 1..Len(acks') : a + i \in 1..Len(acks) /\ acks'[i] = acks[a + i]
          /\ \A i \in 1..Len(rets') : r + i \in 1..Len(rets) /\ rets'[i] = rets[r + i]
      BY <1>1, <1>3
    <2> QED
      BY <2>1
  <1>5. /\ \A j \in 1..Len(acks) : j \in 1..a \/ \E i \in 1..Len(acks') : acks'[i] = acks[j]
        /\ \A j \in 1..Len(rets) : j \in 1..r \/ \E i \in 1..Len(rets') : rets'[i] = rets[j]
    <2>1. \A j \in 1..Len(acks) : j \in 1..a \/ (j - a \in 1..Len(acks') /\ acks'[j - a] = acks[j])
      BY <1>1, <1>3
    <2>2. \A j \in 1..Len(rets) : j \in 1..r \/ (j - r \in 1..Len(rets') /\ rets'[j - r] = rets[j])
      BY <1>1, <1>3
    <2> QED
      BY <2>1, <2>2
  <1>6. /\ state' \in [c.Msgs -> {"queued", "leased", "gone"}]
        /\ \A m \in c.Msgs : state'[m] = "gone" => state[m] = "gone" \/ m \in handled
        /\ \A m \in c.Msgs : state'[m] = "leased" => state[m] = "leased"
        /\ \A i \in 1..a : acks[i][2] => state'[acks[i][1]] = "gone"
        /\ \A i \in 1..r : rets[i][2] => state'[rets[i][1]] # "leased"
    BY <1>2, CfSent DEF a, r
  <1>7. AcksHandled' /\ Cloudflare(c)!GoneWhenHandled'
    BY <1>2, <1>4, <1>6 DEF AcksHandled, Cloudflare!GoneWhenHandled
  <1>8. AllHeld(c)'
    <2> SUFFICES ASSUME c.Expiry = "never", c.MaxStops = 0, c.OnFail # "leave", crashes = 0
                 PROVE  /\ \A e \in hand : e[2]
                        /\ \A i \in 1..Len(acks') : acks'[i][2]
                        /\ \A i \in 1..Len(rets') : rets'[i][2]
                        /\ \A m \in c.Msgs : state'[m] = "leased" =>
                             \/ m \in answer \/ <<m, TRUE>> \in hand
                             \/ \E i \in 1..Len(acks') : acks'[i] = <<m, TRUE>>
                             \/ \E i \in 1..Len(rets') : rets'[i] = <<m, TRUE>>
      BY <1>2 DEF AllHeld
    <2>1. /\ \A e \in hand : e[2]
          /\ \A i \in 1..Len(acks') : acks'[i][2]
          /\ \A i \in 1..Len(rets') : rets'[i][2]
      BY <1>4 DEF AllHeld
    <2>2. ASSUME NEW m \in c.Msgs, state'[m] = "leased", m \notin answer, <<m, TRUE>> \notin hand
          PROVE  \/ \E i \in 1..Len(acks') : acks'[i] = <<m, TRUE>>
                 \/ \E i \in 1..Len(rets') : rets'[i] = <<m, TRUE>>
      <3>0. <<m, TRUE>>[1] = m /\ <<m, TRUE>>[2] = TRUE
        OBVIOUS
      <3>1. \/ \E i \in 1..Len(acks) : acks[i] = <<m, TRUE>>
            \/ \E i \in 1..Len(rets) : rets[i] = <<m, TRUE>>
        BY <1>6, <2>2 DEF AllHeld
      <3>2. \A i \in 1..a : acks[i] # <<m, TRUE>>
        <4> SUFFICES ASSUME NEW i \in 1..a, acks[i] = <<m, TRUE>>
                     PROVE  FALSE
          OBVIOUS
        <4>1. acks[i][1] = m /\ acks[i][2]
          BY <3>0
        <4> QED
          BY <1>6, <2>2, <4>1
      <3>3. \A i \in 1..r : rets[i] # <<m, TRUE>>
        <4> SUFFICES ASSUME NEW i \in 1..r, rets[i] = <<m, TRUE>>
                     PROVE  FALSE
          OBVIOUS
        <4>1. rets[i][1] = m /\ rets[i][2]
          BY <3>0
        <4> QED
          BY <1>6, <2>2, <4>1
      <3> DEFINE e == <<m, TRUE>>
      <3>4. /\ \/ \E i \in 1..Len(acks) : acks[i] = e
               \/ \E i \in 1..Len(rets) : rets[i] = e
            /\ \A i \in 1..a : acks[i] # e
            /\ \A i \in 1..r : rets[i] # e
        BY <3>1, <3>2, <3>3
      <3> HIDE DEF e
      <3>5. \/ \E i \in 1..Len(acks') : acks'[i] = e
            \/ \E i \in 1..Len(rets') : rets'[i] = e
        BY <1>5, <3>4
      <3> QED
        BY <3>5 DEF e
    <2> QED
      BY <2>1, <2>2
  <1> QED
    BY <1>2, <1>3, <1>6, <1>7, <1>8

\* A request that fails, applied by the server or not, keeps every entry.
LEMMA CfFlushFails ==
  ASSUME NEW c, CfConfig(c), CfInv(c), NEW applied, Cloudflare(c)!FlushFails(applied)
  PROVE  CfInv(c)'
  <1> USE DEF CfInv
  <1>1. /\ UNCHANGED <<answer, hand, acks, handled, stops, crashes>>
        /\ state' = Cloudflare(c)!Sent \/ state' = state
        /\ rets' = rets \/ (flushing \in Cloudflare(c)!Range(acks) /\ rets' = Append(rets, flushing))
    BY DEF Cloudflare!FlushFails
  <1>2. /\ DOMAIN acks = 1..Len(acks) /\ \A i \in 1..Len(acks) : acks[i] \in Receipts(c)
    BY LenProperties, ElementOfSeq
  <1>3. /\ rets' \in Seq(Receipts(c))
        /\ \A i \in 1..Len(rets) : i \in 1..Len(rets') /\ rets'[i] = rets[i]
        /\ \A i \in 1..Len(rets') : i \in 1..Len(rets) \/ \E j \in 1..Len(acks) : rets'[i] = acks[j]
    <2>1. CASE rets' = rets
      BY <2>1
    <2>2. CASE flushing \in Cloudflare(c)!Range(acks) /\ rets' = Append(rets, flushing)
      <3>1. PICK j \in 1..Len(acks) : flushing = acks[j]
        BY <1>2, <2>2 DEF Cloudflare!Range
      <3>2. flushing \in Receipts(c)
        BY <1>2, <3>1
      <3> QED
        BY <2>2, <3>1, <3>2, CfAppend
    <2> QED
      BY <1>1, <2>1, <2>2
  <1>4. /\ state' \in [c.Msgs -> {"queued", "leased", "gone"}]
        /\ \A m \in c.Msgs : state'[m] = "gone" => state[m] = "gone" \/ m \in handled
        /\ \A m \in c.Msgs : state'[m] = "leased" => state[m] = "leased"
    BY <1>1, CfSent
  <1>5. AcksHandled' /\ Cloudflare(c)!GoneWhenHandled'
    BY <1>1, <1>4 DEF AcksHandled, Cloudflare!GoneWhenHandled
  <1>6. AllHeld(c)'
    <2> SUFFICES ASSUME c.Expiry = "never", c.MaxStops = 0, c.OnFail # "leave", crashes = 0
                 PROVE  /\ \A i \in 1..Len(rets') : rets'[i][2]
                        /\ \A m \in c.Msgs : state'[m] = "leased" =>
                             \/ m \in answer \/ <<m, TRUE>> \in hand
                             \/ \E i \in 1..Len(acks) : acks[i] = <<m, TRUE>>
                             \/ \E i \in 1..Len(rets') : rets'[i] = <<m, TRUE>>
      BY <1>1 DEF AllHeld
    <2>1. \A i \in 1..Len(rets') : rets'[i][2]
      BY <1>3 DEF AllHeld
    <2>2. \A m \in c.Msgs : (\E i \in 1..Len(rets) : rets[i] = <<m, TRUE>>) =>
            \E i \in 1..Len(rets') : rets'[i] = <<m, TRUE>>
      BY <1>3
    <2> QED
      BY <1>4, <2>1, <2>2 DEF AllHeld
  <1> QED
    BY <1>1, <1>3, <1>4, <1>5, <1>6

\* Every step, or none, keeps it.
LEMMA CfStep ==
  ASSUME NEW c, CfConfig(c), CfInv(c), [Cloudflare(c)!Next]_(Cloudflare(c)!vars)
  PROVE  CfInv(c)'
  <1> USE DEF Cloudflare!bounds
  <1>1. ASSUME NEW S \in SUBSET c.Msgs, Cloudflare(c)!Pull(S)
        PROVE  CfInv(c)'
    BY <1>1 DEF Cloudflare!Pull, CfInv, Cloudflare!GoneWhenHandled, AcksHandled, AllHeld
  <1>2. CASE Cloudflare(c)!Pulled
    <2>1. /\ hand' = hand \cup {<<m, TRUE>> : m \in answer} /\ answer' = {}
          /\ UNCHANGED <<state, acks, rets, handled, stops, crashes>>
      BY <1>2 DEF Cloudflare!Pulled
    <2>2. /\ hand' \subseteq Receipts(c) /\ \A m \in answer : <<m, TRUE>> \in hand'
          /\ \A d \in hand' : d \in hand \/ d[2]
      <3>1. \A m \in answer : <<m, TRUE>> \in Receipts(c) /\ <<m, TRUE>>[2] = TRUE
        BY DEF CfInv, Receipts
      <3> QED
        BY <2>1, <3>1 DEF CfInv
    <2> QED
      BY <2>1, <2>2 DEF CfInv, Cloudflare!GoneWhenHandled, AcksHandled, AllHeld
  <1>3. CASE Cloudflare(c)!FetchCancelled
    <2>1. /\ stops' \in Nat /\ c.MaxStops # 0 /\ answer' = {}
          /\ UNCHANGED <<state, hand, acks, rets, handled, crashes>>
      BY <1>3 DEF Cloudflare!FetchCancelled, CfInv
    <2> QED
      BY <2>1 DEF CfInv, Cloudflare!GoneWhenHandled, AcksHandled, AllHeld
  <1>4. ASSUME NEW m \in c.Msgs, Cloudflare(c)!LeaseExpires(m)
        PROVE  CfInv(c)'
    BY <1>4, CfExpires
  <1>5. ASSUME NEW d \in hand, Cloudflare(c)!Ack(d)
        PROVE  CfInv(c)'
    BY <1>5, CfStage DEF Cloudflare!Ack, Cloudflare!StageAck
  <1>6. ASSUME NEW d \in hand, Cloudflare(c)!Fail(d)
        PROVE  CfInv(c)'
    <2>1. CASE c.OnFail = "leave" /\ UNCHANGED <<acks, rets, flushing, handled>>
      BY <1>6, <2>1 DEF Cloudflare!Fail, CfInv, Cloudflare!GoneWhenHandled, AcksHandled, AllHeld
    <2>2. CASE Cloudflare(c)!StageAck(d) /\ handled' = handled \cup {d[1]}
      BY <1>6, <2>2, CfStage DEF Cloudflare!Fail, Cloudflare!StageAck
    <2>3. CASE Cloudflare(c)!StageRetry(d) /\ UNCHANGED handled
      BY <1>6, <2>3, CfStage DEF Cloudflare!Fail, Cloudflare!StageRetry
    <2> QED
      BY <1>6, <2>1, <2>2, <2>3 DEF Cloudflare!Fail
  <1>7. ASSUME NEW d \in hand, Cloudflare(c)!Retry(d)
        PROVE  CfInv(c)'
    BY <1>7, CfStage DEF Cloudflare!Retry, Cloudflare!StageRetry
  <1>8. ASSUME NEW applied, Cloudflare(c)!FlushFails(applied)
        PROVE  CfInv(c)'
    BY <1>8, CfFlushFails
  <1>9. CASE Cloudflare(c)!FlushAcks
    BY <1>9 DEF Cloudflare!FlushAcks, CfInv, Cloudflare!GoneWhenHandled, AcksHandled, AllHeld
  <1>10. CASE Cloudflare(c)!FlushLocked
    BY <1>10, CfFlush
  <1>11. CASE Cloudflare(c)!Crash
    BY <1>11 DEF Cloudflare!Crash, CfInv, Cloudflare!GoneWhenHandled, AcksHandled, AllHeld
  <1>12. CASE UNCHANGED Cloudflare(c)!vars
    BY <1>12 DEF Cloudflare!vars, CfInv, Cloudflare!GoneWhenHandled, AcksHandled, AllHeld
  <1> QED
    BY <1>1, <1>2, <1>3, <1>4, <1>5, <1>6, <1>7, <1>8, <1>9, <1>10, <1>11, <1>12
       DEF Cloudflare!Next

\* The invariant says what the runs check of a queue.
LEMMA CfInvImplies ==
  ASSUME NEW c, CfInv(c)
  PROVE  /\ Cloudflare(c)!GoneWhenHandled
         /\ c.MaxStops = 0 => Cloudflare(c)!LeasedIsHeld
  <1>1. c.MaxStops = 0 => Cloudflare(c)!LeasedIsHeld
    <2> SUFFICES ASSUME c.MaxStops = 0, c.Expiry = "never", crashes = 0, c.OnFail # "leave",
                        NEW m \in c.Msgs, state[m] = "leased", m \notin answer
                 PROVE  Cloudflare(c)!Held(m)
      BY DEF Cloudflare!LeasedIsHeld
    <2>1. \/ <<m, TRUE>> \in hand
          \/ \E i \in 1..Len(acks) : acks[i] = <<m, TRUE>>
          \/ \E i \in 1..Len(rets) : rets[i] = <<m, TRUE>>
      BY DEF CfInv, AllHeld
    <2>2. DOMAIN acks = 1..Len(acks) /\ DOMAIN rets = 1..Len(rets)
      BY LenProperties DEF CfInv
    <2>3. <<m, TRUE>> \in hand \cup Cloudflare(c)!Range(acks) \cup Cloudflare(c)!Range(rets)
      BY <2>1, <2>2 DEF Cloudflare!Range
    <2> QED
      BY <2>3 DEF Cloudflare!Held
  <1> QED
    BY <1>1 DEF CfInv

\* A message leaves a queue only when it was handled, and while no lease can be lost
\* a leased message is with somebody, for every queue, batch size and bound.
THEOREM CfSafe ==
  ASSUME NEW c, CfConfig(c)
  PROVE  Cloudflare(c)!Spec => [](/\ Cloudflare(c)!GoneWhenHandled
                                  /\ c.MaxStops = 0 => Cloudflare(c)!LeasedIsHeld)
  <1>1. Cloudflare(c)!Init => CfInv(c)
    BY CfInit
  <1>2. CfInv(c) /\ [Cloudflare(c)!Next]_(Cloudflare(c)!vars) => CfInv(c)'
    BY CfStep
  <1>3. CfInv(c) => /\ Cloudflare(c)!GoneWhenHandled
                    /\ c.MaxStops = 0 => Cloudflare(c)!LeasedIsHeld
    BY CfInvImplies
  <1> QED
    BY <1>1, <1>2, <1>3, PTL DEF Cloudflare!Spec

--------------------------------------------------------------------------------
(* RabbitMQ *)

RabbitConfig(c) == IsFiniteSet(c.Msgs) /\ c.Prefetch \in Nat

\* Each queue has one user: the source its fetch, the sink at most one sender; and a
\* fetch is not cancelled while it connects.
OneUser(c) ==
  /\ c.SourceSenders = {} /\ "fetch" \notin c.SinkSenders /\ ~c.CancelEarly
  /\ \A u, v \in c.SinkSenders : u = v

InBuffer(m) == \E i \in 1..Len(buffer) : buffer[i] = m

\* Where messages are: the four places are apart, and the buffer holds none twice.
MailInv(c) ==
  /\ buffer \in Seq(c.Msgs) /\ Len(buffer) <= c.Prefetch
  /\ \A i, j \in 1..Len(buffer) : buffer[i] = buffer[j] => i = j
  /\ ready \subseteq c.Msgs /\ hand \subseteq c.Msgs
  /\ \A m \in c.Msgs : m \in ready \/ InBuffer(m) \/ m \in hand \/ m \in done
  /\ \A m \in c.Msgs : m \in ready => ~InBuffer(m) /\ m \notin hand /\ m \notin done
  /\ \A m \in c.Msgs : InBuffer(m) => m \notin hand /\ m \notin done
  /\ \A m \in c.Msgs : m \in hand => m \notin done

\* Queue q has a reference: it is open, or its user has acquired one to open it.
HasRef(c, q) ==
  opened[q] \/ \E u \in Rabbit(c)!Users : Rabbit(c)!QueueOf(u) = q /\ pc[u] = "acquired"
Ref(c, q) == IF HasRef(c, q) THEN 1 ELSE 0

\* The reference count counts the queues with a reference, and the connection is open
\* exactly while it is not zero.
LinkInv(c) ==
  /\ opened \in [{"source", "sink"} -> BOOLEAN] /\ live = opened
  /\ pc \in [Rabbit(c)!Users -> {"idle", "connecting", "acquired", "busy"}]
  /\ \A u \in Rabbit(c)!Users :
       /\ pc[u] \in {"connecting", "acquired"} => ~opened[Rabbit(c)!QueueOf(u)]
       /\ pc[u] = "busy" => opened[Rabbit(c)!QueueOf(u)]
  /\ refs = Ref(c, "source") + Ref(c, "sink")
  /\ conn \in BOOLEAN /\ (conn <=> refs > 0)

RabbitInv(c) ==
  /\ refs \in Nat /\ orphan \subseteq Rabbit(c)!Users
  /\ MailInv(c)
  /\ OneUser(c) => LinkInv(c)

\* Messages and connection start with their invariant.
LEMMA RabbitInit ==
  ASSUME NEW c, RabbitConfig(c)
  PROVE  Rabbit(c)!Init => RabbitInv(c)
  <1> SUFFICES ASSUME Rabbit(c)!Init
               PROVE  RabbitInv(c)
    OBVIOUS
  <1>1. MailInv(c)
    BY DEF Rabbit!Init, MailInv, InBuffer, RabbitConfig
  <1>2. ~HasRef(c, "source") /\ ~HasRef(c, "sink")
    BY DEF Rabbit!Init, HasRef, Rabbit!Queues
  <1>3. LinkInv(c)
    <2>1. refs = Ref(c, "source") + Ref(c, "sink")
      BY <1>2 DEF Rabbit!Init, Ref
    <2>2. opened \in [{"source", "sink"} -> BOOLEAN] /\ live = opened
      BY DEF Rabbit!Init, Rabbit!Queues
    <2>3. \A u \in Rabbit(c)!Users : pc[u] = "idle"
      BY DEF Rabbit!Init
    <2>4. pc \in [Rabbit(c)!Users -> {"idle", "connecting", "acquired", "busy"}]
      BY DEF Rabbit!Init
    <2>5. conn \in BOOLEAN /\ (conn <=> refs > 0)
      <3>1. conn = FALSE /\ refs = 0
        BY DEF Rabbit!Init
      <3>2. ~(refs > 0)
        BY <3>1
      <3> QED
        BY <3>1, <3>2, Zenon
    <2> QED
      BY <2>1, <2>2, <2>3, <2>4, <2>5 DEF LinkInv
  <1> QED
    BY <1>1, <1>3 DEF Rabbit!Init, RabbitInv

\* The users of a connector whose queues have one user each.
LEMMA RabbitUsers ==
  ASSUME NEW c, OneUser(c)
  PROVE  /\ \A u \in Rabbit(c)!Users : Rabbit(c)!QueueOf(u) \in {"source", "sink"}
         /\ \A u, v \in Rabbit(c)!Users : Rabbit(c)!QueueOf(u) = Rabbit(c)!QueueOf(v) => u = v
         /\ "fetch" \in Rabbit(c)!Users /\ Rabbit(c)!QueueOf("fetch") = "source"
  BY DEF OneUser, Rabbit!Users, Rabbit!Senders, Rabbit!QueueOf

\* The loss of a channel takes messages back to the queue and loses none.
LEMMA RabbitMail ==
  ASSUME NEW c, RabbitConfig(c), MailInv(c), Rabbit(c)!ChannelGone \/ UNCHANGED Rabbit(c)!mail
  PROVE  MailInv(c)'
  <1>1. CASE UNCHANGED Rabbit(c)!mail
    BY <1>1 DEF Rabbit!mail, MailInv, InBuffer
  <1>2. CASE Rabbit(c)!ChannelGone
    <2>1. DOMAIN buffer = 1..Len(buffer) /\ \A i \in 1..Len(buffer) : buffer[i] \in c.Msgs
      BY LenProperties, ElementOfSeq DEF MailInv
    <2>2. \A m \in c.Msgs : m \in Rabbit(c)!Range(buffer) <=> InBuffer(m)
      BY <2>1 DEF Rabbit!Range, InBuffer
    <2>3. Rabbit(c)!Range(buffer) \subseteq c.Msgs
      BY <2>1 DEF Rabbit!Range
    <2>4. buffer' = <<>> /\ Len(buffer') = 0 /\ \A m : ~InBuffer(m)'
      BY <1>2 DEF Rabbit!ChannelGone, InBuffer
    <2>5. ready' \subseteq c.Msgs /\ hand' = {} /\ done' = done
      BY <1>2, <2>3 DEF Rabbit!ChannelGone, MailInv
    <2>6. \A m \in c.Msgs : m \in ready' <=> m \in ready \/ InBuffer(m) \/ m \in hand
      BY <1>2, <2>2 DEF Rabbit!ChannelGone
    <2> QED
      BY <2>4, <2>5, <2>6 DEF MailInv, RabbitConfig
  <1> QED
    BY <1>1, <1>2

\* Tearing down queue q gives its reference back.
LEMMA RabbitTeardown ==
  ASSUME NEW c, OneUser(c), LinkInv(c), refs \in Nat, NEW q \in {"source", "sink"}, NEW v,
         Rabbit(c)!Teardown(q, v), HasRef(c, q),
         pc' \in [Rabbit(c)!Users -> {"idle", "connecting", "acquired", "busy"}],
         \A u \in Rabbit(c)!Users : Rabbit(c)!QueueOf(u) # q => pc'[u] = pc[u],
         \A u \in Rabbit(c)!Users : Rabbit(c)!QueueOf(u) = q => pc'[u] = "idle"
  PROVE  LinkInv(c)'
  <1> USE DEF LinkInv
  <1> DEFINE other == IF q = "source" THEN "sink" ELSE "source"
  <1>1. other \in {"source", "sink"} /\ other # q /\ {"source", "sink"} = {q, other}
    OBVIOUS
  <1>2. opened' = [opened EXCEPT ![q] = FALSE]
    BY DEF Rabbit!Teardown
  <1>3. ~HasRef(c, q)'
    BY <1>2 DEF HasRef
  <1>4. HasRef(c, other)' = HasRef(c, other)
    BY <1>1, <1>2 DEF HasRef
  <1>5. refs = 1 + Ref(c, other) /\ Ref(c, other) \in {0, 1} /\ Ref(c, other)' = Ref(c, other)
        /\ Ref(c, q)' = 0
    BY <1>1, <1>3, <1>4 DEF Ref
  <1>6. refs' = refs - 1 /\ conn' \in BOOLEAN /\ (conn' <=> conn /\ refs' > 0)
        /\ live' = IF refs' = 0 THEN [k \in {"source", "sink"} |-> FALSE]
                   ELSE [live EXCEPT ![q] = FALSE]
    <2>1. /\ refs' = IF refs > 0 THEN refs - 1 ELSE 0
          /\ live' = IF refs' = 0 THEN [k \in {"source", "sink"} |-> FALSE]
                     ELSE [live EXCEPT ![q] = FALSE]
      BY DEF Rabbit!Teardown, Rabbit!Release, Rabbit!Queues
    <2>2. conn' = (conn /\ refs' > 0)
      BY DEF Rabbit!Teardown, Rabbit!Release
    <2>3. refs' = refs - 1
      BY <1>5, <2>1
    <2>4. conn' \in BOOLEAN /\ (conn' <=> conn /\ refs' > 0)
      BY <2>2, Zenon
    <2> QED
      BY <2>1, <2>3, <2>4
  <1>7. refs' = Ref(c, "source")' + Ref(c, "sink")' /\ (conn' <=> refs' > 0)
    <2>1. refs' = Ref(c, other)' + Ref(c, q)' /\ (conn' <=> refs' > 0)
      BY <1>5, <1>6
    <2>2. CASE q = "source"
      BY <1>5, <2>1, <2>2
    <2>3. CASE q = "sink"
      BY <1>5, <2>1, <2>3
    <2> QED
      BY <2>2, <2>3
  <1>8. live' = opened'
    <2>1. CASE refs' = 0
      <3>1. ~HasRef(c, other)
        BY <1>5, <1>6, <2>1 DEF Ref
      <3>2. opened[other] = FALSE
        BY <1>1, <3>1 DEF HasRef
      <3> QED
        BY <1>1, <1>2, <1>6, <2>1, <3>2
    <2>2. CASE refs' # 0
      BY <1>2, <1>6, <2>2
    <2> QED
      BY <2>1, <2>2
  <1>9. \A u \in Rabbit(c)!Users :
          /\ pc'[u] \in {"connecting", "acquired"} => ~opened'[Rabbit(c)!QueueOf(u)]
          /\ pc'[u] = "busy" => opened'[Rabbit(c)!QueueOf(u)]
    BY <1>2, RabbitUsers
  <1> QED
    BY <1>2, <1>6, <1>7, <1>8, <1>9

\* A user moves without giving or taking a reference.
LEMMA RabbitMove ==
  ASSUME NEW c, OneUser(c), LinkInv(c), UNCHANGED <<conn, refs, opened, live>>,
         NEW u \in Rabbit(c)!Users, pc[u] # "acquired", NEW s \in {"idle", "connecting", "busy"},
         pc' = [pc EXCEPT ![u] = s],
         s = "busy" => opened[Rabbit(c)!QueueOf(u)],
         s = "connecting" => ~opened[Rabbit(c)!QueueOf(u)]
  PROVE  LinkInv(c)'
  <1> USE DEF LinkInv
  <1>1. /\ pc' \in [Rabbit(c)!Users -> {"idle", "connecting", "acquired", "busy"}]
        /\ \A v \in Rabbit(c)!Users : pc'[v] = IF v = u THEN s ELSE pc[v]
    OBVIOUS
  <1>2. \A v \in Rabbit(c)!Users : pc'[v] = "acquired" <=> pc[v] = "acquired"
    BY <1>1
  <1>3. HasRef(c, "source")' = HasRef(c, "source") /\ HasRef(c, "sink")' = HasRef(c, "sink")
    BY <1>2 DEF HasRef
  <1>4. refs' = Ref(c, "source")' + Ref(c, "sink")'
    BY <1>3 DEF Ref
  <1> QED
    BY <1>1, <1>4

\* A queue takes a reference to the connection.
LEMMA RabbitAcquires ==
  ASSUME NEW c, OneUser(c), LinkInv(c), NEW u \in Rabbit(c)!Users, Rabbit(c)!Acquire(u)
  PROVE  LinkInv(c)'
  <1> USE DEF LinkInv
  <1> DEFINE q == Rabbit(c)!QueueOf(u)
             other == IF q = "source" THEN "sink" ELSE "source"
  <1>1. /\ pc[u] = "connecting" /\ pc' = [pc EXCEPT ![u] = "acquired"]
        /\ conn' = TRUE /\ refs' = refs + 1 /\ UNCHANGED <<opened, live>>
    BY DEF Rabbit!Acquire
  <1>2. q \in {"source", "sink"} /\ ~opened[q] /\ \A v \in Rabbit(c)!Users : Rabbit(c)!QueueOf(v) = q => v = u
    BY <1>1, RabbitUsers
  <1>3. ~HasRef(c, q) /\ HasRef(c, q)'
    BY <1>1, <1>2 DEF HasRef
  <1>4. HasRef(c, other)' = HasRef(c, other)
    BY <1>1, <1>2 DEF HasRef
  <1>5. Ref(c, q) = 0 /\ Ref(c, q)' = 1 /\ Ref(c, other)' = Ref(c, other) /\ Ref(c, other) \in {0, 1}
    BY <1>3, <1>4 DEF Ref
  <1>6. refs' = Ref(c, "source")' + Ref(c, "sink")' /\ refs' > 0
    <2>1. CASE q = "source"
      BY <1>1, <1>5, <2>1
    <2>2. CASE q = "sink"
      BY <1>1, <1>5, <2>2
    <2> QED
      BY <1>2, <2>1, <2>2
  <1>7. conn' \in BOOLEAN /\ (conn' <=> refs' > 0)
    BY <1>1, <1>6, Zenon
  <1> QED
    BY <1>1, <1>6, <1>7

\* A queue opens its channel on the connection it has a reference to.
LEMMA RabbitOpens ==
  ASSUME NEW c, OneUser(c), LinkInv(c), NEW u \in Rabbit(c)!Users, Rabbit(c)!Opens(u)
  PROVE  LinkInv(c)'
  <1> USE DEF LinkInv
  <1> DEFINE q == Rabbit(c)!QueueOf(u)
             other == IF q = "source" THEN "sink" ELSE "source"
  <1>1. /\ pc[u] = "acquired" /\ pc' = [pc EXCEPT ![u] = "busy"]
        /\ opened' = [opened EXCEPT ![q] = TRUE] /\ live' = [live EXCEPT ![q] = TRUE]
        /\ UNCHANGED <<conn, refs>>
    BY DEF Rabbit!Opens
  <1>2. q \in {"source", "sink"} /\ \A v \in Rabbit(c)!Users : Rabbit(c)!QueueOf(v) = q => v = u
    BY RabbitUsers
  <1>3. HasRef(c, q) /\ HasRef(c, q)'
    BY <1>1, <1>2 DEF HasRef
  <1>4. HasRef(c, other)' = HasRef(c, other)
    BY <1>1, <1>2 DEF HasRef
  <1>5. Ref(c, q)' = Ref(c, q) /\ Ref(c, other)' = Ref(c, other)
    BY <1>3, <1>4 DEF Ref
  <1>6. refs' = Ref(c, "source")' + Ref(c, "sink")'
    BY <1>1, <1>2, <1>5
  <1>7. \A v \in Rabbit(c)!Users :
          /\ pc'[v] \in {"connecting", "acquired"} => ~opened'[Rabbit(c)!QueueOf(v)]
          /\ pc'[v] = "busy" => opened'[Rabbit(c)!QueueOf(v)]
    BY <1>1, <1>2, RabbitUsers
  <1> QED
    BY <1>1, <1>2, <1>6, <1>7

\* What a teardown does to everything.
LEMMA RabbitTorn ==
  ASSUME NEW c, RabbitConfig(c), RabbitInv(c), NEW q \in {"source", "sink"}, NEW v,
         Rabbit(c)!Teardown(q, v),
         OneUser(c) => /\ HasRef(c, q)
                       /\ pc' \in [Rabbit(c)!Users -> {"idle", "connecting", "acquired", "busy"}]
                       /\ \A u \in Rabbit(c)!Users : Rabbit(c)!QueueOf(u) # q => pc'[u] = pc[u]
                       /\ \A u \in Rabbit(c)!Users : Rabbit(c)!QueueOf(u) = q => pc'[u] = "idle"
  PROVE  RabbitInv(c)'
  <1>1. refs' \in Nat /\ orphan' \subseteq Rabbit(c)!Users
    BY DEF RabbitInv, Rabbit!Teardown, Rabbit!Release
  <1>2. MailInv(c)'
    BY RabbitMail DEF RabbitInv, Rabbit!Teardown
  <1>3. OneUser(c) => LinkInv(c)'
    BY RabbitTeardown DEF RabbitInv
  <1> QED
    BY <1>1, <1>2, <1>3 DEF RabbitInv

\* A message the consumer's callback takes from the queue is new in the buffer.
LEMMA RabbitOnMessage ==
  ASSUME NEW c, RabbitConfig(c), MailInv(c), NEW m \in c.Msgs, Rabbit(c)!OnMessage(m)
  PROVE  MailInv(c)'
  <1> USE DEF MailInv
  <1>1. /\ m \in ready /\ Len(buffer) + Rabbit(c)!Cardinality(hand) < c.Prefetch
        /\ ready' = ready \ {m} /\ buffer' = Append(buffer, m) /\ UNCHANGED <<hand, done>>
    BY DEF Rabbit!OnMessage
  <1>2. Cardinality(hand) \in Nat /\ Len(buffer) \in Nat
    BY FS_Subset, FS_CardinalityType, LenProperties DEF RabbitConfig
  <1>3. Rabbit(c)!Cardinality(hand) = Cardinality(hand)
    BY DEF Rabbit!Cardinality, Cardinality
  <1>4. Len(buffer) + 1 <= c.Prefetch
    BY <1>1, <1>2, <1>3 DEF RabbitConfig
  <1>5. /\ buffer' \in Seq(c.Msgs) /\ Len(buffer') = Len(buffer) + 1
        /\ \A i \in 1..Len(buffer) : i \in 1..Len(buffer') /\ buffer'[i] = buffer[i]
        /\ Len(buffer) + 1 \in 1..Len(buffer') /\ buffer'[Len(buffer) + 1] = m
        /\ \A i \in 1..Len(buffer') : i \in 1..Len(buffer) \/ i = Len(buffer) + 1
    BY <1>1, <1>2, AppendProperties
  <1>6. \A n : InBuffer(n)' <=> InBuffer(n) \/ n = m
    BY <1>5 DEF InBuffer
  <1>7. ~InBuffer(m)
    BY <1>1
  <1>8. \A i, j \in 1..Len(buffer') : buffer'[i] = buffer'[j] => i = j
    BY <1>5, <1>7 DEF InBuffer
  <1> QED
    BY <1>1, <1>4, <1>5, <1>6, <1>8

\* A fetch moves the first messages of the buffer to handlers.
LEMMA RabbitFetched ==
  ASSUME NEW c, RabbitConfig(c), MailInv(c), NEW n, Rabbit(c)!Fetched(n)
  PROVE  MailInv(c)'
  <1> USE DEF MailInv
  <1>1. /\ n \in 1..Len(buffer) /\ hand' = hand \cup Rabbit(c)!Range(SubSeq(buffer, 1, n))
        /\ buffer' = SubSeq(buffer, n + 1, Len(buffer)) /\ UNCHANGED <<ready, done>>
    BY DEF Rabbit!Fetched
  <1>2. Len(buffer) \in Nat /\ n \in 0..Len(buffer) /\ \A i \in 1..Len(buffer) : buffer[i] \in c.Msgs
    <2>1. Len(buffer) \in Nat /\ \A i \in 1..Len(buffer) : buffer[i] \in c.Msgs
      BY LenProperties, ElementOfSeq
    <2> QED
      BY <1>1, <2>1
  <1>0. buffer \in Seq(c.Msgs)
    OBVIOUS
  <1>3. /\ buffer' \in Seq(c.Msgs) /\ Len(buffer') = Len(buffer) - n
        /\ \A i \in 1..Len(buffer) - n : buffer'[i] = buffer[n + i]
    <2> HIDE DEF MailInv
    <2>1. /\ SubSeq(buffer, n + 1, Len(buffer)) \in Seq(c.Msgs)
          /\ Len(SubSeq(buffer, n + 1, Len(buffer))) = Len(buffer) - n
          /\ \A i \in 1..Len(buffer) - n : SubSeq(buffer, n + 1, Len(buffer))[i] = buffer[n + i]
      BY <1>0, <1>2, DropFirst
    <2> QED
      BY <1>1, <2>1
  <1> DEFINE head == SubSeq(buffer, 1, n)
  <1>4. head \in Seq(c.Msgs) /\ Len(head) = n /\ \A i \in 1..n : head[i] = buffer[i]
    <2> HIDE DEF MailInv
    <2> QED
      BY <1>0, <1>2, TakeFirst
  <1>5. DOMAIN head = 1..n
    BY <1>4, LenProperties
  <1> HIDE DEF head
  <1>6. hand' = hand \cup Rabbit(c)!Range(head)
    BY <1>1 DEF head
  <1>7. \A m : m \in Rabbit(c)!Range(head) <=> \E i \in 1..n : buffer[i] = m
    BY <1>4, <1>5 DEF Rabbit!Range
  <1>8. \A m : InBuffer(m)' <=> \E j \in n + 1..Len(buffer) : buffer[j] = m
    <2>1. \A j \in n + 1..Len(buffer) : j - n \in 1..Len(buffer') /\ buffer'[j - n] = buffer[j]
      BY <1>2, <1>3
    <2>2. \A i \in 1..Len(buffer') : n + i \in n + 1..Len(buffer) /\ buffer'[i] = buffer[n + i]
      BY <1>2, <1>3
    <2> QED
      BY <2>1, <2>2 DEF InBuffer
  <1>9. \A i, j \in 1..Len(buffer') : buffer'[i] = buffer'[j] => i = j
    <2> SUFFICES ASSUME NEW i \in 1..Len(buffer'), NEW j \in 1..Len(buffer'), buffer'[i] = buffer'[j]
                 PROVE  i = j
      OBVIOUS
    <2>1. n + i \in 1..Len(buffer) /\ n + j \in 1..Len(buffer) /\ buffer[n + i] = buffer[n + j]
      BY <1>2, <1>3
    <2>2. n + i = n + j
      BY <2>1
    <2> QED
      BY <1>2, <2>2
  <1>10. /\ 1..n \subseteq 1..Len(buffer) /\ n + 1..Len(buffer) \subseteq 1..Len(buffer)
         /\ \A i \in 1..n : i \notin n + 1..Len(buffer)
         /\ \A i \in 1..Len(buffer) : i \in 1..n \/ i \in n + 1..Len(buffer)
    BY <1>2
  <1>11. \A m \in c.Msgs : /\ InBuffer(m) <=> m \in Rabbit(c)!Range(head) \/ InBuffer(m)'
                           /\ ~(m \in Rabbit(c)!Range(head) /\ InBuffer(m)')
    <2> DEFINE all == 1..Len(buffer)
               first == 1..n
               rest == n + 1..Len(buffer)
    <2>1. /\ first \subseteq all /\ rest \subseteq all /\ \A i \in first : i \notin rest
          /\ \A i \in all : i \in first \/ i \in rest
          /\ \A i, j \in all : buffer[i] = buffer[j] => i = j
      BY <1>10
    <2>2. /\ \A m : InBuffer(m) <=> \E i \in all : buffer[i] = m
          /\ \A m : InBuffer(m)' <=> \E i \in rest : buffer[i] = m
          /\ \A m : m \in Rabbit(c)!Range(head) <=> \E i \in first : buffer[i] = m
      BY <1>7, <1>8 DEF InBuffer
    <2> HIDE DEF all, first, rest, MailInv
    <2> SUFFICES ASSUME NEW m \in c.Msgs
                 PROVE  /\ InBuffer(m) <=> m \in Rabbit(c)!Range(head) \/ InBuffer(m)'
                        /\ ~(m \in Rabbit(c)!Range(head) /\ InBuffer(m)')
      OBVIOUS
    <2>3. InBuffer(m) <=> m \in Rabbit(c)!Range(head) \/ InBuffer(m)'
      BY <2>1, <2>2
    <2>4. ~(m \in Rabbit(c)!Range(head) /\ InBuffer(m)')
      BY <2>1, <2>2
    <2> QED
      BY <2>3, <2>4
  <1>12. Rabbit(c)!Range(head) \subseteq c.Msgs
    BY <1>2, <1>7, <1>10
  <1>13. Len(buffer') <= c.Prefetch
    BY <1>2, <1>3 DEF RabbitConfig
  <1> QED
    BY <1>1, <1>3, <1>6, <1>9, <1>11, <1>12, <1>13

\* A user that has the queue's reference and gives it up: the queue is torn down.
LEMMA RabbitGivesUp ==
  ASSUME NEW c, RabbitConfig(c), RabbitInv(c), NEW u \in Rabbit(c)!Users,
         NEW q, q = Rabbit(c)!QueueOf(u), Rabbit(c)!Teardown(q, u),
         OneUser(c) => pc[u] \in {"acquired", "busy"}, pc' = [pc EXCEPT ![u] = "idle"]
  PROVE  RabbitInv(c)'
  <1>1. q \in {"source", "sink"}
    BY DEF Rabbit!QueueOf
  <1>2. ASSUME OneUser(c)
        PROVE  /\ HasRef(c, q)
               /\ pc' \in [Rabbit(c)!Users -> {"idle", "connecting", "acquired", "busy"}]
               /\ \A v \in Rabbit(c)!Users : Rabbit(c)!QueueOf(v) # q => pc'[v] = pc[v]
               /\ \A v \in Rabbit(c)!Users : Rabbit(c)!QueueOf(v) = q => pc'[v] = "idle"
    <2>1. LinkInv(c)
      BY <1>2 DEF RabbitInv
    <2>2. \A v \in Rabbit(c)!Users : pc'[v] = IF v = u THEN "idle" ELSE pc[v]
      BY <2>1 DEF LinkInv
    <2>3. HasRef(c, q)
      BY <1>2, <2>1 DEF LinkInv, HasRef
    <2>4. pc' \in [Rabbit(c)!Users -> {"idle", "connecting", "acquired", "busy"}]
      BY <2>1 DEF LinkInv
    <2> QED
      BY <1>2, <2>2, <2>3, <2>4, RabbitUsers
  <1> QED
    BY <1>1, <1>2, RabbitTorn

\* Every step, or none, keeps it.
LEMMA RabbitStep ==
  ASSUME NEW c, RabbitConfig(c), RabbitInv(c), [Rabbit(c)!Next]_(Rabbit(c)!vars)
  PROVE  RabbitInv(c)'
  <1> USE DEF Rabbit!bounds
  <1>0. "fetch" \in Rabbit(c)!Users /\ Rabbit(c)!Senders \subseteq Rabbit(c)!Users
    BY DEF Rabbit!Users
  <1>1. ASSUME UNCHANGED Rabbit(c)!mail, refs' \in Nat, orphan' \subseteq Rabbit(c)!Users,
               OneUser(c) => LinkInv(c)'
        PROVE  RabbitInv(c)'
    BY <1>1, RabbitMail DEF RabbitInv
  <1>2. ASSUME UNCHANGED Rabbit(c)!link, MailInv(c)'
        PROVE  RabbitInv(c)'
    BY <1>2 DEF Rabbit!link, RabbitInv, LinkInv, Ref, HasRef
  <1>3. ASSUME NEW u \in Rabbit(c)!Users, Rabbit(c)!Begin(u)
        PROVE  RabbitInv(c)'
    <2>1. OneUser(c) => LinkInv(c)'
      <3> SUFFICES ASSUME OneUser(c)
                   PROVE  LinkInv(c)'
        OBVIOUS
      <3>1. CASE opened[Rabbit(c)!QueueOf(u)]
        BY <1>3, <3>1, RabbitMove DEF Rabbit!Begin, RabbitInv
      <3>2. CASE ~opened[Rabbit(c)!QueueOf(u)]
        BY <1>3, <3>2, RabbitMove DEF Rabbit!Begin, RabbitInv
      <3> QED
        BY <3>1, <3>2
    <2> QED
      BY <1>1, <1>3, <2>1 DEF Rabbit!Begin, RabbitInv
  <1>4. ASSUME NEW u \in Rabbit(c)!Users, Rabbit(c)!Acquire(u)
        PROVE  RabbitInv(c)'
    <2>1. OneUser(c) => LinkInv(c)'
      BY <1>4, RabbitAcquires DEF RabbitInv
    <2> QED
      BY <1>1, <1>4, <2>1 DEF Rabbit!Acquire, RabbitInv
  <1>5. ASSUME NEW u \in Rabbit(c)!Users, Rabbit(c)!Opens(u)
        PROVE  RabbitInv(c)'
    <2>1. OneUser(c) => LinkInv(c)'
      BY <1>5, RabbitOpens DEF RabbitInv
    <2> QED
      BY <1>1, <1>5, <2>1 DEF Rabbit!Opens, RabbitInv
  <1>6. ASSUME NEW u \in Rabbit(c)!Users, Rabbit(c)!OpenFails(u)
        PROVE  RabbitInv(c)'
    BY <1>6, RabbitGivesUp DEF Rabbit!OpenFails
  <1>7. ASSUME NEW u \in Rabbit(c)!Senders, Rabbit(c)!Sent(u)
        PROVE  RabbitInv(c)'
    <2>1. OneUser(c) => LinkInv(c)'
      BY <1>0, <1>7, RabbitMove DEF Rabbit!Sent, RabbitInv
    <2> QED
      BY <1>1, <1>7, <2>1 DEF Rabbit!Sent, RabbitInv
  <1>8. ASSUME NEW u \in Rabbit(c)!Senders, Rabbit(c)!SendFails(u)
        PROVE  RabbitInv(c)'
    BY <1>0, <1>8, RabbitGivesUp DEF Rabbit!SendFails
  <1>9. ASSUME NEW q \in Rabbit(c)!Queues, Rabbit(c)!Close(q)
        PROVE  RabbitInv(c)'
    <2>1. /\ opened[q] /\ Rabbit(c)!Teardown(q, "none") /\ UNCHANGED pc
          /\ \A u \in Rabbit(c)!Users : Rabbit(c)!QueueOf(u) = q => pc[u] = "idle"
      BY <1>9 DEF Rabbit!Close
    <2>2. HasRef(c, q) /\ q \in {"source", "sink"}
      BY <2>1 DEF HasRef, Rabbit!Queues
    <2> QED
      BY <2>1, <2>2, RabbitTorn DEF RabbitInv, LinkInv
  <1>10. ASSUME NEW m \in c.Msgs, Rabbit(c)!OnMessage(m)
         PROVE  RabbitInv(c)'
    BY <1>2, <1>10, RabbitOnMessage DEF Rabbit!OnMessage, RabbitInv
  <1>11. ASSUME NEW m \in c.Msgs, Rabbit(c)!Ack(m)
         PROVE  RabbitInv(c)'
    <2>1. MailInv(c)'
      BY <1>11 DEF Rabbit!Ack, RabbitInv, MailInv, InBuffer
    <2> QED
      BY <1>2, <1>11, <2>1 DEF Rabbit!Ack
  <1>12. ASSUME NEW m \in c.Msgs, Rabbit(c)!Nack(m)
         PROVE  RabbitInv(c)'
    <2>1. MailInv(c)'
      BY <1>12 DEF Rabbit!Nack, RabbitInv, MailInv, InBuffer
    <2> QED
      BY <1>2, <1>12, <2>1 DEF Rabbit!Nack
  <1>13. ASSUME NEW m \in c.Msgs, Rabbit(c)!StaleSettles(m)
         PROVE  RabbitInv(c)'
    <2>1. MailInv(c)'
      BY <1>13 DEF Rabbit!StaleSettles, RabbitInv, MailInv, InBuffer
    <2> QED
      BY <1>2, <1>13, <2>1 DEF Rabbit!StaleSettles
  <1>14. ASSUME NEW n \in 1..c.Prefetch, Rabbit(c)!Fetched(n)
         PROVE  RabbitInv(c)'
    <2>1. MailInv(c)'
      BY <1>14, RabbitFetched DEF RabbitInv
    <2>2. OneUser(c) => LinkInv(c)'
      BY <1>0, <1>14, RabbitMove DEF Rabbit!Fetched, RabbitInv
    <2> QED
      BY <1>14, <2>1, <2>2 DEF Rabbit!Fetched, RabbitInv
  <1>15. CASE Rabbit(c)!FetchCancelled
    <2>1. /\ pc["fetch"] \in {"busy", "acquired"} \/ c.CancelEarly
          /\ pc' = [pc EXCEPT !["fetch"] = "idle"] /\ Rabbit(c)!Teardown("source", "fetch")
      BY <1>15 DEF Rabbit!FetchCancelled
    <2>2. CASE OneUser(c)
      BY <1>0, <2>1, <2>2, RabbitUsers, RabbitGivesUp DEF OneUser
    <2>3. CASE ~OneUser(c)
      BY <2>1, <2>3, RabbitTorn
    <2> QED
      BY <2>2, <2>3
  <1>16. CASE Rabbit(c)!Stop
    BY <1>2, <1>16, RabbitMail DEF Rabbit!Stop, RabbitInv
  <1>17. CASE Rabbit(c)!StopCancels
    <2>1. CASE OneUser(c)
      BY <1>0, <1>17, <2>1, RabbitUsers, RabbitGivesUp DEF Rabbit!StopCancels
    <2>2. CASE ~OneUser(c)
      BY <1>17, <2>2, RabbitTorn DEF Rabbit!StopCancels
    <2> QED
      BY <2>1, <2>2
  <1>18. CASE Rabbit(c)!Drop
    <2>1. MailInv(c)'
      BY <1>18, RabbitMail DEF Rabbit!Drop, RabbitInv
    <2>2. orphan' \subseteq Rabbit(c)!Users /\ UNCHANGED <<conn, refs, pc, opened, live>>
      BY <1>0, <1>18 DEF Rabbit!Drop, RabbitInv
    <2> QED
      BY <2>1, <2>2 DEF RabbitInv, LinkInv, Ref, HasRef
  <1>19. CASE UNCHANGED Rabbit(c)!vars
    BY <1>2, <1>19, RabbitMail DEF Rabbit!vars, RabbitInv
  <1> QED
    BY <1>3, <1>4, <1>5, <1>6, <1>7, <1>8, <1>9, <1>10, <1>11, <1>12, <1>13, <1>14, <1>15,
       <1>16, <1>17, <1>18, <1>19 DEF Rabbit!Next

\* The invariant says what the runs check of the two queues.
LEMMA RabbitInvImplies ==
  ASSUME NEW c, RabbitInv(c)
  PROVE  /\ Rabbit(c)!TypeOK
         /\ OneUser(c) => Rabbit(c)!LinkedWhileOpen /\ Rabbit(c)!ClosedAtStop
  <1>1. ASSUME NEW m \in c.Msgs
        PROVE  \E i \in 1..4 : \A j \in 1..4 : m \in Rabbit(c)!Places[j] <=> j = i
    <2>1. MailInv(c)
      BY DEF RabbitInv
    <2>2. m \in Rabbit(c)!Range(buffer) <=> InBuffer(m)
      <3>1. DOMAIN buffer = 1..Len(buffer)
        BY <2>1, LenProperties DEF MailInv
      <3> QED
        BY <3>1 DEF Rabbit!Range, InBuffer
    <2>3. /\ m \in ready \/ InBuffer(m) \/ m \in hand \/ m \in done
          /\ m \in ready => ~InBuffer(m) /\ m \notin hand /\ m \notin done
          /\ InBuffer(m) => m \notin hand /\ m \notin done
          /\ m \in hand => m \notin done
      BY <2>1 DEF MailInv
    <2> DEFINE p == Rabbit(c)!Places
    <2>4. p[1] = ready /\ p[2] = Rabbit(c)!Range(buffer) /\ p[3] = hand /\ p[4] = done
      BY DEF Rabbit!Places
    <2> HIDE DEF p
    <2>5. 1..4 = {1, 2, 3, 4}
      OBVIOUS
    <2>6. CASE m \in ready
      BY <2>2, <2>3, <2>4, <2>5, <2>6 DEF p
    <2>7. CASE InBuffer(m)
      BY <2>2, <2>3, <2>4, <2>5, <2>7 DEF p
    <2>8. CASE m \in hand
      BY <2>2, <2>3, <2>4, <2>5, <2>8 DEF p
    <2>9. CASE m \in done
      BY <2>2, <2>3, <2>4, <2>5, <2>9 DEF p
    <2> QED
      BY <2>3, <2>6, <2>7, <2>8, <2>9
  <1>2. Rabbit(c)!TypeOK
    BY <1>1 DEF Rabbit!TypeOK, RabbitInv, MailInv
  <1>3. ASSUME OneUser(c)
        PROVE  Rabbit(c)!LinkedWhileOpen /\ Rabbit(c)!ClosedAtStop
    <2>1. LinkInv(c)
      BY <1>3 DEF RabbitInv
    <2>2. Rabbit(c)!LinkedWhileOpen
      <3> SUFFICES ASSUME NEW q \in {"source", "sink"}, opened[q]
                   PROVE  live[q] /\ conn
        BY DEF Rabbit!LinkedWhileOpen, Rabbit!Queues
      <3>1. HasRef(c, q) /\ Ref(c, q) = 1
        BY DEF HasRef, Ref
      <3>2. Ref(c, "source") \in {0, 1} /\ Ref(c, "sink") \in {0, 1}
        BY DEF Ref
      <3>3. refs > 0
        BY <2>1, <3>1, <3>2 DEF LinkInv
      <3> QED
        BY <2>1, <3>3 DEF LinkInv
    <2>3. Rabbit(c)!ClosedAtStop
      <3> SUFFICES ASSUME \A q \in {"source", "sink"} : ~opened[q],
                          \A u \in Rabbit(c)!Users : pc[u] = "idle"
                   PROVE  ~conn
        BY DEF Rabbit!ClosedAtStop, Rabbit!Queues
      <3>1. ~HasRef(c, "source") /\ ~HasRef(c, "sink")
        BY DEF HasRef
      <3>2. refs = 0
        BY <2>1, <3>1 DEF Ref, LinkInv
      <3>3. ~(refs > 0)
        BY <3>2
      <3> QED
        BY <2>1, <3>3 DEF LinkInv
    <2> QED
      BY <2>2, <2>3
  <1> QED
    BY <1>2, <1>3

\* Every message is at one place over lost channels, cancelled fetches and drops of the
\* network; and where each queue has one user, an open queue is on an open connection
\* and a stop leaves none behind, for every prefetch, set of messages and bound.
THEOREM RabbitSafe ==
  ASSUME NEW c, RabbitConfig(c)
  PROVE  Rabbit(c)!Spec => [](/\ Rabbit(c)!TypeOK
                              /\ OneUser(c) => Rabbit(c)!LinkedWhileOpen /\ Rabbit(c)!ClosedAtStop)
  <1>1. Rabbit(c)!Init => RabbitInv(c)
    BY RabbitInit
  <1>2. RabbitInv(c) /\ [Rabbit(c)!Next]_(Rabbit(c)!vars) => RabbitInv(c)'
    BY RabbitStep
  <1>3. RabbitInv(c) => /\ Rabbit(c)!TypeOK
                        /\ OneUser(c) => Rabbit(c)!LinkedWhileOpen /\ Rabbit(c)!ClosedAtStop
    BY RabbitInvImplies
  <1> QED
    BY <1>1, <1>2, <1>3, PTL DEF Rabbit!Spec

--------------------------------------------------------------------------------
(* The family: every configuration that is checked *)

FamilyInv ==
  /\ part = "kafka" => KafkaInv(Topic)
  /\ part = "rabbit" => RabbitInv(OneSender)
  /\ part = "senders" => RabbitInv(TwoSenders)
  /\ part = "redis" => RedisInv(Trimmed)
  /\ part = "sqs" => SqsInv(Standard)
  /\ part = "fifo" => SqsInv(InGroups)
  /\ part = "deletes" => SqsInv(Deletes)
  /\ part = "leased" => SqsInv(Leased)
  /\ part = "cloudflare" => CfInv(Expiring)
  /\ part = "acking" => CfInv(Acking)
  /\ part = "kept" => CfInv(Kept)

\* The checked configurations are ones the theorems are about.
LEMMA Configured ==
  /\ KafkaConfig(Topic) /\ RedisConfig(Trimmed)
  /\ RabbitConfig(OneSender) /\ OneUser(OneSender) /\ RabbitConfig(TwoSenders)
  /\ SqsConfig(Standard) /\ SqsConfig(InGroups) /\ SqsConfig(Deletes) /\ SqsConfig(Leased)
  /\ CfConfig(Expiring) /\ CfConfig(Acking) /\ CfConfig(Kept)
  <1>1. IsFiniteSet({"m1"}) /\ IsFiniteSet({"m1", "m2"})
    <2>1. IsFiniteSet({}) /\ IsFiniteSet({} \cup {"m1"}) /\ IsFiniteSet(({} \cup {"m1"}) \cup {"m2"})
      BY FS_EmptySet, FS_AddElement
    <2>2. {} \cup {"m1"} = {"m1"} /\ ({} \cup {"m1"}) \cup {"m2"} = {"m1", "m2"}
      OBVIOUS
    <2> QED
      BY <2>1, <2>2
  <1>2. KafkaConfig(Topic) /\ RedisConfig(Trimmed)
    BY DEF KafkaConfig, RedisConfig, Topic, Trimmed
  <1>3. RabbitConfig(OneSender) /\ OneUser(OneSender) /\ RabbitConfig(TwoSenders)
    BY <1>1 DEF RabbitConfig, OneUser, OneSender, TwoSenders
  <1>4. SqsConfig(Standard) /\ SqsConfig(InGroups) /\ SqsConfig(Deletes) /\ SqsConfig(Leased)
    BY DEF SqsConfig, Standard, InGroups, Deletes, Leased
  <1>5. CfConfig(Expiring) /\ CfConfig(Acking) /\ CfConfig(Kept)
    BY DEF CfConfig, Expiring, Acking, Kept
  <1> QED
    BY <1>2, <1>3, <1>4, <1>5

\* Every part starts with its invariant.
LEMMA FamilyInit ==
  Init => FamilyInv
  <1> SUFFICES ASSUME Init
               PROVE  FamilyInv
    OBVIOUS
  <1>1. ASSUME part = "kafka"
        PROVE  KafkaInv(Topic)
    <2>1. Kafka(Topic)!Init
      BY <1>1 DEF Init
    <2> QED
      BY <2>1, Configured, KafkaInit
  <1>2. ASSUME part = "rabbit"
        PROVE  RabbitInv(OneSender)
    <2>1. Rabbit(OneSender)!Init
      BY <1>2 DEF Init
    <2> QED
      BY <2>1, Configured, RabbitInit
  <1>3. ASSUME part = "senders"
        PROVE  RabbitInv(TwoSenders)
    <2>1. Rabbit(TwoSenders)!Init
      BY <1>3 DEF Init
    <2> QED
      BY <2>1, Configured, RabbitInit
  <1>4. ASSUME part = "redis"
        PROVE  RedisInv(Trimmed)
    <2>1. Redis(Trimmed)!Init
      BY <1>4 DEF Init
    <2> QED
      BY <2>1, Configured, RedisInit
  <1>5. ASSUME part = "sqs"
        PROVE  SqsInv(Standard)
    <2>1. Sqs(Standard)!Init
      BY <1>5 DEF Init
    <2> QED
      BY <2>1, Configured, SqsInit
  <1>6. ASSUME part = "fifo"
        PROVE  SqsInv(InGroups)
    <2>1. Sqs(InGroups)!Init
      BY <1>6 DEF Init
    <2> QED
      BY <2>1, Configured, SqsInit
  <1>7. ASSUME part = "deletes"
        PROVE  SqsInv(Deletes)
    <2>1. Sqs(Deletes)!Init
      BY <1>7 DEF Init
    <2> QED
      BY <2>1, Configured, SqsInit
  <1>8. ASSUME part = "leased"
        PROVE  SqsInv(Leased)
    <2>1. Sqs(Leased)!Init
      BY <1>8 DEF Init
    <2> QED
      BY <2>1, Configured, SqsInit
  <1>9. ASSUME part = "cloudflare"
        PROVE  CfInv(Expiring)
    <2>1. Cloudflare(Expiring)!Init
      BY <1>9 DEF Init
    <2> QED
      BY <2>1, Configured, CfInit
  <1>10. ASSUME part = "acking"
        PROVE  CfInv(Acking)
    <2>1. Cloudflare(Acking)!Init
      BY <1>10 DEF Init
    <2> QED
      BY <2>1, Configured, CfInit
  <1>11. ASSUME part = "kept"
        PROVE  CfInv(Kept)
    <2>1. Cloudflare(Kept)!Init
      BY <1>11 DEF Init
    <2> QED
      BY <2>1, Configured, CfInit
  <1> QED
    BY <1>1, <1>2, <1>3, <1>4, <1>5, <1>6, <1>7, <1>8, <1>9, <1>10, <1>11 DEF FamilyInv

\* Every part keeps its invariant.
LEMMA FamilyStep ==
  FamilyInv /\ [Next]_vars => FamilyInv'
  <1> SUFFICES ASSUME FamilyInv, [Next]_vars
               PROVE  FamilyInv'
    OBVIOUS
  <1>0. part' = part
    BY DEF Next, vars, NotKafkaTopic, NotRabbitQueue, NotRedisStream, NotSqsQueue, NotCfQueue
  <1>1. ASSUME part = "kafka"
        PROVE  KafkaInv(Topic)'
    <2>1. [Kafka(Topic)!Next]_(Kafka(Topic)!vars)
      BY <1>1 DEF Next, vars, Kafka!vars, Kafka!tracker, Kafka!bounds
    <2> QED
      BY <1>1, <2>1, Configured, KafkaStep DEF FamilyInv
  <1>2. ASSUME part = "rabbit"
        PROVE  RabbitInv(OneSender)'
    <2>1. [Rabbit(OneSender)!Next]_(Rabbit(OneSender)!vars)
      BY <1>2 DEF Next, vars, Rabbit!vars, Rabbit!link, Rabbit!mail, Rabbit!bounds
    <2> QED
      BY <1>2, <2>1, Configured, RabbitStep DEF FamilyInv
  <1>3. ASSUME part = "senders"
        PROVE  RabbitInv(TwoSenders)'
    <2>1. [Rabbit(TwoSenders)!Next]_(Rabbit(TwoSenders)!vars)
      BY <1>3 DEF Next, vars, Rabbit!vars, Rabbit!link, Rabbit!mail, Rabbit!bounds
    <2> QED
      BY <1>3, <2>1, Configured, RabbitStep DEF FamilyInv
  <1>4. ASSUME part = "redis"
        PROVE  RedisInv(Trimmed)'
    <2>1. [Redis(Trimmed)!Next]_(Redis(Trimmed)!vars)
      BY <1>4 DEF Next, vars, Redis!vars, Redis!bounds
    <2> QED
      BY <1>4, <2>1, Configured, RedisStep DEF FamilyInv
  <1>5. ASSUME part = "sqs"
        PROVE  SqsInv(Standard)'
    <2>1. [Sqs(Standard)!Next]_(Sqs(Standard)!vars)
      BY <1>5 DEF Next, vars, Sqs!vars, Sqs!bounds
    <2> QED
      BY <1>5, <2>1, Configured, SqsStep DEF FamilyInv
  <1>6. ASSUME part = "fifo"
        PROVE  SqsInv(InGroups)'
    <2>1. [Sqs(InGroups)!Next]_(Sqs(InGroups)!vars)
      BY <1>6 DEF Next, vars, Sqs!vars, Sqs!bounds
    <2> QED
      BY <1>6, <2>1, Configured, SqsStep DEF FamilyInv
  <1>7. ASSUME part = "deletes"
        PROVE  SqsInv(Deletes)'
    <2>1. [Sqs(Deletes)!Next]_(Sqs(Deletes)!vars)
      BY <1>7 DEF Next, vars, Sqs!vars, Sqs!bounds
    <2> QED
      BY <1>7, <2>1, Configured, SqsStep DEF FamilyInv
  <1>8. ASSUME part = "leased"
        PROVE  SqsInv(Leased)'
    <2>1. [Sqs(Leased)!Next]_(Sqs(Leased)!vars)
      BY <1>8 DEF Next, vars, Sqs!vars, Sqs!bounds
    <2> QED
      BY <1>8, <2>1, Configured, SqsStep DEF FamilyInv
  <1>9. ASSUME part = "cloudflare"
        PROVE  CfInv(Expiring)'
    <2>1. [Cloudflare(Expiring)!Next]_(Cloudflare(Expiring)!vars)
      BY <1>9 DEF Next, vars, Cloudflare!vars, Cloudflare!bounds
    <2> QED
      BY <1>9, <2>1, Configured, CfStep DEF FamilyInv
  <1>10. ASSUME part = "acking"
        PROVE  CfInv(Acking)'
    <2>1. [Cloudflare(Acking)!Next]_(Cloudflare(Acking)!vars)
      BY <1>10 DEF Next, vars, Cloudflare!vars, Cloudflare!bounds
    <2> QED
      BY <1>10, <2>1, Configured, CfStep DEF FamilyInv
  <1>11. ASSUME part = "kept"
        PROVE  CfInv(Kept)'
    <2>1. [Cloudflare(Kept)!Next]_(Cloudflare(Kept)!vars)
      BY <1>11 DEF Next, vars, Cloudflare!vars, Cloudflare!bounds
    <2> QED
      BY <1>11, <2>1, Configured, CfStep DEF FamilyInv
  <1> QED
    BY <1>0, <1>1, <1>2, <1>3, <1>4, <1>5, <1>6, <1>7, <1>8, <1>9, <1>10, <1>11 DEF FamilyInv

\* No committed offset, delete or acknowledgement passes a message of the five brokers
\* that was not handled, in every run of every checked configuration.
THEOREM HandledBeforeGoneHolds ==
  Spec => []HandledBeforeGone
  <1>1. FamilyInv => HandledBeforeGone
    <2>1. KafkaInv(Topic) => Kafka(Topic)!TypeOK /\ Kafka(Topic)!NothingSkipped
      BY DEF KafkaInv, Passed, Kafka!NothingSkipped
    <2> QED
      BY <2>1, SqsInvImplies, CfInvImplies DEF FamilyInv, HandledBeforeGone, RedisInv
  <1> QED
    BY <1>1, FamilyInit, FamilyStep, PTL DEF Spec

\* Every message is at one place and with one handler, and connections outlive the
\* queues that use them, in every run of every checked configuration.
THEOREM MessagesHeldHolds ==
  Spec => []MessagesHeld
  <1>1. FamilyInv => MessagesHeld
    <2>1. Leased.Heartbeat /\ Leased.MaxFaults = 0 /\ Kept.MaxStops = 0
      BY DEF Leased, Kept
    <2> QED
      BY <2>1, Configured, RabbitInvImplies, SqsInvImplies, CfInvImplies
         DEF FamilyInv, MessagesHeld, RedisInv
  <1> QED
    BY <1>1, FamilyInit, FamilyStep, PTL DEF Spec
================================================================================
