-------------------------- MODULE EventStreamProofs --------------------------
(***************************************************************************)
(* Each entry is handed out once, because XREADGROUP only hands out ids    *)
(* past the cursor, and what a consumer has done with the entry in hand is *)
(* told by where it is in consume(): nothing before the handler, nothing   *)
(* but the handler before the DLQ, and the DLQ once.  An acknowledgement   *)
(* is sent only where one of the two was done, or the entry is unreadable. *)
(***************************************************************************)
EXTENDS EventStream, FiniteSetTheorems, TLAPS

\* The stream is typed, and an event in it has no write to Redis to come.
StreamInv ==
    /\ writes \in [Events -> {{"publish"}} \cup SUBSET {"clickhouse", "redis"}]
    /\ mirror \subseteq Events
    /\ tail \in 0..Cardinality(Events) /\ entry \in [1..tail -> Events] /\ low \in 0..tail
    /\ \A i \in 1..tail : writes[entry[i]] \cap {"publish", "redis"} = {}
    /\ \A i, j \in 1..tail : entry[i] = entry[j] => i = j

\* The group's part of TypeOK; what was dealt with or acknowledged was delivered.
GroupTyped ==
    /\ cursor \in 0..tail /\ pending \subseteq 1..tail /\ acked \subseteq 1..tail
    /\ pc \in [Consumers -> Labels] /\ held \in [Consumers -> SUBSET (1..cursor)]
    /\ done \in [Ids -> Nat] /\ dead \in [Ids -> Nat] /\ faults \in Nat
    /\ \A i \in Ids : i > cursor => done[i] = 0 /\ dead[i] = 0

\* What was done so far with an entry of a consumer's batch.
InHand(c, i) ==
    /\ pc[c] = "next" \/ ~Current(c, i) => done[i] = 0 /\ dead[i] = 0
    /\ Current(c, i) =>
        /\ pc[c] = "ack"    => done[i] = 1 /\ dead[i] = 0
        /\ pc[c] = "bury"   => dead[i] = 0
        /\ pc[c] = "buried" => dead[i] = 1

BatchesInv ==
    \A c \in Consumers :
        /\ pc[c] \in {"off", "read"} => held[c] = {}
        /\ \A i \in held[c] : InHand(c, i)

ConsumerInv ==
    GroupTyped /\ BatchesInv /\ NoSharedEntry /\ AckedIsSettled /\ HandledAtMostOnce

Inv == StreamInv /\ ConsumerInv

-----------------------------------------------------------------------------

LEMMA BoundsTyped ==
    /\ Cardinality(Events) \in Nat /\ MaxLen \in Nat \ {0}
    /\ BatchSize \in Nat \ {0} /\ MaxFaults \in Nat
<1>1. IsFiniteSet(Events) /\ {BatchSize, MaxLen} \subseteq Nat \ {0} /\ MaxFaults \in Nat
  BY StreamAssumption
<1>2. Cardinality(Events) \in Nat
  BY <1>1, FS_CardinalityType
<1> QED  BY <1>1, <1>2

LEMMA TailKept == ASSUME UNCHANGED entry PROVE tail' = tail
  BY DEF tail

LEMMA InvInit == Init => Inv
<1> SUFFICES ASSUME Init PROVE Inv
  OBVIOUS
<1>1. tail = 0
  <2>1. DOMAIN entry = {}
    BY DEF Init
  <2> QED  BY <2>1, FS_EmptySet DEF tail
<1>2. 1..tail = {} /\ Cardinality(Events) \in Nat
  BY <1>1, BoundsTyped
<1>3. StreamInv
  BY <1>1, <1>2 DEF Init, StreamInv
<1>4. GroupTyped
  BY <1>1, <1>2 DEF Init, GroupTyped, Labels
<1>5. BatchesInv /\ NoSharedEntry /\ AckedIsSettled /\ HandledAtMostOnce
  BY DEF Init, BatchesInv, NoSharedEntry, AckedIsSettled, HandledAtMostOnce
<1> QED  BY <1>3, <1>4, <1>5 DEF Inv, ConsumerInv

-----------------------------------------------------------------------------
(* The publisher.                                                          *)

\* What is written of an event is never taken back, and a write once tried is
\* not tried again: an event is on the stream under one id at most.
LEMMA AppendKeepsStream ==
    ASSUME StreamInv, NEW e \in Events, Attempted(e, "redis"), Append(e), UNCHANGED mirror
    PROVE  /\ StreamInv' /\ tail' = tail + 1
           /\ \A i \in 1..tail : entry'[i] = entry[i]
<1>1. tail \in Nat /\ entry \in [1..tail -> Events] /\ low \in 0..tail /\ writes[e] \in SUBSET {"clickhouse", "redis"}
  BY BoundsTyped DEF StreamInv, Attempted
<1>2. entry' \in [1..tail + 1 -> Events] /\ entry'[tail + 1] = e /\ \A i \in 1..tail : entry'[i] = entry[i]
  BY <1>1 DEF Append
<1>3. tail' = tail + 1
  <2>1. DOMAIN entry' = 1..tail + 1
    BY <1>2
  <2>2. Cardinality(1..tail + 1) = tail + 1
    BY <1>1, FS_Interval
  <2> QED  BY <2>1, <2>2 DEF tail
<1>4. \A i \in 1..tail : entry[i] # e
  BY <1>1 DEF StreamInv, Attempted
<1>5. \A i, j \in 1..tail + 1 : entry'[i] = entry'[j] => i = j
  <2> SUFFICES ASSUME NEW i \in 1..tail + 1, NEW j \in 1..tail + 1, entry'[i] = entry'[j]
               PROVE  i = j
    OBVIOUS
  <2>1. CASE i \in 1..tail /\ j \in 1..tail
    BY <2>1, <1>2 DEF StreamInv
  <2>2. CASE i = tail + 1 /\ j = tail + 1
    BY <2>2
  <2>3. CASE (i = tail + 1 /\ j \in 1..tail) \/ (j = tail + 1 /\ i \in 1..tail)
    BY <2>3, <1>2, <1>4
  <2> QED  BY <1>1, <2>1, <2>2, <2>3
<1>6. tail + 1 <= Cardinality(Events)
  <2> SUFFICES ASSUME Cardinality(Events) < tail + 1 PROVE FALSE
    BY <1>1, BoundsTyped
  <2> DEFINE new == 1..tail + 1
  <2>1. IsFiniteSet(new) /\ Cardinality(Events) < Cardinality(new) /\ IsFiniteSet(Events)
    BY <1>1, FS_Interval, StreamAssumption
  <2>2. entry' \in [new -> Events] /\ \A i, j \in new : entry'[i] = entry'[j] => i = j
    BY <1>2, <1>5
  <2> HIDE DEF new
  <2>3. \E i, j \in new : i # j /\ entry'[i] = entry'[j]
    BY <2>1, <2>2, FS_PigeonHole, Zenon
  <2> QED  BY <2>2, <2>3
<1>7. low' \in 0..tail + 1
  BY <1>1, BoundsTyped DEF Append
<1>8. writes' \in [Events -> {{"publish"}} \cup SUBSET {"clickhouse", "redis"}]
  BY <1>1 DEF StreamInv, Attempted
<1>9. \A i \in 1..tail + 1 : writes'[entry'[i]] \cap {"publish", "redis"} = {}
  <2> SUFFICES ASSUME NEW i \in 1..tail + 1 PROVE writes'[entry'[i]] \cap {"publish", "redis"} = {}
    OBVIOUS
  <2>1. writes' = [writes EXCEPT ![e] = writes[e] \ {"redis"}]
    BY DEF Attempted
  <2>2. CASE i \in 1..tail
    <3>1. entry'[i] = entry[i] /\ entry[i] # e /\ entry[i] \in Events
      BY <2>2, <1>1, <1>2, <1>4
    <3>2. writes'[entry[i]] = writes[entry[i]]
      BY <2>1, <3>1 DEF StreamInv
    <3> QED  BY <2>2, <3>1, <3>2 DEF StreamInv
  <2>3. CASE i = tail + 1
    <3>1. writes'[e] = writes[e] \ {"redis"}
      BY <2>1 DEF StreamInv
    <3> QED  BY <2>3, <3>1, <1>1, <1>2
  <2> QED  BY <1>1, <2>2, <2>3
<1>10. StreamInv'
  BY <1>1, <1>2, <1>3, <1>5, <1>6, <1>7, <1>8, <1>9, BoundsTyped DEF StreamInv
<1> QED  BY <1>2, <1>3, <1>10

\* Writes that leave the stream as it was.
LEMMA OtherWriteKeepsStream ==
    ASSUME StreamInv, UNCHANGED <<entry, low>>, mirror' \subseteq Events, NEW e \in Events,
           NEW ws \in SUBSET {"clickhouse", "redis"}, writes' = [writes EXCEPT ![e] = ws],
           ws \subseteq writes[e] \/ "publish" \in writes[e]
    PROVE  StreamInv' /\ tail' = tail
<1>1. tail' = tail
  BY TailKept
<1>2. writes' \in [Events -> {{"publish"}} \cup SUBSET {"clickhouse", "redis"}]
  BY DEF StreamInv
<1>3. \A i \in 1..tail : writes'[entry[i]] \cap {"publish", "redis"} = {}
  <2> SUFFICES ASSUME NEW i \in 1..tail PROVE writes'[entry[i]] \cap {"publish", "redis"} = {}
    OBVIOUS
  <2>1. writes[entry[i]] \cap {"publish", "redis"} = {} /\ entry[i] \in Events
    BY DEF StreamInv
  <2>2. CASE entry[i] = e
    BY <2>1, <2>2 DEF StreamInv
  <2>3. CASE entry[i] # e
    BY <2>1, <2>3 DEF StreamInv
  <2> QED  BY <2>2, <2>3
<1> QED  BY <1>1, <1>2, <1>3 DEF StreamInv

\* The group does not notice a stream that grows.
LEMMA GroupIgnoresPublisher ==
    ASSUME Inv, UNCHANGED <<cursor, pending, acked, pc, held, done, dead>>, faults' \in Nat,
           tail' \in Nat, tail <= tail', \A i \in 1..tail : entry'[i] = entry[i]
    PROVE  ConsumerInv'
<1>1. tail \in Nat /\ 1..tail \subseteq 1..tail'
  BY BoundsTyped DEF Inv, StreamInv
<1>2. GroupTyped'
  <2>1. cursor' \in 0..tail' /\ pending' \subseteq 1..tail' /\ acked' \subseteq 1..tail'
    BY <1>1 DEF Inv, ConsumerInv, GroupTyped
  <2> QED  BY <2>1 DEF Inv, ConsumerInv, GroupTyped
<1>3. BatchesInv' /\ NoSharedEntry' /\ HandledAtMostOnce'
  BY DEF Inv, ConsumerInv, BatchesInv, InHand, Current, NoSharedEntry, HandledAtMostOnce
<1>4. AckedIsSettled'
  <2>1. \A i \in acked : i \in 1..tail
    BY DEF Inv, ConsumerInv, GroupTyped
  <2> QED  BY <2>1 DEF Inv, ConsumerInv, AckedIsSettled
<1> QED  BY <1>2, <1>3, <1>4 DEF ConsumerInv

LEMMA PublisherStepInv ==
    ASSUME Inv, NEW e \in Events, PublisherStep(e)
    PROVE  Inv'
<1>1. StreamInv /\ tail \in Nat /\ writes[e] \in {{"publish"}} \cup SUBSET {"clickhouse", "redis"} /\ faults \in Nat
  BY BoundsTyped DEF Inv, StreamInv, ConsumerInv, GroupTyped
<1>2. Fault => faults' \in Nat
  BY <1>1 DEF Fault
<1>3. CASE Publish(e)
  <2>1. StreamInv' /\ tail' = tail
    BY <1>1, <1>3, OtherWriteKeepsStream DEF Publish, redis, StreamInv
  <2> QED  BY <1>1, <1>3, <2>1, GroupIgnoresPublisher DEF Publish, redis, Inv
<1>4. CASE WriteClickhouse(e)
  <2>1. /\ mirror' \subseteq Events /\ faults' \in Nat
        /\ UNCHANGED <<entry, low, cursor, pending, acked, pc, held, done, dead>>
    BY <1>1, <1>2, <1>4 DEF WriteClickhouse, StreamInv, redis
  <2>2. writes' = [writes EXCEPT ![e] = writes[e] \ {"clickhouse"}] /\ writes[e] \in SUBSET {"clickhouse", "redis"}
    BY <1>1, <1>4 DEF WriteClickhouse, Attempted
  <2>3. StreamInv' /\ tail' = tail
    BY <1>1, <2>1, <2>2, OtherWriteKeepsStream
  <2> QED  BY <1>1, <2>1, <2>3, GroupIgnoresPublisher DEF Inv
<1>5. CASE WriteRedis(e)
  <2>1. /\ faults' \in Nat /\ Attempted(e, "redis")
        /\ UNCHANGED <<mirror, cursor, pending, acked, pc, held, done, dead>>
        /\ Append(e) \/ UNCHANGED <<entry, low>>
    BY <1>1, <1>2, <1>5 DEF WriteRedis
  <2>2. CASE Append(e)
    BY <1>1, <2>1, <2>2, AppendKeepsStream, GroupIgnoresPublisher DEF Inv
  <2>3. CASE UNCHANGED <<entry, low>>
    <3>1. writes' = [writes EXCEPT ![e] = writes[e] \ {"redis"}] /\ writes[e] \in SUBSET {"clickhouse", "redis"}
      BY <1>1, <2>1 DEF Attempted
    <3>2. StreamInv' /\ tail' = tail
      BY <1>1, <2>1, <2>3, <3>1, OtherWriteKeepsStream DEF StreamInv
    <3> QED  BY <1>1, <2>1, <2>3, <3>2, GroupIgnoresPublisher DEF Inv
  <2> QED  BY <2>1, <2>2, <2>3
<1> QED  BY <1>3, <1>4, <1>5 DEF PublisherStep

-----------------------------------------------------------------------------
(* The consumer group.                                                     *)

\* What a step of a consumer has to keep: the stream is not written, nobody
\* else's batch changes, and what is counted of its own entries fits where it
\* goes.  The entry in hand is the only one that is counted or acknowledged.
LEMMA OwnEntryKeepsInv ==
    ASSUME Inv, UNCHANGED <<writes, mirror, entry, low, cursor>>,
           NEW c \in Consumers, NEW i \in held[c], Current(c, i),
           pc' = [pc EXCEPT ![c] = pc'[c]], pc'[c] \in Labels,
           held' = [held EXCEPT ![c] = held'[c]],
           done' = [done EXCEPT ![i] = done'[i]], done'[i] \in 0..1, done[i] <= done'[i],
           dead' = [dead EXCEPT ![i] = dead'[i]], dead'[i] \in 0..1, dead[i] <= dead'[i],
           pending' \subseteq pending, faults' \in Nat, acked' \subseteq acked \cup {i},
           i \in acked' => done'[i] > 0 \/ dead'[i] > 0 \/ entry[i] \in Malformed,
           \/ held'[c] = {} /\ pc'[c] = "off"
           \/ held'[c] = held[c] \ {i} /\ pc'[c] = "next"
           \/ held'[c] = held[c] /\ pc'[c] = "ack" /\ done'[i] = 1 /\ dead'[i] = 0
           \/ held'[c] = held[c] /\ pc'[c] = "bury" /\ dead'[i] = 0
           \/ held'[c] = held[c] /\ pc'[c] = "buried" /\ dead'[i] = 1
    PROVE  Inv'
<1>1. tail' = tail /\ tail \in Nat /\ StreamInv /\ GroupTyped
  BY TailKept, BoundsTyped DEF Inv, ConsumerInv, StreamInv
<1>2. StreamInv'
  BY <1>1 DEF StreamInv
<1>3. cursor \in Nat /\ held[c] \subseteq 1..cursor /\ 1..cursor \subseteq Ids /\ i \in Ids /\ i <= cursor
  <2>1. cursor \in 0..tail /\ held[c] \in SUBSET (1..cursor) /\ tail <= Cardinality(Events)
    BY <1>1 DEF GroupTyped, StreamInv
  <2>2. 1..cursor \subseteq 1..Cardinality(Events)
    BY <1>1, <2>1, BoundsTyped
  <2> QED  BY <1>1, <2>1, <2>2 DEF Ids
<1>4. /\ done \in [Ids -> Nat] /\ dead \in [Ids -> Nat]
      /\ pc \in [Consumers -> Labels] /\ held \in [Consumers -> SUBSET (1..cursor)]
  BY <1>1 DEF GroupTyped
<1>5. /\ done' \in [Ids -> Nat] /\ dead' \in [Ids -> Nat]
      /\ pc' \in [Consumers -> Labels] /\ held' \in [Consumers -> SUBSET (1..cursor)]
  BY <1>3, <1>4
<1>6. GroupTyped'
  <2>1. \A j \in Ids : j > cursor => done'[j] = 0 /\ dead'[j] = 0
    BY <1>1, <1>3, <1>4 DEF GroupTyped, Ids
  <2>2. pending' \subseteq 1..tail /\ acked' \subseteq 1..tail
    BY <1>1, <1>3 DEF GroupTyped
  <2> QED  BY <1>1, <1>5, <2>1, <2>2 DEF GroupTyped
<1>7. \A k \in Consumers \ {c} : held[k] \cap held[c] = {}
  BY DEF Inv, ConsumerInv, NoSharedEntry
<1>8. NoSharedEntry'
  BY <1>4, <1>7 DEF Inv, ConsumerInv, NoSharedEntry
<1>9. HandledAtMostOnce'
  BY <1>3, <1>4 DEF Inv, ConsumerInv, HandledAtMostOnce
<1>10. AckedIsSettled'
  <2> SUFFICES ASSUME NEW j \in acked' PROVE done'[j] > 0 \/ dead'[j] > 0 \/ entry[j] \in Malformed
    BY DEF AckedIsSettled
  <2>1. CASE j = i
    BY <2>1, <1>3, <1>4
  <2>2. CASE j # i
    <3>1. j \in acked /\ j \in Ids
      BY <2>2, <1>1, BoundsTyped DEF GroupTyped, StreamInv, Ids
    <3>2. done'[j] = done[j] /\ dead'[j] = dead[j]
      BY <2>2, <3>1, <1>4
    <3> QED  BY <3>1, <3>2 DEF Inv, ConsumerInv, AckedIsSettled
  <2> QED  BY <2>1, <2>2
<1>11. BatchesInv'
  <2> SUFFICES ASSUME NEW k \in Consumers
               PROVE  /\ pc'[k] \in {"off", "read"} => held'[k] = {}
                      /\ \A j \in held'[k] : InHand(k, j)'
    BY DEF BatchesInv
  <2>1. CASE k # c
    <3>1. pc'[k] = pc[k] /\ held'[k] = held[k]
      BY <2>1, <1>4
    <3>2. \A j \in held[k] : j # i /\ done'[j] = done[j] /\ dead'[j] = dead[j]
      <4>1. held[k] \subseteq 1..cursor
        BY <1>4
      <4>2. \A j \in held[k] : j # i /\ j \in Ids
        BY <2>1, <4>1, <1>3, <1>7
      <4> QED  BY <4>2, <1>4
    <3> QED  BY <3>1, <3>2 DEF Inv, ConsumerInv, BatchesInv, InHand, Current
  <2>2. CASE k = c
    <3>2. \A j \in held[c] : j # i => ~Current(c, j)
      <4>1. held[c] \subseteq Nat
        BY <1>3
      <4> QED  BY <4>1 DEF Current
    <3>3. \A j \in held[c] : j # i => done'[j] = 0 /\ dead'[j] = 0
      <4>1. \A j \in held[c] : j # i => done'[j] = done[j] /\ dead'[j] = dead[j]
        BY <1>3, <1>4
      <4> QED  BY <3>2, <4>1 DEF Inv, ConsumerInv, BatchesInv, InHand
    <3>5. CASE held'[c] = {} /\ pc'[c] = "off"
      BY <2>2, <3>5
    <3>6. CASE held'[c] = held[c] \ {i} /\ pc'[c] = "next"
      BY <2>2, <3>3, <3>6 DEF InHand
    <3>7. CASE /\ held'[c] = held[c]
               /\ \/ pc'[c] = "ack" /\ done'[i] = 1 /\ dead'[i] = 0
                  \/ pc'[c] = "bury" /\ dead'[i] = 0
                  \/ pc'[c] = "buried" /\ dead'[i] = 1
      <4>1. \A j \in held[c] : j # i => ~Current(c, j)'
        BY <3>2, <3>7 DEF Current
      <4>2. \A j \in held[c] : j # i => InHand(c, j)'
        BY <3>3, <4>1 DEF InHand
      <4>3. InHand(c, i)'
        <5>1. Current(c, i)' /\ pc'[c] \in {"ack", "bury", "buried"}
          BY <3>7 DEF Current
        <5> QED  BY <3>7, <5>1 DEF InHand
      <4> QED  BY <2>2, <3>7, <4>2, <4>3
    <3> QED  BY <3>5, <3>6, <3>7
  <2> QED  BY <2>1, <2>2
<1> QED  BY <1>2, <1>6, <1>8, <1>9, <1>10, <1>11 DEF Inv, ConsumerInv

\* A consumer that leaves consume(), starts, or ends a batch has nothing in hand.
LEMMA EmptyHandedKeepsInv ==
    ASSUME Inv, UNCHANGED <<writes, mirror, redis, done, dead>>, faults' \in Nat,
           NEW c \in Consumers, NEW l \in Labels, Go(c, l), held' = [held EXCEPT ![c] = {}]
    PROVE  Inv'
<1>1. tail' = tail /\ tail \in Nat /\ GroupTyped
  BY TailKept, BoundsTyped DEF Inv, ConsumerInv, StreamInv, redis
<1>2. StreamInv' /\ AckedIsSettled' /\ HandledAtMostOnce'
  BY <1>1 DEF Inv, ConsumerInv, StreamInv, AckedIsSettled, HandledAtMostOnce, redis
<1>3. /\ pc \in [Consumers -> Labels] /\ pc' \in [Consumers -> Labels]
      /\ held \in [Consumers -> SUBSET (1..cursor)] /\ held' \in [Consumers -> SUBSET (1..cursor)]
  BY <1>1 DEF GroupTyped, Go
<1>4. GroupTyped'
  BY <1>1, <1>3 DEF GroupTyped, redis
<1>5. NoSharedEntry'
  BY <1>3 DEF Inv, ConsumerInv, NoSharedEntry
<1>6. BatchesInv'
  <2> SUFFICES ASSUME NEW k \in Consumers
               PROVE  /\ pc'[k] \in {"off", "read"} => held'[k] = {}
                      /\ \A j \in held'[k] : InHand(k, j)'
    BY DEF BatchesInv
  <2>1. CASE k = c
    BY <2>1, <1>3
  <2>2. CASE k # c
    <3>1. pc'[k] = pc[k] /\ held'[k] = held[k]
      BY <2>2, <1>3 DEF Go
    <3> QED  BY <3>1 DEF Inv, ConsumerInv, BatchesInv, InHand, Current
  <2> QED  BY <2>1, <2>2
<1> QED  BY <1>2, <1>4, <1>5, <1>6 DEF Inv, ConsumerInv

\* A new batch starts past the cursor: it shares no entry with any other, and
\* nothing was done with an entry of it.
LEMMA NewBatchKeepsInv ==
    ASSUME Inv, UNCHANGED <<writes, mirror, entry, low, acked, done, dead, faults>>,
           NEW c \in Consumers, Go(c, "next"),
           cursor' \in Unread..tail, held' = [held EXCEPT ![c] = Unread..cursor'],
           pending' = pending \cup Unread..cursor'
    PROVE  Inv'
<1>1. tail' = tail /\ tail \in Nat /\ GroupTyped /\ low \in Nat
  BY TailKept, BoundsTyped DEF Inv, ConsumerInv, StreamInv
<1>2. cursor \in Nat /\ Unread \in Nat /\ cursor < Unread /\ cursor' \in Nat /\ cursor' <= tail
  BY <1>1 DEF GroupTyped, Unread
<1>3. StreamInv' /\ AckedIsSettled' /\ HandledAtMostOnce'
  BY <1>1 DEF Inv, ConsumerInv, StreamInv, AckedIsSettled, HandledAtMostOnce
<1>4. /\ pc \in [Consumers -> Labels] /\ pc' \in [Consumers -> Labels]
      /\ held \in [Consumers -> SUBSET (1..cursor)] /\ held' \in [Consumers -> SUBSET (1..cursor')]
  <2>1. Unread..cursor' \subseteq 1..cursor' /\ 1..cursor \subseteq 1..cursor'
    BY <1>2
  <2> QED  BY <1>1, <2>1 DEF GroupTyped, Go, Labels
<1>5. GroupTyped'
  <2>1. pending' \subseteq 1..tail /\ cursor' \in 0..tail
    BY <1>1, <1>2 DEF GroupTyped
  <2>2. \A i \in Ids : i > cursor' => i > cursor
    BY <1>2 DEF Ids
  <2> QED  BY <1>1, <1>4, <2>1, <2>2 DEF GroupTyped
<1>6. \A k \in Consumers : held[k] \cap Unread..cursor' = {}
  BY <1>2, <1>4
<1>7. NoSharedEntry'
  BY <1>4, <1>6 DEF Inv, ConsumerInv, NoSharedEntry
<1>8. BatchesInv'
  <2> SUFFICES ASSUME NEW k \in Consumers
               PROVE  /\ pc'[k] \in {"off", "read"} => held'[k] = {}
                      /\ \A j \in held'[k] : InHand(k, j)'
    BY DEF BatchesInv
  <2>1. CASE k = c
    <3>1. pc'[k] = "next" /\ held'[k] = Unread..cursor'
      BY <2>1, <1>4 DEF Go
    <3>2. \A j \in held'[k] : j \in Ids /\ j > cursor
      <4>1. tail <= Cardinality(Events)
        BY DEF Inv, StreamInv
      <4> QED  BY <3>1, <4>1, <1>1, <1>2, BoundsTyped DEF Ids
    <3>3. \A j \in held'[k] : done'[j] = 0 /\ dead'[j] = 0
      BY <3>2, <1>1 DEF GroupTyped
    <3> QED  BY <3>1, <3>3 DEF InHand
  <2>2. CASE k # c
    <3>1. pc'[k] = pc[k] /\ held'[k] = held[k]
      BY <2>2, <1>4 DEF Go
    <3> QED  BY <3>1 DEF Inv, ConsumerInv, BatchesInv, InHand, Current
  <2> QED  BY <2>1, <2>2
<1> QED  BY <1>3, <1>5, <1>7, <1>8 DEF Inv, ConsumerInv

LEMMA ReadInv ==
    ASSUME Inv, NEW c \in Consumers, Read(c)
    PROVE  Inv'
<1>1. /\ GroupTyped /\ tail \in Nat /\ low \in Nat /\ cursor \in Nat /\ faults \in Nat
      /\ pc \in [Consumers -> Labels]
  BY BoundsTyped DEF Inv, ConsumerInv, StreamInv, GroupTyped
<1>2. UNCHANGED <<writes, mirror, entry, low, acked, done, dead>>
  BY DEF Read
<1>3. CASE Unread > tail /\ UNCHANGED <<pc, held, pending, cursor, faults>>
  <2>1. tail' = tail
    BY <1>2, TailKept
  <2> QED  BY <1>2, <1>3, <2>1 DEF Inv, StreamInv, ConsumerInv, GroupTyped, BatchesInv, InHand, Current,
             NoSharedEntry, AckedIsSettled, HandledAtMostOnce
<1>4. CASE Fault /\ Leave(c) /\ UNCHANGED <<pending, cursor>>
  <2>1. UNCHANGED <<writes, mirror, redis, done, dead>> /\ faults' \in Nat
    BY <1>1, <1>2, <1>4 DEF Fault, redis
  <2>2. "off" \in Labels /\ Go(c, "off") /\ held' = [held EXCEPT ![c] = {}]
    BY <1>4 DEF Leave, Labels
  <2> QED  BY <2>1, <2>2, EmptyHandedKeepsInv
<1>5. CASE /\ Unread <= tail
           /\ LET to == IF Unread + BatchSize - 1 < tail THEN Unread + BatchSize - 1 ELSE tail
              IN /\ held' = [held EXCEPT ![c] = Unread..to]
                 /\ pending' = pending \cup Unread..to
                 /\ cursor' = to
           /\ Go(c, "next")
           /\ UNCHANGED faults
  <2>1. Unread \in Nat
    BY <1>1 DEF Unread
  <2>2. cursor' \in Unread..tail
    BY <1>1, <1>5, <2>1, BoundsTyped
  <2> QED  BY <1>2, <1>5, <2>2, NewBatchKeepsInv
<1> QED  BY <1>3, <1>4, <1>5 DEF Read

\* Where a consumer is tells what it has done with the entry in hand.
LEMMA InHandNow ==
    ASSUME Inv, NEW c \in Consumers, NEW i \in held[c], Current(c, i)
    PROVE  /\ i \in Ids /\ done[i] \in 0..1 /\ dead[i] \in 0..1 /\ faults \in Nat
           /\ done \in [Ids -> Nat] /\ dead \in [Ids -> Nat]
           /\ pc \in [Consumers -> Labels] /\ held \in [Consumers -> SUBSET (1..cursor)]
           /\ pc[c] = "next"   => done[i] = 0 /\ dead[i] = 0
           /\ pc[c] = "ack"    => done[i] = 1 /\ dead[i] = 0
           /\ pc[c] = "bury"   => dead[i] = 0
           /\ pc[c] = "buried" => dead[i] = 1
<1>1. GroupTyped /\ BatchesInv /\ HandledAtMostOnce /\ tail \in Nat /\ tail <= Cardinality(Events)
  BY BoundsTyped DEF Inv, ConsumerInv, StreamInv
<1>2. i \in Ids
  <2>1. i \in 1..cursor /\ cursor \in 0..tail
    BY <1>1 DEF GroupTyped
  <2> QED  BY <1>1, <2>1, BoundsTyped DEF Ids
<1>3. done[i] \in 0..1 /\ dead[i] \in 0..1
  BY <1>1, <1>2 DEF GroupTyped, HandledAtMostOnce
<1> QED  BY <1>1, <1>2, <1>3 DEF GroupTyped, BatchesInv, InHand

LEMMA SkipInv ==
    ASSUME Inv, NEW c \in Consumers, Skip(c)
    PROVE  Inv'
<1>1. PICK i \in held[c] : /\ Current(c, i) /\ entry[i] \in Malformed
                           /\ AckAndNext(c, i) \/ (AckFails(i) /\ Leave(c))
  BY DEF Skip
<1>2. UNCHANGED <<writes, mirror, entry, low, cursor, done, dead>>
  BY DEF Skip
<1> QED  BY <1>1, <1>2, InHandNow, OwnEntryKeepsInv
            DEF AckAndNext, AckFails, Leave, Fault, Ack, Go, Labels

LEMMA HandleInv ==
    ASSUME Inv, NEW c \in Consumers, Handle(c)
    PROVE  Inv'
<1>1. PICK i \in held[c] : /\ Current(c, i)
                           /\ \/ done' = [done EXCEPT ![i] = @ + 1] /\ Go(c, "ack")
                              \/ UNCHANGED done /\ Go(c, "bury")
  BY DEF Handle
<1>2. UNCHANGED <<writes, mirror, entry, low, cursor, pending, acked, held, dead, faults>> /\ pc[c] = "next"
  BY DEF Handle, redis
<1>3. i \in acked => done[i] > 0 \/ dead[i] > 0 \/ entry[i] \in Malformed
  BY DEF Inv, ConsumerInv, AckedIsSettled
<1> QED  BY <1>1, <1>2, <1>3, InHandNow, OwnEntryKeepsInv DEF Go, Labels

LEMMA AckHandledInv ==
    ASSUME Inv, NEW c \in Consumers, AckHandled(c)
    PROVE  Inv'
<1>1. PICK i \in held[c] : /\ Current(c, i)
                           /\ AckAndNext(c, i) \/ (AckFails(i) /\ AckRaised(c) /\ UNCHANGED held)
  BY DEF AckHandled
<1>2. UNCHANGED <<writes, mirror, entry, low, cursor, done, dead>> /\ pc[c] = "ack"
  BY DEF AckHandled
<1> QED  BY <1>1, <1>2, InHandNow, OwnEntryKeepsInv
            DEF AckAndNext, AckFails, AckRaised, Fault, Ack, Go, Labels

LEMMA BuryInv ==
    ASSUME Inv, NEW c \in Consumers, Bury(c)
    PROVE  Inv'
<1>1. PICK i \in held[c] :
        /\ Current(c, i)
        /\ \/ Buried(i) /\ Go(c, "buried") /\ UNCHANGED <<held, faults>>
           \/ Fault /\ Leave(c) /\ (Buried(i) \/ UNCHANGED dead)
  BY DEF Bury
<1>2. UNCHANGED <<writes, mirror, entry, low, cursor, pending, acked, done>> /\ pc[c] = "bury"
  BY DEF Bury, redis
<1>3. i \in acked => done[i] > 0 \/ dead[i] > 0 \/ entry[i] \in Malformed
  BY DEF Inv, ConsumerInv, AckedIsSettled
<1> QED  BY <1>1, <1>2, <1>3, InHandNow, OwnEntryKeepsInv DEF Buried, Leave, Fault, Go, Labels

LEMMA AckBuriedInv ==
    ASSUME Inv, NEW c \in Consumers, AckBuried(c)
    PROVE  Inv'
<1>1. PICK i \in held[c] : Current(c, i) /\ (AckAndNext(c, i) \/ (AckFails(i) /\ Leave(c)))
  BY DEF AckBuried
<1>2. UNCHANGED <<writes, mirror, entry, low, cursor, done, dead>> /\ pc[c] = "buried"
  BY DEF AckBuried
<1> QED  BY <1>1, <1>2, InHandNow, OwnEntryKeepsInv
            DEF AckAndNext, AckFails, Leave, Fault, Ack, Go, Labels

LEMMA ConsumerStepInv ==
    ASSUME Inv, NEW c \in Consumers, ConsumerStep(c) \/ Crash(c)
    PROVE  Inv'
<1>1. faults \in Nat /\ held \in [Consumers -> SUBSET (1..cursor)] /\ BatchesInv
  BY DEF Inv, ConsumerInv, GroupTyped
<1>2. CASE Start(c)
  <2>1. held' = [held EXCEPT ![c] = {}]
    BY <1>1, <1>2 DEF Start, BatchesInv
  <2> QED  BY <1>1, <1>2, <2>1, EmptyHandedKeepsInv DEF Start, Labels
<1>3. CASE BatchDone(c)
  <2>1. held' = [held EXCEPT ![c] = {}]
    BY <1>1, <1>3 DEF BatchDone
  <2> QED  BY <1>1, <1>3, <2>1, EmptyHandedKeepsInv DEF BatchDone, Labels
<1>4. CASE Crash(c)
  <2>1. UNCHANGED <<writes, mirror, redis, done, dead>> /\ faults' \in Nat
    BY <1>1, <1>4 DEF Crash, Fault
  <2>2. "off" \in Labels /\ Go(c, "off") /\ held' = [held EXCEPT ![c] = {}]
    BY <1>4 DEF Crash, Leave, Labels
  <2> QED  BY <2>1, <2>2, EmptyHandedKeepsInv
<1>5. CASE Read(c) \/ Skip(c) \/ Handle(c) \/ AckHandled(c) \/ Bury(c) \/ AckBuried(c)
  BY <1>5, ReadInv, SkipInv, HandleInv, AckHandledInv, BuryInv, AckBuriedInv
<1> QED  BY <1>2, <1>3, <1>4, <1>5 DEF ConsumerStep, Consume

-----------------------------------------------------------------------------

LEMMA InvStep == Inv /\ [Next]_vars => Inv'
<1> SUFFICES ASSUME Inv, [Next]_vars PROVE Inv'
  OBVIOUS
<1>1. CASE Next
  BY <1>1, PublisherStepInv, ConsumerStepInv DEF Next
<1>2. CASE UNCHANGED vars
  <2>1. tail' = tail
    BY <1>2, TailKept DEF vars, redis
  <2> QED  BY <1>2, <2>1 DEF vars, redis, Inv, StreamInv, ConsumerInv, GroupTyped, BatchesInv, InHand, Current,
             NoSharedEntry, AckedIsSettled, HandledAtMostOnce
<1> QED  BY <1>1, <1>2

LEMMA InvAlways == Spec => []Inv
  BY InvInit, InvStep, PTL DEF Spec

\* Types of the stream, the group and the consumers of consume(); an event is
\* under one id at most, so the stream never grows past the number of events.
THEOREM StreamTypeCorrect == Spec => []TypeOK
<1>1. Inv => TypeOK
  <2> SUFFICES ASSUME Inv PROVE TypeOK
    OBVIOUS
  <2>1. tail \in Nat /\ cursor \in 0..tail
    BY BoundsTyped DEF Inv, StreamInv, ConsumerInv, GroupTyped
  <2>2. 1..cursor \subseteq 1..tail
    BY <2>1
  <2>3. held \in [Consumers -> SUBSET (1..tail)]
    BY <2>2 DEF Inv, ConsumerInv, GroupTyped
  <2> QED  BY <2>3 DEF Inv, StreamInv, ConsumerInv, GroupTyped, TypeOK
<1> QED  BY <1>1, InvAlways, PTL

\* No entry is in the hands of two consumers of the group.
THEOREM EntriesNotShared == Spec => []NoSharedEntry
<1>1. Inv => NoSharedEntry
  BY DEF Inv, ConsumerInv
<1> QED  BY <1>1, InvAlways, PTL

\* Whatever call fails and whoever crashes, an acknowledged entry was handled,
\* is in the DLQ, or could not be read.
THEOREM AcknowledgedIsSettled == Spec => []AckedIsSettled
<1>1. Inv => AckedIsSettled
  BY DEF Inv, ConsumerInv
<1> QED  BY <1>1, InvAlways, PTL

\* The handler of an entry succeeds at most once, and it is dead-lettered at
\* most once: consume() never hands an entry out again.
THEOREM NeverHandledTwice == Spec => []HandledAtMostOnce
<1>1. Inv => HandledAtMostOnce
  BY DEF Inv, ConsumerInv
<1> QED  BY <1>1, InvAlways, PTL

=============================================================================
