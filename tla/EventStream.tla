---------------------------- MODULE EventStream -----------------------------
(***************************************************************************)
(* packages/py-events: the dual-write publisher and the consumer-group     *)
(* reader with its dead-letter queue.  Redis Streams are external: XADD    *)
(* appends an entry under the next id and may trim the oldest ones,        *)
(* XREADGROUP with ">" hands out entries no consumer of the group has been *)
(* given and puts them on the pending list, XACK takes one off that list.  *)
(*                                                                         *)
(* Every remote call may fail, with or without its effect; the number of   *)
(* failures and crashes is bounded.  Operators marked [fault] are wrong    *)
(* versions of the one that follows them, used to check the properties.    *)
(***************************************************************************)
EXTENDS Integers, FiniteSets

CONSTANTS
    Events,         \* what callers publish
    Malformed,      \* entries without data or with unreadable JSON
    Consumers,      \* consumer names of one group
    BatchSize,      \* count of XREADGROUP
    MaxLen,         \* length the stream may be trimmed to
    MaxFaults       \* bound: failed calls and crashes

ASSUME StreamAssumption ==
    /\ Malformed \subseteq Events /\ IsFiniteSet(Events)
    /\ {BatchSize, MaxLen} \subseteq Nat \ {0} /\ MaxFaults \in Nat

VARIABLES
    writes,     \* per event: writes still to come; {"publish"}: not published yet
    mirror,     \* events in ClickHouse
    entry,      \* the stream: the event under each id ever appended
    low,        \* ids up to this one have been trimmed
    cursor,     \* last id delivered to the group
    pending,    \* the group's pending entries list
    pc, held,   \* per consumer: where consume() is; rest of its batch
    done,       \* per id: how often the handler succeeded
    dead,       \* per id: how often it was added to the DLQ
    acked,      \* ids acknowledged
    faults

redis == <<entry, low, cursor, pending, acked>>
vars  == <<writes, mirror, redis, pc, held, done, dead, faults>>

tail == Cardinality(DOMAIN entry)
Ids  == 1..Cardinality(Events)

\* off: not running.  read: before XREADGROUP.  next: before an entry.
\* ack: the handler returned.  bury, buried: before and after the DLQ's XADD.
Labels == {"off", "read", "next", "ack", "bury", "buried"}

Init ==
    /\ writes = [e \in Events |-> {"publish"}] /\ mirror = {}
    /\ entry = <<>> /\ low = 0 /\ cursor = 0 /\ pending = {} /\ acked = {}
    /\ pc = [c \in Consumers |-> "off"] /\ held = [c \in Consumers |-> {}]
    /\ done = [i \in Ids |-> 0] /\ dead = [i \in Ids |-> 0]
    /\ faults = 0

Fault == faults < MaxFaults /\ faults' = faults + 1

-----------------------------------------------------------------------------
(* Publisher: gather(_write_clickhouse, _write_redis).                     *)

Publish(e) ==
    /\ "publish" \in writes[e]
    /\ writes' = [writes EXCEPT ![e] = {"clickhouse", "redis"}]
    /\ UNCHANGED <<mirror, redis, pc, held, done, dead, faults>>

\* [fault] an event stays to be written after it was.
AttemptedAgain(e, w) == w \in writes[e] /\ UNCHANGED writes

Attempted(e, w) ==
    /\ w \in writes[e]
    /\ writes' = [writes EXCEPT ![e] = @ \ {w}]

WriteClickhouse(e) ==
    /\ Attempted(e, "clickhouse")
    /\ \/ mirror' = mirror \cup {e} /\ UNCHANGED faults
       \/ Fault /\ mirror' \in {mirror, mirror \cup {e}}
    /\ UNCHANGED <<redis, pc, held, done, dead>>

\* XADD with MAXLEN ~: the stream keeps at least MaxLen entries.
Append(e) ==
    /\ entry' = [i \in 1..tail + 1 |-> IF i <= tail THEN entry[i] ELSE e]
    /\ low' \in low..(IF tail + 1 - MaxLen > low THEN tail + 1 - MaxLen ELSE low)

\* The write is logged and dropped when it fails.
WriteRedis(e) ==
    /\ Attempted(e, "redis")
    /\ \/ Append(e) /\ UNCHANGED faults
       \/ Fault /\ (Append(e) \/ UNCHANGED <<entry, low>>)
    /\ UNCHANGED <<mirror, cursor, pending, acked, pc, held, done, dead>>

-----------------------------------------------------------------------------
(* Consumer.                                                               *)

Go(c, l) == pc' = [pc EXCEPT ![c] = l]

\* An exception leaves consume(): the rest of the batch is forgotten.
Leave(c) == Go(c, "off") /\ held' = [held EXCEPT ![c] = {}]

\* consume() is called (again): _ensure_group finds or creates the group.
Start(c) ==
    /\ pc[c] = "off"
    /\ Go(c, "read")
    /\ UNCHANGED <<writes, mirror, redis, held, done, dead, faults>>

\* [fault] every reader begins at the oldest entry of the stream.
Oldest == low + 1

\* [fault] "$" for ">": only entries added after the call are asked for.
OnlyNewer == tail + 1

\* What ">" asks for: the first entry the group has not been given.
Unread == (IF cursor < low THEN low ELSE cursor) + 1

\* XREADGROUP: entries nobody was given, nothing within block_ms, or an error.
\* A ResponseError is logged and the loop goes on, which changes nothing.
Read(c) ==
    /\ pc[c] = "read"
    /\ \/ /\ Unread <= tail
          /\ LET to == IF Unread + BatchSize - 1 < tail THEN Unread + BatchSize - 1 ELSE tail
             IN /\ held' = [held EXCEPT ![c] = Unread..to]
                /\ pending' = pending \cup Unread..to
                /\ cursor' = to
          /\ Go(c, "next")
          /\ UNCHANGED faults
       \/ Unread > tail /\ UNCHANGED <<pc, held, pending, cursor, faults>>
       \/ Fault /\ Leave(c) /\ UNCHANGED <<pending, cursor>>
    /\ UNCHANGED <<writes, mirror, entry, low, acked, done, dead>>

BatchDone(c) ==
    /\ pc[c] = "next" /\ held[c] = {}
    /\ Go(c, "read")
    /\ UNCHANGED <<writes, mirror, redis, held, done, dead, faults>>

\* The entry in hand: the batch is walked in id order.
Current(c, i) == i \in held[c] /\ \A j \in held[c] : i <= j

Ack(i) == pending' = pending \ {i} /\ acked' = acked \cup {i}

\* XACK succeeds and the loop takes the next entry.
AckAndNext(c, i) ==
    /\ Ack(i)
    /\ held' = [held EXCEPT ![c] = @ \ {i}]
    /\ Go(c, "next")
    /\ UNCHANGED faults

\* XACK raises; Redis may have done it all the same.
AckFails(i) == Fault /\ (Ack(i) \/ UNCHANGED <<pending, acked>>)

\* An entry that cannot be read is acknowledged and skipped; here nothing
\* catches an error of XACK.
Skip(c) ==
    /\ pc[c] = "next"
    /\ \E i \in held[c] :
        /\ Current(c, i) /\ entry[i] \in Malformed
        /\ AckAndNext(c, i) \/ (AckFails(i) /\ Leave(c))
    /\ UNCHANGED <<writes, mirror, entry, low, cursor, done, dead>>

\* await handler(...): returns, or raises and the entry goes to the DLQ.
Handle(c) ==
    /\ pc[c] = "next"
    /\ \E i \in held[c] :
        /\ Current(c, i) /\ entry[i] \notin Malformed
        /\ \/ done' = [done EXCEPT ![i] = @ + 1] /\ Go(c, "ack")
           \/ UNCHANGED done /\ Go(c, "bury")
    /\ UNCHANGED <<writes, mirror, redis, held, dead, faults>>

\* [fault] an error of XACK is ignored and the entry acknowledged as handled.
StillPending(c) == Go(c, "next")

\* The except clause catches an error of XACK as if the handler had raised.
AckRaised(c) == Go(c, "bury")

AckHandled(c) ==
    /\ pc[c] = "ack"
    /\ \E i \in held[c] :
        /\ Current(c, i)
        /\ \/ AckAndNext(c, i)
           \/ AckFails(i) /\ AckRaised(c) /\ UNCHANGED held
    /\ UNCHANGED <<writes, mirror, entry, low, cursor, done, dead>>

\* [fault] the entry is acknowledged without having been written to the DLQ.
Unburied(i) == UNCHANGED dead

Buried(i) == dead' = [dead EXCEPT ![i] = @ + 1]

\* XADD to the DLQ; its error leaves consume().
Bury(c) ==
    /\ pc[c] = "bury"
    /\ \E i \in held[c] :
        /\ Current(c, i)
        /\ \/ Buried(i) /\ Go(c, "buried") /\ UNCHANGED <<held, faults>>
           \/ Fault /\ Leave(c) /\ (Buried(i) \/ UNCHANGED dead)
    /\ UNCHANGED <<writes, mirror, redis, done>>

AckBuried(c) ==
    /\ pc[c] = "buried"
    /\ \E i \in held[c] :
        /\ Current(c, i)
        /\ AckAndNext(c, i) \/ (AckFails(i) /\ Leave(c))
    /\ UNCHANGED <<writes, mirror, entry, low, cursor, done, dead>>

\* The process of a consumer dies, or stop() ends its loop at "read".
Crash(c) ==
    /\ pc[c] # "off" /\ Fault
    /\ Leave(c)
    /\ UNCHANGED <<writes, mirror, redis, done, dead>>

PublisherStep(e) == Publish(e) \/ WriteClickhouse(e) \/ WriteRedis(e)

\* A step of consume().
Consume(c) ==
    \/ Read(c) \/ BatchDone(c) \/ Skip(c) \/ Handle(c)
    \/ AckHandled(c) \/ Bury(c) \/ AckBuried(c)

ConsumerStep(c) == Start(c) \/ Consume(c)

Next ==
    \/ \E e \in Events : PublisherStep(e)
    \/ \E c \in Consumers : ConsumerStep(c) \/ Crash(c)

\* A running consumer does not stop at an await: the calls to Redis return, as
\* XREADGROUP blocks for block_ms at most, and handlers end.  Nobody is obliged
\* to publish, nor to start a consumer or to start it again.
Spec == Init /\ [][Next]_vars /\ \A c \in Consumers : WF_vars(Consume(c))

\* More than the repository has: whoever stops is started again.  Even so a
\* promise of consume() can be broken.
SupervisedSpec == Spec /\ \A c \in Consumers : WF_vars(Start(c))

-----------------------------------------------------------------------------
(* Properties.                                                             *)

TypeOK ==
    /\ writes \in [Events -> {{"publish"}} \cup SUBSET {"clickhouse", "redis"}]
    /\ mirror \subseteq Events
    /\ tail \in 0..Cardinality(Events) /\ entry \in [1..tail -> Events]
    /\ low \in 0..tail /\ cursor \in 0..tail
    /\ pending \subseteq 1..tail /\ acked \subseteq 1..tail
    /\ pc \in [Consumers -> Labels] /\ held \in [Consumers -> SUBSET (1..tail)]
    /\ done \in [Ids -> Nat] /\ dead \in [Ids -> Nat] /\ faults \in Nat

\* No entry is in the hands of two consumers of the group.
NoSharedEntry ==
    \A c1, c2 \in Consumers : c1 # c2 => held[c1] \cap held[c2] = {}

\* An entry the group has acknowledged was handled, is in the DLQ, or could
\* not be read: whatever call fails and whoever crashes, no acknowledgement
\* hides an event that was never dealt with.
AckedIsSettled ==
    \A i \in acked : done[i] > 0 \/ dead[i] > 0 \/ entry[i] \in Malformed

\* The handler runs to success at most once per entry, and an entry is in the
\* DLQ at most once: handlers need not be idempotent.
HandledAtMostOnce == \A i \in Ids : done[i] <= 1 /\ dead[i] <= 1

\* What becomes of an entry once it was dealt with.
Settled(i) ==
    \/ done[i] > 0 \/ dead[i] > 0
    \/ i \in DOMAIN entry /\ entry[i] \in Malformed

\* "at-least-once delivery" (consumer.py:22): what XREADGROUP has handed to the
\* group is handled, dead-lettered or found unreadable in the end.
DeliveredIsSettled == \A i \in Ids : i <= cursor ~> Settled(i)

\* An entry of the stream while a consumer of the group runs is settled in the
\* end, unless all of them stop: whoever runs reads on past what the others
\* hold, a failing handler or acknowledgement does not hold up the batch, and
\* nothing is passed over.  The only entries left out were trimmed, or left
\* pending by a consumer that died, stopped or raised.
EventSettled ==
    \A i \in Ids :
        (i \in DOMAIN entry /\ \E c \in Consumers : pc[c] # "off") ~>
            \/ Settled(i)
            \/ i <= low
            \/ faults > 0 /\ i \in pending \ UNION {held[c] : c \in Consumers}
            \/ \A c \in Consumers : pc[c] = "off"

=============================================================================
