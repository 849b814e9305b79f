---------------------------- MODULE StreamConsumer ----------------------------
(***************************************************************************)
(* A producer, the sharded LocalStream and one StreamConsumer with its     *)
(* fraud detector.  The producer puts events while the consumer is in the  *)
(* middle of a shard; the stream may carry a record more than once; an     *)
(* event that cannot be evaluated (a timestamp that does not parse) makes  *)
(* consume() raise half way.                                               *)
(*                                                                         *)
(* consume() takes a snapshot of each shard, from its first record every   *)
(* time, and drops what this consumer has seen.                            *)
(***************************************************************************)
EXTENDS FraudDetector, SequencesExt

CONSTANTS
    Ids,            \* transaction ids
    CustomerOf,     \* the customer of each transaction
    Malformed,      \* the transactions whose evaluation raises
    Event,          \* what a producer may put for each of them
    ShardCount,
    ShardOf,        \* md5 of the partition key, modulo the shard count
    MaxCopies       \* bound: records delivered again

Shards == 0..(ShardCount - 1)

ASSUME StreamAssumption ==
    /\ Ids \subseteq Nat
    /\ CustomerOf \in [Ids -> Customers]
    /\ Malformed \subseteq Ids
    /\ Event \subseteq [id : Ids, ts : Times, city : Cities]
    /\ ShardCount \in Nat \ {0}
    /\ ShardOf \in [Customers -> Shards]
    /\ MaxCopies \in Nat

VARIABLES
    shards,         \* _shards: the records of each shard
    copies,         \* bound: records delivered again so far
    shard,          \* consume(): the shard being read, or Idle
    next, limit,    \* consume(): next record of it, and the end of the snapshot
    seen,           \* _seen_ids
    lastTs,         \* _last_ts_by_customer
    late,           \* the events counted as late
    checkpoints,    \* _checkpoints: records up to and with the last processed
    result,         \* consume(): the alerts this pass has collected
    returned,       \* history: the alerts that passes have returned
    sent,           \* history: the well-formed events of each customer, as produced
    scored          \* history: the events of each customer, as scored

stream   == <<shards, copies, sent>>
position == <<shard, next, limit>>
memory   == <<seen, lastTs, late, checkpoints, scored, detectorVars>>
output   == <<result, returned>>
vars     == <<stream, position, memory, output>>

Idle == -1

TypeOK ==
    /\ DetectorTypeOK(Ids)
    /\ shards \in [Shards -> Seq(Event)]
    /\ copies \in 0..MaxCopies
    /\ shard \in Shards \cup {Idle}
    /\ next \in Nat /\ limit \in Nat
    /\ shard # Idle => next <= limit + 1 /\ limit <= Len(shards[shard])
    /\ seen \subseteq Ids
    /\ lastTs \in [Customers -> {0} \cup Times]
    /\ late \subseteq Ids
    /\ \A k \in Shards : checkpoints[k] \in 0..Len(shards[k])
    /\ result \subseteq alerts /\ returned \subseteq alerts
    /\ sent \in [Customers -> Seq(Event)]
    /\ scored \in [Customers -> Seq(Event)]

Init ==
    /\ DetectorInit
    /\ shards = [k \in Shards |-> <<>>]
    /\ copies = 0
    /\ shard = Idle /\ next = 0 /\ limit = 0
    /\ seen = {}
    /\ lastTs = [c \in Customers |-> 0]
    /\ late = {}
    /\ checkpoints = [k \in Shards |-> 0]
    /\ result = {} /\ returned = {}
    /\ sent = [c \in Customers |-> <<>>]
    /\ scored = [c \in Customers |-> <<>>]

-----------------------------------------------------------------------------
\* The producer and the stream

\* (Seeded mistake: the partition key is the transaction.)
ShardForTransaction(id) == id % ShardCount

\* The partition key is the customer, so that a customer stays on one shard.
ShardFor(id) == ShardOf[CustomerOf[id]]

Produced == {i \in Ids : \E k \in Shards : \E n \in DOMAIN shards[k] :
                            shards[k][n].id = i}

Put(e) ==
    /\ e.id \notin Produced
    /\ shards' = [shards EXCEPT ![ShardFor(e.id)] = Append(@, e)]
    /\ sent' = IF e.id \in Malformed
                 THEN sent
                 ELSE [sent EXCEPT ![CustomerOf[e.id]] = Append(@, e)]
    /\ UNCHANGED <<copies, position, memory, output>>

\* At-least-once: a record of the stream comes again.
Redeliver(k) ==
    /\ copies < MaxCopies
    /\ copies' = copies + 1
    /\ \E n \in DOMAIN shards[k] :
        shards' = [shards EXCEPT ![k] = Append(@, shards[k][n])]
    /\ UNCHANGED <<sent, position, memory, output>>

-----------------------------------------------------------------------------
\* The consumer

ReadShard(k) ==
    /\ shard' = k
    /\ next' = 1
    /\ limit' = Len(shards[k])

\* A pass that breaks off returns nothing.
BreakOff ==
    /\ shard' = Idle /\ next' = 0 /\ limit' = 0
    /\ result' = {}

Consume ==
    /\ shard = Idle
    /\ ReadShard(0)
    /\ UNCHANGED <<stream, memory, output>>

NextShard ==
    /\ shard + 1 \in Shards /\ shard # Idle /\ next > limit
    /\ ReadShard(shard + 1)
    /\ UNCHANGED <<stream, memory, output>>

Return ==
    /\ shard + 1 \notin Shards /\ next > limit
    /\ BreakOff
    /\ returned' = returned \cup result
    /\ UNCHANGED <<stream, memory>>

Reading(e) == shard # Idle /\ next <= limit /\ e = shards[shard][next]

\* (Seeded mistake: a duplicate ends the pass instead of being passed over.)
StopAtDuplicate(e) ==
    /\ Reading(e) /\ e.id \in seen
    /\ BreakOff
    /\ UNCHANGED <<stream, memory, returned>>

DropDuplicate(e) ==
    /\ Reading(e) /\ e.id \in seen
    /\ next' = next + 1
    /\ UNCHANGED <<stream, shard, limit, memory, output>>

\* The event is remembered as seen, and as late or as the customer's newest,
\* before it is scored.
See(e) ==
    LET c == CustomerOf[e.id] IN
    /\ seen' = seen \cup {e.id}
    /\ IF e.ts < lastTs[c]
         THEN late' = late \cup {e.id} /\ UNCHANGED lastTs
         ELSE lastTs' = [lastTs EXCEPT ![c] = e.ts] /\ UNCHANGED late

\* (Seeded mistake: the checkpoint runs ahead to the end of the snapshot.)
CheckpointSnapshot == checkpoints' = [checkpoints EXCEPT ![shard] = limit]

Checkpoint == checkpoints' = [checkpoints EXCEPT ![shard] = next]

\* (Seeded mistake: the alerts of an event replace those of the events before it.)
CollectLast(e) == result' = {a \in alerts' : a[1] = e.id}

Collect(e) == result' = result \cup {a \in alerts' : a[1] = e.id}

Process(e) ==
    LET c == CustomerOf[e.id] IN
    /\ Reading(e) /\ e.id \notin seen /\ e.id \notin Malformed
    /\ See(e)
    /\ Evaluate(c, e)
    /\ Collect(e)
    /\ scored' = [scored EXCEPT ![c] = Append(@, e)]
    /\ Checkpoint
    /\ next' = next + 1
    /\ UNCHANGED <<stream, shard, limit, returned>>

\* evaluate() raises, and nothing in consume() catches it.
ProcessRaises(e) ==
    /\ Reading(e) /\ e.id \notin seen /\ e.id \in Malformed
    /\ See(e)
    /\ BreakOff
    /\ UNCHANGED <<stream, detectorVars, scored, checkpoints, returned>>

ConsumerStep ==
    \/ Consume
    \/ NextShard
    \/ Return
    \/ \E e \in Event : DropDuplicate(e) \/ Process(e) \/ ProcessRaises(e)

Next ==
    \/ \E e \in Event : Put(e)
    \/ \E k \in Shards : Redeliver(k)
    \/ ConsumerStep

Spec == Init /\ [][Next]_vars

\* consume() is called again and again, and a pass goes on until it ends.
FairSpec == Spec /\ WF_vars(ConsumerStep)

-----------------------------------------------------------------------------
\* Properties

LastNewest(s, m) ==
    \A i \in DOMAIN s : s[i].ts < s[m].ts \/ (s[i].ts = s[m].ts /\ i <= m)

\* fraud.py: "ignore late arrivals so they don't corrupt the travel baseline":
\* the baseline is the last of the newest events scored.
BaselineIsNewest ==
    \A c \in Customers : \A m \in DOMAIN scored[c] :
        LastNewest(scored[c], m) =>
            lastLocation[c] = [ts |-> scored[c][m].ts, city |-> scored[c][m].city]

InOrder(s) == \A i, j \in DOMAIN s : i < j => s[i].ts <= s[j].ts

\* fraud.py: for a customer none of whose events came late, HIGH_VALUE means that the
\* event is large, VELOCITY more than velocity_max_txns events in the window that
\* ends at it, and IMPOSSIBLE_TRAVEL a journey from the event before it that is too
\* fast.
AlertsExact ==
    \A c \in Customers : InOrder(scored[c]) =>
        LET s == scored[c] IN
        \A n \in DOMAIN s :
            /\ <<s[n].id, "HIGH_VALUE">> \in alerts <=> s[n].id \in HighValue
            /\ <<s[n].id, "VELOCITY">> \in alerts <=>
                   Cardinality({i \in 1..n : s[i].ts >= s[n].ts - VelocityWindow})
                       > VelocityMax
            /\ <<s[n].id, "IMPOSSIBLE_TRAVEL">> \in alerts <=>
                   n > 1 /\ TooFast(s[n-1], s[n])

\* consumer.py: "checkpoints the last processed sequence number per shard": a
\* consumer that started after the checkpoint would miss no event it could score.
CheckpointCovers ==
    \A k \in Shards : \A n \in 1..checkpoints[k] :
        LET e == shards[k][n] IN
        e.id \in Malformed \/ Contains(scored[CustomerOf[e.id]], e)

\* The first place of an event in the order in which a pass meets the records.
MetBefore(i, j) ==
    LET First(x) == CHOOSE p \in Shards \X (1..Cardinality(Produced) + MaxCopies) :
                       /\ p[2] \in DOMAIN shards[p[1]] /\ shards[p[1]][p[2]].id = x
                       /\ \A n \in 1..(p[2] - 1) : shards[p[1]][n].id # x
    IN  \/ First(i)[1] < First(j)[1]
        \/ First(i)[1] = First(j)[1] /\ First(i)[2] < First(j)[2]

\* consumer.py: "scores the event with the FraudDetector and collects alerts": an
\* alert is handed to a caller, once, by the pass that raised it.  The only ones
\* that never are were raised before an event that broke the pass off.
AlertsHandedOver ==
    /\ result \cap returned = {}
    /\ \A a \in alerts \ (result \cup returned) :
          \E m \in Malformed \cap seen : MetBefore(a[1], m)
    /\ shard = Idle => result = {}

\* consumer.py: "de-duplicates using the transaction_id (at-least-once -> once)", and
\* events.py: the partition key preserves "per-customer ordering - essential for the
\* velocity and impossible-travel rules": the consumer implements a feed that scores
\* each customer's events in the order in which they were produced, each once and
\* every one in the end, whatever was delivered again or raises before it.
Feed == INSTANCE ScoredFeed WITH Ids <- Ids \ Malformed
FeedSpec == Feed!Spec
==============================================================================
