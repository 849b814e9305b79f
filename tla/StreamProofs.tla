---------------------------- MODULE StreamProofs ----------------------------
(***************************************************************************)
(* What the consumer and its detector keep true for any shards, customers, *)
(* limits, redeliveries and malformed events: the consumer implements the  *)
(* safety part of ScoredFeed, its checkpoints never pass an event that has *)
(* not been scored (StreamInv); the detector's window and baseline stand   *)
(* for the events scored, so that its alerts are what the rules ask        *)
(* (DetectorInv); and alerts are returned once, or lost to an event that   *)
(* made the pass break off (HandedInv).                                    *)
(*                                                                         *)
(* None of these is inductive as it stands: that the next event met of a   *)
(* customer is the next one produced follows from how the shard is laid    *)
(* out (LaidOut), and from all that stands before it having been seen      *)
(* (ReadSoFar).                                                            *)
(***************************************************************************)
EXTENDS StreamConsumer, SequenceTheorems, FiniteSetTheorems, WellFoundedInduction, TLAPS

-----------------------------------------------------------------------------
\* The inductive invariant

StreamTypes ==
    /\ shards \in [Shards -> Seq(Event)]
    /\ sent \in [Customers -> Seq(Event)]
    /\ scored \in [Customers -> Seq(Event)]
    /\ seen \subseteq Ids
    /\ checkpoints \in [Shards -> Nat]
    /\ shard \in Shards \cup {Idle}
    /\ next \in Nat /\ limit \in Nat
    /\ shard # Idle =>
          1 <= next /\ next <= limit + 1 /\ limit <= Len(shards[shard])

\* Each event sent is scorable, is its customer's, and is on the customer's shard.
SentIsCarried ==
    \A c \in Customers : \A i \in 1..Len(sent[c]) :
        /\ sent[c][i].id \in Ids \ Malformed
        /\ CustomerOf[sent[c][i].id] = c
        /\ \E n \in 1..Len(shards[ShardOf[c]]) : shards[ShardOf[c]][n] = sent[c][i]

SentOnce ==
    \A c \in Customers : \A i, j \in 1..Len(sent[c]) :
        sent[c][i].id = sent[c][j].id => i = j

\* Each record is on its customer's shard, and was sent unless it is malformed.
CarriedWasSent ==
    \A k \in Shards : \A n \in 1..Len(shards[k]) :
        /\ k = ShardFor(shards[k][n].id)
        /\ \/ shards[k][n].id \in Malformed
           \/ \E i \in 1..Len(sent[CustomerOf[shards[k][n].id]]) :
                 sent[CustomerOf[shards[k][n].id]][i] = shards[k][n]

\* Whoever reads a shard from its start meets what was sent before first.
LaidOut ==
    \A c \in Customers : \A i, j \in 1..Len(sent[c]) : i < j =>
        \A n \in 1..Len(shards[ShardOf[c]]) : shards[ShardOf[c]][n] = sent[c][j] =>
            \E m \in 1..(n - 1) : shards[ShardOf[c]][m] = sent[c][i]

ScoredIsPrefix ==
    \A c \in Customers :
        /\ Len(scored[c]) <= Len(sent[c])
        /\ \A i \in 1..Len(scored[c]) : scored[c][i] = sent[c][i]

SeenIsScored ==
    \A c \in Customers : \A i \in 1..Len(sent[c]) :
        sent[c][i].id \in seen <=> i <= Len(scored[c])

SeenWasProduced == seen \subseteq Produced

ReadSoFar == shard # Idle => \A n \in 1..(next - 1) : shards[shard][n].id \in seen

BehindCheckpoint ==
    \A k \in Shards :
        /\ checkpoints[k] <= Len(shards[k])
        /\ \A n \in 1..checkpoints[k] : shards[k][n].id \in seen

StreamInv ==
    /\ StreamTypes
    /\ SentIsCarried /\ SentOnce /\ CarriedWasSent /\ LaidOut
    /\ ScoredIsPrefix /\ SeenIsScored /\ SeenWasProduced
    /\ ReadSoFar /\ BehindCheckpoint

-----------------------------------------------------------------------------
\* Appending to one of a family of sequences keeps all that they hold in its place.
LEMMA AppendAt ==
  ASSUME NEW I, NEW f \in [I -> Seq(Event)], NEW k \in I, NEW e \in Event,
         NEW g, g = [f EXCEPT ![k] = Append(@, e)]
  PROVE  /\ g \in [I -> Seq(Event)]
         /\ \A x \in I : /\ Len(f[x]) \in Nat /\ Len(g[x]) \in Nat
                         /\ Len(f[x]) <= Len(g[x])
                         /\ DOMAIN f[x] = 1..Len(f[x]) /\ DOMAIN g[x] = 1..Len(g[x])
         /\ \A x \in I : \A n \in 1..Len(f[x]) : g[x][n] = f[x][n]
         /\ \A x \in I : x # k => g[x] = f[x]
         /\ Len(g[k]) = Len(f[k]) + 1
         /\ g[k][Len(f[k]) + 1] = e
<1>1. f[k] \in Seq(Event) /\ g[k] = Append(f[k], e)
  OBVIOUS
<1>2. /\ Append(f[k], e) \in Seq(Event)
      /\ Len(Append(f[k], e)) = Len(f[k]) + 1
      /\ \A i \in 1..Len(f[k]) : Append(f[k], e)[i] = f[k][i]
      /\ Append(f[k], e)[Len(f[k]) + 1] = e
  BY <1>1, AppendProperties
<1>3. \A x \in I : x # k => g[x] = f[x]
  OBVIOUS
<1>4. g \in [I -> Seq(Event)]
  BY <1>1, <1>2
<1>5. \A x \in I : /\ Len(f[x]) \in Nat /\ Len(g[x]) \in Nat
                   /\ DOMAIN f[x] = 1..Len(f[x]) /\ DOMAIN g[x] = 1..Len(g[x])
  BY <1>4
<1>6. \A x \in I : Len(f[x]) <= Len(g[x])
  BY <1>1, <1>2, <1>3, <1>5
<1>7. \A x \in I : \A n \in 1..Len(f[x]) : g[x][n] = f[x][n]
  BY <1>1, <1>2, <1>3
<1>8. QED
  BY <1>1, <1>2, <1>3, <1>4, <1>5, <1>6, <1>7

LEMMA EventFields ==
  ASSUME NEW e \in Event
  PROVE  /\ e.id \in Ids /\ CustomerOf[e.id] \in Customers
         /\ ShardFor(e.id) \in Shards
         /\ ShardFor(e.id) = ShardOf[CustomerOf[e.id]]
BY StreamAssumption DEF ShardFor

\* What is known of the sequences of a state.
LEMMA SequenceFacts ==
  ASSUME StreamInv
  PROVE  /\ \A k \in Shards : /\ Len(shards[k]) \in Nat
                              /\ DOMAIN shards[k] = 1..Len(shards[k])
                              /\ \A n \in 1..Len(shards[k]) : shards[k][n] \in Event
         /\ \A c \in Customers :
               /\ Len(sent[c]) \in Nat /\ Len(scored[c]) \in Nat
               /\ DOMAIN sent[c] = 1..Len(sent[c])
               /\ \A i \in 1..Len(sent[c]) : sent[c][i] \in Event
BY DEF StreamInv, StreamTypes

LEMMA SentWasProduced ==
  ASSUME StreamInv, NEW c \in Customers, NEW i \in 1..Len(sent[c])
  PROVE  sent[c][i].id \in Produced
<1>1. PICK n \in 1..Len(shards[ShardOf[c]]) : shards[ShardOf[c]][n] = sent[c][i]
  BY DEF StreamInv, SentIsCarried
<1>2. sent[c][i].id \in Ids
  BY DEF StreamInv, SentIsCarried
<1>3. ShardOf[c] \in Shards
  BY StreamAssumption
<1>4. n \in DOMAIN shards[ShardOf[c]]
  BY <1>3, SequenceFacts
<1>5. QED
  BY <1>1, <1>2, <1>3, <1>4 DEF Produced

LEMMA RecordWasProduced ==
  ASSUME StreamInv, NEW k \in Shards, NEW n \in 1..Len(shards[k])
  PROVE  shards[k][n].id \in Produced
<1>1. n \in DOMAIN shards[k] /\ shards[k][n].id \in Ids
  BY SequenceFacts, EventFields
<1>2. QED
  BY <1>1 DEF Produced

\* Production and redelivery only lengthen the shards: a consumer keeps its place.
LEMMA PlaceKept ==
  ASSUME StreamInv, NEW k \in Shards, NEW e \in Event,
         shards' = [shards EXCEPT ![k] = Append(@, e)],
         UNCHANGED <<position, memory>>
  PROVE  /\ ReadSoFar' /\ BehindCheckpoint' /\ SeenWasProduced'
         /\ shard' # Idle =>
              1 <= next' /\ next' <= limit' + 1 /\ limit' <= Len(shards'[shard'])
<1> USE DEF StreamInv, StreamTypes, position, memory
<1>1. /\ \A x \in Shards : Len(shards[x]) <= Len(shards'[x])
      /\ \A x \in Shards : \A n \in 1..Len(shards[x]) : shards'[x][n] = shards[x][n]
      /\ \A x \in Shards : Len(shards[x]) \in Nat /\ Len(shards'[x]) \in Nat
      /\ \A x \in Shards : DOMAIN shards'[x] = 1..Len(shards'[x])
  BY AppendAt
<1>2. shard' # Idle =>
        1 <= next' /\ next' <= limit' + 1 /\ limit' <= Len(shards'[shard'])
  BY <1>1
<1>3. ReadSoFar'
  BY <1>1 DEF ReadSoFar
<1>4. BehindCheckpoint'
  BY <1>1 DEF BehindCheckpoint
<1>5. SeenWasProduced'
  <2>1. SUFFICES ASSUME NEW i \in seen PROVE i \in Produced'
    BY DEF SeenWasProduced
  <2>2. PICK x \in Shards : \E n \in DOMAIN shards[x] : shards[x][n].id = i
    BY DEF SeenWasProduced, Produced
  <2>3. PICK n \in 1..Len(shards[x]) : shards[x][n].id = i
    BY <2>2, SequenceFacts
  <2>4. n \in DOMAIN shards'[x] /\ shards'[x][n].id = i
    <3>1. n \in 1..Len(shards'[x])
      BY <1>1, <2>3
    <3>2. QED
      BY <1>1, <2>3, <3>1
  <2>5. QED
    BY <2>4 DEF Produced, SeenWasProduced
<1>6. QED
  BY <1>2, <1>3, <1>4, <1>5

LEMMA PutKeepsInv ==
  ASSUME StreamInv, NEW e \in Event, Put(e) PROVE StreamInv'
<1> DEFINE c == CustomerOf[e.id]
           k == ShardOf[c]
<1> USE DEF StreamInv
<1>1. c \in Customers /\ k \in Shards /\ e.id \in Ids /\ k = ShardFor(e.id)
  BY EventFields
<1>2. /\ shards' = [shards EXCEPT ![k] = Append(@, e)]
      /\ e.id \notin Produced
      /\ UNCHANGED <<position, memory>>
      /\ e.id \in Malformed => sent' = sent
      /\ e.id \notin Malformed => sent' = [sent EXCEPT ![c] = Append(@, e)]
  BY <1>1 DEF Put
<1>3. UNCHANGED <<scored, seen, checkpoints, shard, next, limit>>
  BY <1>2 DEF position, memory
<1>4. shards \in [Shards -> Seq(Event)] /\ sent \in [Customers -> Seq(Event)]
  BY DEF StreamTypes
<1>5. /\ shards' \in [Shards -> Seq(Event)]
      /\ \A x \in Shards : /\ Len(shards[x]) \in Nat /\ Len(shards'[x]) \in Nat
                           /\ Len(shards[x]) <= Len(shards'[x])
      /\ \A x \in Shards : \A n \in 1..Len(shards[x]) : shards'[x][n] = shards[x][n]
      /\ \A x \in Shards : x # k => shards'[x] = shards[x]
      /\ Len(shards'[k]) = Len(shards[k]) + 1
      /\ shards'[k][Len(shards[k]) + 1] = e
  BY <1>1, <1>2, <1>4, AppendAt
<1>6. /\ sent' \in [Customers -> Seq(Event)]
      /\ \A x \in Customers : /\ Len(sent[x]) \in Nat /\ Len(sent'[x]) \in Nat
                              /\ Len(sent[x]) <= Len(sent'[x])
      /\ \A x \in Customers : \A i \in 1..Len(sent[x]) : sent'[x][i] = sent[x][i]
      /\ \A x \in Customers : x # c => sent'[x] = sent[x]
  <2>1. CASE e.id \in Malformed
    BY <1>2, <1>4, <2>1, SequenceFacts
  <2>2. CASE e.id \notin Malformed
    <3>1. sent' = [sent EXCEPT ![c] = Append(@, e)]
      BY <1>2, <2>2
    <3>2. QED
      BY <1>1, <1>4, <3>1, AppendAt
  <2>3. QED
    BY <2>1, <2>2
<1>7. \A x \in Customers : \A i \in 1..Len(sent'[x]) :
         \/ i \in 1..Len(sent[x])
         \/ /\ x = c /\ i = Len(sent[c]) + 1
            /\ sent'[x][i] = e /\ e.id \notin Malformed
  <2>1. CASE e.id \in Malformed
    BY <1>2, <2>1
  <2>2. CASE e.id \notin Malformed
    <3>1. Len(sent'[c]) = Len(sent[c]) + 1 /\ sent'[c][Len(sent[c]) + 1] = e
      BY <1>1, <1>2, <1>4, <2>2, AppendAt
    <3>2. QED
      BY <1>6, <2>2, <3>1
  <2>3. QED
    BY <2>1, <2>2
<1>8. \A x \in Shards : \A n \in 1..Len(shards'[x]) :
         \/ n \in 1..Len(shards[x])
         \/ x = k /\ n = Len(shards[k]) + 1 /\ shards'[x][n] = e
  BY <1>5
<1>9. \A x \in Customers : \A i \in 1..Len(sent[x]) : sent[x][i].id # e.id
  BY <1>2, SentWasProduced
<1>10. \A x \in Shards : \A n \in 1..Len(shards[x]) : shards[x][n].id # e.id
  BY <1>2, RecordWasProduced
<1>11. /\ ReadSoFar' /\ BehindCheckpoint' /\ SeenWasProduced'
       /\ shard' # Idle =>
            1 <= next' /\ next' <= limit' + 1 /\ limit' <= Len(shards'[shard'])
  BY <1>1, <1>2, PlaceKept
<1>12. StreamTypes'
  BY <1>3, <1>5, <1>6, <1>11 DEF StreamTypes
<1>13. SentIsCarried'
  <2>1. SUFFICES ASSUME NEW x \in Customers, NEW i \in 1..Len(sent'[x])
                 PROVE  /\ sent'[x][i].id \in Ids \ Malformed
                        /\ CustomerOf[sent'[x][i].id] = x
                        /\ \E n \in 1..Len(shards'[ShardOf[x]]) :
                              shards'[ShardOf[x]][n] = sent'[x][i]
    BY DEF SentIsCarried
  <2>2. ShardOf[x] \in Shards
    BY StreamAssumption
  <2>3. CASE i \in 1..Len(sent[x])
    <3>1. sent'[x][i] = sent[x][i]
      BY <1>6, <2>3
    <3>2. PICK n \in 1..Len(shards[ShardOf[x]]) : shards[ShardOf[x]][n] = sent[x][i]
      BY <2>3 DEF SentIsCarried
    <3>3. n \in 1..Len(shards'[ShardOf[x]]) /\ shards'[ShardOf[x]][n] = sent'[x][i]
      BY <1>5, <2>2, <3>1, <3>2
    <3>4. QED
      BY <2>3, <3>1, <3>3 DEF SentIsCarried
  <2>4. CASE /\ x = c /\ i = Len(sent[c]) + 1
             /\ sent'[x][i] = e /\ e.id \notin Malformed
    <3>1. Len(shards[k]) + 1 \in 1..Len(shards'[k])
      BY <1>1, <1>5
    <3>2. QED
      BY <1>1, <1>5, <2>4, <3>1
  <2>5. QED
    BY <1>7, <2>3, <2>4
<1>14. SentOnce'
  <2>1. SUFFICES ASSUME NEW x \in Customers, NEW i \in 1..Len(sent'[x]),
                        NEW j \in 1..Len(sent'[x]), sent'[x][i].id = sent'[x][j].id
                 PROVE  i = j
    BY DEF SentOnce
  <2>2. CASE i \in 1..Len(sent[x]) /\ j \in 1..Len(sent[x])
    BY <1>6, <2>1, <2>2 DEF SentOnce
  <2>3. CASE i \notin 1..Len(sent[x]) \/ j \notin 1..Len(sent[x])
    BY <1>6, <1>7, <1>9, <2>1, <2>3
  <2>4. QED
    BY <2>2, <2>3
<1>15. CarriedWasSent'
  <2>1. SUFFICES ASSUME NEW x \in Shards, NEW n \in 1..Len(shards'[x])
                 PROVE  /\ x = ShardFor(shards'[x][n].id)
                        /\ \/ shards'[x][n].id \in Malformed
                           \/ \E i \in 1..Len(sent'[CustomerOf[shards'[x][n].id]]) :
                                sent'[CustomerOf[shards'[x][n].id]][i] = shards'[x][n]
    BY DEF CarriedWasSent, ShardFor
  <2>2. CASE n \in 1..Len(shards[x])
    <3>1. shards'[x][n] = shards[x][n]
      BY <1>5, <2>2
    <3>2. x = ShardFor(shards[x][n].id) /\ CustomerOf[shards[x][n].id] \in Customers
      BY <2>2, SequenceFacts, EventFields DEF CarriedWasSent
    <3>3. ASSUME shards[x][n].id \notin Malformed
          PROVE  \E i \in 1..Len(sent'[CustomerOf[shards[x][n].id]]) :
                    sent'[CustomerOf[shards[x][n].id]][i] = shards[x][n]
      <4>1. PICK i \in 1..Len(sent[CustomerOf[shards[x][n].id]]) :
                    sent[CustomerOf[shards[x][n].id]][i] = shards[x][n]
        BY <2>2, <3>3 DEF CarriedWasSent
      <4>2. QED
        BY <1>6, <3>2, <4>1
    <3>4. QED
      BY <3>1, <3>2, <3>3
  <2>3. CASE x = k /\ n = Len(shards[k]) + 1 /\ shards'[x][n] = e
    <3>1. ASSUME e.id \notin Malformed
          PROVE  Len(sent[c]) + 1 \in 1..Len(sent'[c]) /\ sent'[c][Len(sent[c]) + 1] = e
      BY <1>1, <1>2, <1>4, <1>6, <3>1, AppendAt
    <3>2. QED
      BY <1>1, <2>3, <3>1
  <2>4. QED
    BY <1>8, <2>2, <2>3
<1>16. LaidOut'
  <2>1. SUFFICES ASSUME NEW x \in Customers, NEW i \in 1..Len(sent'[x]),
                        NEW j \in 1..Len(sent'[x]), i < j,
                        NEW n \in 1..Len(shards'[ShardOf[x]]),
                        shards'[ShardOf[x]][n] = sent'[x][j]
                 PROVE  \E m \in 1..(n - 1) : shards'[ShardOf[x]][m] = sent'[x][i]
    BY DEF LaidOut
  <2>2. ShardOf[x] \in Shards
    BY StreamAssumption
  <2>3. i \in 1..Len(sent[x]) /\ sent'[x][i] = sent[x][i]
    BY <1>6, <1>7, <2>1
  <2>4. CASE j \in 1..Len(sent[x])
    <3>1. sent'[x][j] = sent[x][j] /\ sent[x][j].id # e.id
      BY <1>6, <1>9, <2>4
    <3>2. n \in 1..Len(shards[ShardOf[x]])
      BY <1>8, <2>1, <2>2, <3>1
    <3>3. shards[ShardOf[x]][n] = sent[x][j]
      BY <1>5, <2>1, <2>2, <3>1, <3>2
    <3>4. PICK m \in 1..(n - 1) : shards[ShardOf[x]][m] = sent[x][i]
      BY <2>1, <2>3, <2>4, <3>2, <3>3 DEF LaidOut
    <3>5. m \in 1..Len(shards[ShardOf[x]])
      BY <1>5, <2>2, <3>2
    <3>6. shards'[ShardOf[x]][m] = sent'[x][i]
      BY <1>5, <2>2, <2>3, <3>4, <3>5
    <3>7. QED
      BY <3>6
  <2>5. CASE x = c /\ j = Len(sent[c]) + 1 /\ sent'[x][j] = e
    <3>1. n = Len(shards[k]) + 1
      BY <1>1, <1>5, <1>8, <1>10, <2>1, <2>5
    <3>2. PICK m \in 1..Len(shards[k]) : shards[k][m] = sent[x][i]
      BY <2>3, <2>5 DEF SentIsCarried
    <3>3. m \in 1..(n - 1) /\ shards'[k][m] = shards[k][m]
      BY <1>1, <1>5, <3>1, <3>2
    <3>4. QED
      BY <2>3, <2>5, <3>2, <3>3
  <2>6. QED
    BY <1>7, <2>4, <2>5
<1>17. ScoredIsPrefix'
  BY <1>3, <1>6, SequenceFacts DEF ScoredIsPrefix
<1>18. SeenIsScored'
  <2>1. SUFFICES ASSUME NEW x \in Customers, NEW i \in 1..Len(sent'[x])
                 PROVE  sent'[x][i].id \in seen <=> i <= Len(scored[x])
    BY <1>3 DEF SeenIsScored
  <2>2. CASE i \in 1..Len(sent[x])
    BY <1>6, <2>2 DEF SeenIsScored
  <2>3. CASE x = c /\ i = Len(sent[c]) + 1 /\ sent'[x][i] = e
    <3>1. e.id \notin seen
      BY <1>2 DEF SeenWasProduced
    <3>2. Len(scored[c]) <= Len(sent[c]) /\ Len(sent[c]) \in Nat /\ Len(scored[c]) \in Nat
      BY <1>1, SequenceFacts DEF ScoredIsPrefix
    <3>3. QED
      BY <2>3, <3>1, <3>2
  <2>4. QED
    BY <1>7, <2>2, <2>3
<1>19. QED
  BY <1>11, <1>12, <1>13, <1>14, <1>15, <1>16, <1>17, <1>18

LEMMA RedeliverKeepsInv ==
  ASSUME StreamInv, NEW k \in Shards, Redeliver(k) PROVE StreamInv'
<1> USE DEF StreamInv
<1>1. PICK o \in DOMAIN shards[k] : shards' = [shards EXCEPT ![k] = Append(@, shards[k][o])]
  BY DEF Redeliver
<1> DEFINE e == shards[k][o]
<1>2. o \in 1..Len(shards[k]) /\ e \in Event
  BY <1>1, SequenceFacts
<1>3. UNCHANGED <<sent, position, memory>>
  BY DEF Redeliver
<1>4. UNCHANGED <<scored, seen, checkpoints, shard, next, limit>>
  BY <1>3 DEF position, memory
<1>5. /\ shards' \in [Shards -> Seq(Event)]
      /\ \A x \in Shards : /\ Len(shards[x]) \in Nat /\ Len(shards'[x]) \in Nat
                           /\ Len(shards[x]) <= Len(shards'[x])
      /\ \A x \in Shards : \A n \in 1..Len(shards[x]) : shards'[x][n] = shards[x][n]
      /\ \A x \in Shards : x # k => shards'[x] = shards[x]
      /\ Len(shards'[k]) = Len(shards[k]) + 1
      /\ shards'[k][Len(shards[k]) + 1] = e
  BY <1>1, <1>2, AppendAt DEF StreamTypes
<1>6. \A x \in Shards : \A n \in 1..Len(shards'[x]) :
         \/ n \in 1..Len(shards[x]) /\ shards'[x][n] = shards[x][n]
         \/ x = k /\ n = Len(shards[k]) + 1 /\ shards'[x][n] = e
  BY <1>5
<1>7. /\ ReadSoFar' /\ BehindCheckpoint' /\ SeenWasProduced'
      /\ shard' # Idle =>
           1 <= next' /\ next' <= limit' + 1 /\ limit' <= Len(shards'[shard'])
  BY <1>1, <1>2, <1>3, PlaceKept
<1>8. StreamTypes'
  BY <1>3, <1>4, <1>5, <1>7 DEF StreamTypes
<1>9. SentIsCarried'
  <2>1. SUFFICES ASSUME NEW x \in Customers, NEW i \in 1..Len(sent[x])
                 PROVE  /\ sent[x][i].id \in Ids \ Malformed
                        /\ CustomerOf[sent[x][i].id] = x
                        /\ \E n \in 1..Len(shards'[ShardOf[x]]) :
                              shards'[ShardOf[x]][n] = sent[x][i]
    BY <1>3 DEF SentIsCarried
  <2>2. PICK n \in 1..Len(shards[ShardOf[x]]) : shards[ShardOf[x]][n] = sent[x][i]
    BY DEF SentIsCarried
  <2>3. ShardOf[x] \in Shards
    BY StreamAssumption
  <2>4. n \in 1..Len(shards'[ShardOf[x]]) /\ shards'[ShardOf[x]][n] = sent[x][i]
    BY <1>5, <2>2, <2>3
  <2>5. QED
    BY <2>4 DEF SentIsCarried
<1>10. CarriedWasSent'
  <2>1. SUFFICES ASSUME NEW x \in Shards, NEW n \in 1..Len(shards'[x])
                 PROVE  /\ x = ShardFor(shards'[x][n].id)
                        /\ \/ shards'[x][n].id \in Malformed
                           \/ \E i \in 1..Len(sent[CustomerOf[shards'[x][n].id]]) :
                                sent[CustomerOf[shards'[x][n].id]][i] = shards'[x][n]
    BY <1>3 DEF CarriedWasSent, ShardFor
  <2>2. PICK m \in 1..Len(shards[x]) : shards'[x][n] = shards[x][m]
    BY <1>2, <1>6
  <2>3. /\ x = ShardFor(shards[x][m].id)
        /\ \/ shards[x][m].id \in Malformed
           \/ \E i \in 1..Len(sent[CustomerOf[shards[x][m].id]]) :
                 sent[CustomerOf[shards[x][m].id]][i] = shards[x][m]
    BY DEF CarriedWasSent
  <2>4. QED
    BY <2>2, <2>3
<1>11. LaidOut'
  <2>1. SUFFICES ASSUME NEW c \in Customers, NEW i \in 1..Len(sent'[c]),
                        NEW j \in 1..Len(sent'[c]), i < j,
                        NEW n \in 1..Len(shards'[ShardOf[c]]),
                        shards'[ShardOf[c]][n] = sent'[c][j]
                 PROVE  \E m \in 1..(n - 1) : shards'[ShardOf[c]][m] = sent'[c][i]
    BY DEF LaidOut
  <2>2. ShardOf[c] \in Shards /\ sent' = sent
    BY <1>3, StreamAssumption
  <2>3. PICK p \in 1..Len(shards[ShardOf[c]]) :
              p <= n /\ shards[ShardOf[c]][p] = shards'[ShardOf[c]][n]
    <3>1. CASE n \in 1..Len(shards[ShardOf[c]])
      BY <1>5, <2>2, <3>1
    <3>2. CASE ShardOf[c] = k /\ n = Len(shards[k]) + 1 /\ shards'[k][n] = e
      BY <1>2, <2>2, <3>2
    <3>3. QED
      BY <1>6, <2>2, <3>1, <3>2
  <2>4. PICK m \in 1..(p - 1) : shards[ShardOf[c]][m] = sent[c][i]
    BY <2>1, <2>2, <2>3 DEF LaidOut
  <2>5. m \in 1..Len(shards[ShardOf[c]]) /\ m \in 1..(n - 1)
    BY <1>5, <2>2, <2>3, <2>4
  <2>6. shards'[ShardOf[c]][m] = sent'[c][i]
    BY <1>5, <2>2, <2>4, <2>5
  <2>7. QED
    BY <2>5, <2>6
<1>12. SentOnce' /\ ScoredIsPrefix' /\ SeenIsScored'
  BY <1>3, <1>4 DEF SentOnce, ScoredIsPrefix, SeenIsScored
<1>13. QED
  BY <1>7, <1>8, <1>9, <1>10, <1>11, <1>12

-----------------------------------------------------------------------------
\* The consumer's steps

\* What a record the consumer has not seen is to its customer: the next one to score.
LEMMA NextToScore ==
  ASSUME StreamInv, NEW e \in Event, Reading(e), e.id \notin seen,
         e.id \notin Malformed
  PROVE  /\ Len(scored[CustomerOf[e.id]]) < Len(sent[CustomerOf[e.id]])
         /\ e = sent[CustomerOf[e.id]][Len(scored[CustomerOf[e.id]]) + 1]
<1> DEFINE c == CustomerOf[e.id]
           k == ShardOf[c]
<1> USE DEF StreamInv
<1>1. /\ shard \in Shards /\ next \in 1..Len(shards[shard])
      /\ shards[shard][next] = e /\ shard # Idle /\ next \in Nat
  BY SequenceFacts DEF Reading, StreamTypes
<1>2. c \in Customers /\ shard = k
  BY <1>1, EventFields DEF CarriedWasSent
<1>3. PICK j \in 1..Len(sent[c]) : sent[c][j] = e
  BY <1>1 DEF CarriedWasSent
<1>4. Len(scored[c]) \in Nat /\ Len(sent[c]) \in Nat
  BY <1>2, SequenceFacts
<1>5. j > Len(scored[c])
  BY <1>2, <1>3, <1>4 DEF SeenIsScored
<1>6. ASSUME j > Len(scored[c]) + 1 PROVE FALSE
  <2>1. DEFINE i == Len(scored[c]) + 1
  <2>2. i \in 1..Len(sent[c]) /\ i < j
    BY <1>4, <1>6
  <2>3. PICK m \in 1..(next - 1) : shards[k][m] = sent[c][i]
    <3>1. next \in 1..Len(shards[k]) /\ shards[k][next] = sent[c][j]
      BY <1>1, <1>2, <1>3
    <3>2. QED
      BY <1>2, <2>2, <3>1 DEF LaidOut
  <2>4. sent[c][i].id \in seen
    BY <1>1, <1>2, <2>3 DEF ReadSoFar
  <2>5. i <= Len(scored[c])
    BY <1>2, <2>2, <2>4 DEF SeenIsScored
  <2>6. QED
    BY <1>4, <2>5
<1>7. j = Len(scored[c]) + 1
  BY <1>4, <1>5, <1>6
<1>8. QED
  BY <1>3, <1>4, <1>7

LEMMA SameLayout ==
  ASSUME LaidOut, UNCHANGED <<shards, sent>> PROVE LaidOut'
<1>1. SUFFICES ASSUME NEW c \in Customers, NEW i \in 1..Len(sent'[c]),
                      NEW j \in 1..Len(sent'[c]), i < j,
                      NEW n \in 1..Len(shards'[ShardOf[c]]),
                      shards'[ShardOf[c]][n] = sent'[c][j]
               PROVE  \E m \in 1..(n - 1) : shards'[ShardOf[c]][m] = sent'[c][i]
  BY DEF LaidOut
<1>2. QED
  BY <1>1 DEF LaidOut

\* A step that moves the consumer's place only.
LEMMA MoveKeepsInv ==
  ASSUME StreamInv, UNCHANGED <<shards, sent, scored, seen, checkpoints>>,
         shard' \in Shards \cup {Idle}, next' \in Nat, limit' \in Nat,
         shard' # Idle =>
            /\ 1 <= next' /\ next' <= limit' + 1 /\ limit' <= Len(shards[shard'])
            /\ \A n \in 1..(next' - 1) : shards[shard'][n].id \in seen
  PROVE  StreamInv'
<1> USE DEF StreamInv
<1>1. StreamTypes' /\ ReadSoFar'
  BY DEF StreamTypes, ReadSoFar
<1>2. SentIsCarried' /\ SentOnce' /\ CarriedWasSent'
  BY DEF SentIsCarried, SentOnce, CarriedWasSent
<1>3. ScoredIsPrefix' /\ SeenIsScored' /\ SeenWasProduced' /\ BehindCheckpoint'
  BY DEF ScoredIsPrefix, SeenIsScored, SeenWasProduced, BehindCheckpoint, Produced
<1>4. LaidOut'
  BY SameLayout
<1>5. QED
  BY <1>1, <1>2, <1>3, <1>4

LEMMA ReadShardKeepsInv ==
  ASSUME StreamInv, NEW k \in Shards, ReadShard(k), UNCHANGED <<stream, memory>>
  PROVE  StreamInv'
<1>1. UNCHANGED <<shards, sent, scored, seen, checkpoints>>
  BY DEF stream, memory
<1>2. shard' = k /\ next' = 1 /\ limit' = Len(shards[k]) /\ Len(shards[k]) \in Nat
  BY SequenceFacts DEF ReadShard
<1>3. QED
  BY <1>1, <1>2, MoveKeepsInv

LEMMA BreakOffKeepsInv ==
  ASSUME StreamInv, BreakOff, UNCHANGED <<stream, memory>>
  PROVE  StreamInv'
<1>1. UNCHANGED <<shards, sent, scored, seen, checkpoints>>
  BY DEF stream, memory
<1>2. QED
  BY <1>1, MoveKeepsInv DEF BreakOff

LEMMA DropDuplicateKeepsInv ==
  ASSUME StreamInv, NEW e \in Event, DropDuplicate(e) PROVE StreamInv'
<1>1. UNCHANGED <<shards, sent, scored, seen, checkpoints, shard, limit>>
  BY DEF DropDuplicate, stream, memory
<1>2. /\ shard \in Shards \cup {Idle} /\ next \in Nat /\ limit \in Nat
      /\ shard # Idle /\ next <= limit /\ limit <= Len(shards[shard])
      /\ 1 <= next /\ next' = next + 1
      /\ shards[shard][next].id \in seen
  BY DEF DropDuplicate, Reading, StreamInv, StreamTypes
<1>3. \A n \in 1..(next' - 1) : shards[shard][n].id \in seen
  BY <1>2 DEF StreamInv, ReadSoFar
<1>4. QED
  BY <1>1, <1>2, <1>3, MoveKeepsInv

\* What both outcomes of an unseen record have in common.
LEMMA SeenGrows ==
  ASSUME StreamInv, NEW e \in Event, Reading(e), seen' = seen \cup {e.id},
         UNCHANGED <<shards, sent>>
  PROVE  /\ SentIsCarried' /\ SentOnce' /\ CarriedWasSent' /\ LaidOut'
         /\ SeenWasProduced' /\ seen' \subseteq Ids
<1> USE DEF StreamInv
<1>1. SentIsCarried' /\ SentOnce' /\ CarriedWasSent'
  BY DEF SentIsCarried, SentOnce, CarriedWasSent
<1>2. LaidOut'
  BY SameLayout
<1>3. shard \in Shards /\ next \in 1..Len(shards[shard]) /\ e = shards[shard][next]
  BY SequenceFacts DEF Reading, StreamTypes
<1>4. e.id \in Produced /\ Produced' = Produced
  BY <1>3, RecordWasProduced DEF Produced
<1>5. SeenWasProduced' /\ seen' \subseteq Ids
  BY <1>4 DEF SeenWasProduced, Produced
<1>6. QED
  BY <1>1, <1>2, <1>5

LEMMA ProcessRaisesKeepsInv ==
  ASSUME StreamInv, NEW e \in Event, ProcessRaises(e) PROVE StreamInv'
<1> USE DEF StreamInv
<1>1. /\ UNCHANGED <<shards, sent, scored, checkpoints>>
      /\ seen' = seen \cup {e.id} /\ e.id \in Malformed /\ Reading(e)
      /\ shard' = Idle /\ next' = 0 /\ limit' = 0
  BY DEF ProcessRaises, See, BreakOff, stream
<1>2. /\ SentIsCarried' /\ SentOnce' /\ CarriedWasSent' /\ LaidOut'
      /\ SeenWasProduced' /\ seen' \subseteq Ids
  BY <1>1, SeenGrows
<1>3. StreamTypes' /\ ReadSoFar'
  BY <1>1, <1>2 DEF StreamTypes, ReadSoFar
<1>4. ScoredIsPrefix' /\ BehindCheckpoint'
  BY <1>1 DEF ScoredIsPrefix, BehindCheckpoint
<1>5. SeenIsScored'
  <2>1. \A c \in Customers : \A i \in 1..Len(sent[c]) : sent[c][i].id # e.id
    BY <1>1 DEF SentIsCarried
  <2>2. QED
    BY <1>1, <2>1 DEF SeenIsScored
<1>6. QED
  BY <1>2, <1>3, <1>4, <1>5

LEMMA ProcessKeepsInv ==
  ASSUME StreamInv, NEW e \in Event, Process(e) PROVE StreamInv'
<1> DEFINE c == CustomerOf[e.id]
           l == Len(scored[c])
<1> USE DEF StreamInv
<1>1. /\ UNCHANGED <<shards, sent, shard, limit>>
      /\ Reading(e) /\ e.id \notin seen /\ e.id \notin Malformed
      /\ seen' = seen \cup {e.id}
      /\ scored' = [scored EXCEPT ![c] = Append(@, e)]
      /\ checkpoints' = [checkpoints EXCEPT ![shard] = next]
      /\ next' = next + 1
  BY DEF Process, See, Checkpoint, stream
<1>2. c \in Customers
  BY EventFields
<1>3. l < Len(sent[c]) /\ e = sent[c][l + 1]
  BY <1>1, NextToScore
<1>4. /\ shard \in Shards /\ shard # Idle /\ next \in Nat /\ limit \in Nat
      /\ 1 <= next /\ next <= limit /\ limit <= Len(shards[shard])
      /\ e = shards[shard][next] /\ Len(shards[shard]) \in Nat
  BY <1>1, SequenceFacts DEF Reading, StreamTypes
<1>5. /\ scored' \in [Customers -> Seq(Event)]
      /\ \A x \in Customers : x # c => scored'[x] = scored[x]
      /\ \A n \in 1..l : scored'[c][n] = scored[c][n]
      /\ Len(scored'[c]) = l + 1 /\ scored'[c][l + 1] = e
      /\ \A x \in Customers : Len(scored[x]) \in Nat /\ Len(scored'[x]) \in Nat
  BY <1>1, <1>2, AppendAt DEF StreamTypes
<1>6. /\ SentIsCarried' /\ SentOnce' /\ CarriedWasSent' /\ LaidOut'
      /\ SeenWasProduced' /\ seen' \subseteq Ids
  BY <1>1, SeenGrows
<1>7. StreamTypes'
  BY <1>1, <1>4, <1>5, <1>6 DEF StreamTypes
<1>8. ReadSoFar'
  BY <1>1, <1>4 DEF ReadSoFar
<1>9. BehindCheckpoint'
  <2>1. /\ checkpoints'[shard] = next
        /\ \A x \in Shards : x # shard => checkpoints'[x] = checkpoints[x]
    BY <1>1, <1>4 DEF StreamTypes
  <2>2. \A n \in 1..next : shards[shard][n].id \in seen'
    BY <1>1, <1>4 DEF ReadSoFar
  <2>3. QED
    BY <1>1, <1>4, <2>1, <2>2 DEF BehindCheckpoint
<1>10. ScoredIsPrefix'
  <2>1. SUFFICES ASSUME NEW x \in Customers
                 PROVE  /\ Len(scored'[x]) <= Len(sent[x])
                        /\ \A i \in 1..Len(scored'[x]) : scored'[x][i] = sent[x][i]
    BY <1>1 DEF ScoredIsPrefix
  <2>2. CASE x # c
    BY <1>5, <2>2 DEF ScoredIsPrefix
  <2>3. CASE x = c
    <3>1. Len(scored'[c]) <= Len(sent[c])
      BY <1>2, <1>3, <1>5, SequenceFacts
    <3>2. ASSUME NEW i \in 1..(l + 1) PROVE scored'[c][i] = sent[c][i]
      <4>1. i \in 1..l \/ i = l + 1
        BY <1>2, <1>5
      <4>2. QED
        BY <1>2, <1>3, <1>5, <4>1 DEF ScoredIsPrefix
    <3>3. QED
      BY <1>5, <2>3, <3>1, <3>2
  <2>4. QED
    BY <2>2, <2>3
<1>11. SeenIsScored'
  <2>1. SUFFICES ASSUME NEW x \in Customers, NEW i \in 1..Len(sent[x])
                 PROVE  sent[x][i].id \in seen' <=> i <= Len(scored'[x])
    BY <1>1 DEF SeenIsScored
  <2>2. CASE x # c
    <3>1. sent[x][i].id # e.id
      BY <2>2 DEF SentIsCarried
    <3>2. QED
      BY <1>1, <1>5, <2>2, <3>1 DEF SeenIsScored
  <2>3. CASE x = c
    <3>1. l + 1 \in 1..Len(sent[c])
      BY <1>2, <1>3, <1>5, SequenceFacts
    <3>2. sent[c][i].id = e.id <=> i = l + 1
      BY <1>2, <1>3, <2>3, <3>1 DEF SentOnce
    <3>3. sent[c][i].id \in seen <=> i <= l
      BY <1>2, <2>3 DEF SeenIsScored
    <3>4. QED
      BY <1>1, <1>2, <1>5, <2>3, <3>2, <3>3
  <2>4. QED
    BY <2>2, <2>3
<1>12. QED
  BY <1>6, <1>7, <1>8, <1>9, <1>10, <1>11

-----------------------------------------------------------------------------
\* The invariant

LEMMA StreamInitInv == Init => StreamInv
<1> SUFFICES ASSUME Init PROVE StreamInv
  OBVIOUS
<1> USE DEF Init
<1>1. \A S : <<>> \in Seq(S) /\ Len(<<>>) = 0
  BY EmptySeq
<1>2. StreamTypes
  BY <1>1 DEF StreamTypes, Idle
<1>3. /\ \A k \in Shards : Len(shards[k]) = 0
      /\ \A c \in Customers : Len(sent[c]) = 0 /\ Len(scored[c]) = 0
  BY <1>1
<1>4. SentIsCarried /\ SentOnce /\ CarriedWasSent /\ LaidOut
  BY <1>3 DEF SentIsCarried, SentOnce, CarriedWasSent, LaidOut
<1>5. ScoredIsPrefix /\ SeenIsScored /\ SeenWasProduced
  BY <1>3 DEF ScoredIsPrefix, SeenIsScored, SeenWasProduced
<1>6. ReadSoFar /\ BehindCheckpoint
  BY <1>3 DEF ReadSoFar, BehindCheckpoint
<1>7. QED
  BY <1>2, <1>4, <1>5, <1>6 DEF StreamInv

LEMMA StreamStepInv ==
  ASSUME StreamInv, [Next]_vars PROVE StreamInv'
<1>1. ASSUME NEW e \in Event, Put(e) PROVE StreamInv'
  BY <1>1, PutKeepsInv
<1>2. ASSUME NEW k \in Shards, Redeliver(k) PROVE StreamInv'
  BY <1>2, RedeliverKeepsInv
<1>3. CASE Consume
  <2>1. 0 \in Shards
    BY StreamAssumption DEF Shards
  <2>2. QED
    BY <1>3, <2>1, ReadShardKeepsInv DEF Consume
<1>4. CASE NextShard
  BY <1>4, ReadShardKeepsInv DEF NextShard
<1>5. CASE Return
  BY <1>5, BreakOffKeepsInv DEF Return
<1>6. ASSUME NEW e \in Event, DropDuplicate(e) PROVE StreamInv'
  BY <1>6, DropDuplicateKeepsInv
<1>7. ASSUME NEW e \in Event, Process(e) PROVE StreamInv'
  BY <1>7, ProcessKeepsInv
<1>8. ASSUME NEW e \in Event, ProcessRaises(e) PROVE StreamInv'
  BY <1>8, ProcessRaisesKeepsInv
<1>9. CASE UNCHANGED vars
  <2>1. UNCHANGED <<shards, sent, scored, seen, checkpoints, shard, next, limit>>
    BY <1>9 DEF vars, stream, position, memory
  <2>2. QED
    BY <2>1, MoveKeepsInv DEF StreamInv, StreamTypes, ReadSoFar
<1>10. QED
  BY <1>1, <1>2, <1>3, <1>4, <1>5, <1>6, <1>7, <1>8, <1>9 DEF Next, ConsumerStep

THEOREM StreamInvariant == Spec => []StreamInv
<1>1. Init => StreamInv
  BY StreamInitInv
<1>2. StreamInv /\ [Next]_vars => StreamInv'
  BY StreamStepInv
<1>3. QED
  BY <1>1, <1>2, PTL DEF Spec

-----------------------------------------------------------------------------
\* consumer.py: "checkpoints the last processed sequence number per shard": whatever
\* the stream delivers again and whichever events make a pass break off, everything
\* up to a checkpoint is either malformed or scored.
THEOREM CheckpointCoversHolds == Spec => []CheckpointCovers
<1>1. ASSUME StreamInv PROVE CheckpointCovers
  <2> USE <1>1 DEF StreamInv
  <2>1. SUFFICES ASSUME NEW k \in Shards, NEW n \in 1..checkpoints[k],
                        shards[k][n].id \notin Malformed
                 PROVE  Contains(scored[CustomerOf[shards[k][n].id]], shards[k][n])
    BY DEF CheckpointCovers
  <2> DEFINE e == shards[k][n]
             c == CustomerOf[e.id]
  <2>2. n \in 1..Len(shards[k]) /\ e.id \in seen
    BY SequenceFacts DEF BehindCheckpoint, StreamTypes
  <2>3. c \in Customers
    BY <2>2, SequenceFacts, EventFields
  <2>4. PICK i \in 1..Len(sent[c]) : sent[c][i] = e
    BY <2>1, <2>2 DEF CarriedWasSent
  <2>5. i \in 1..Len(scored[c])
    BY <2>2, <2>3, <2>4, SequenceFacts DEF SeenIsScored
  <2>6. scored[c][i] = e
    BY <2>3, <2>4, <2>5 DEF ScoredIsPrefix
  <2>7. QED
    BY <2>5, <2>6 DEF Contains
<1>2. QED
  BY <1>1, StreamInvariant, PTL

-----------------------------------------------------------------------------
\* Each step is one of the feed's, or leaves it as it was.
LEMMA StepOfFeed ==
  ASSUME StreamInv, [Next]_vars PROVE [Feed!Next]_Feed!feedVars
<1>1. ASSUME NEW e \in Event, Put(e) PROVE [Feed!Next]_Feed!feedVars
  <2>1. scored' = scored /\ e.id \in Ids /\ e.id \notin Produced
    BY <1>1, EventFields DEF Put, memory
  <2>2. CASE e.id \in Malformed
    BY <1>1, <2>1, <2>2 DEF Put, Feed!feedVars
  <2>3. CASE e.id \notin Malformed
    <3>1. \A c \in Customers : \A n \in DOMAIN sent[c] : sent[c][n].id # e.id
      BY <2>1, SentWasProduced, SequenceFacts
    <3>2. Feed!Produce(e)
      BY <1>1, <2>1, <2>3, <3>1 DEF Put, Feed!Produce
    <3>3. QED
      BY <3>2 DEF Feed!Next
  <2>4. QED
    BY <2>2, <2>3
<1>2. ASSUME NEW e \in Event, Process(e) PROVE [Feed!Next]_Feed!feedVars
  <2> DEFINE c == CustomerOf[e.id]
  <2>1. c \in Customers
    BY EventFields
  <2>2. Len(scored[c]) < Len(sent[c]) /\ e = sent[c][Len(scored[c]) + 1]
    BY <1>2, NextToScore DEF Process
  <2>3. sent' = sent /\ scored' = [scored EXCEPT ![c] = Append(@, e)]
    BY <1>2 DEF Process, stream
  <2>4. Feed!Score(c)
    BY <2>2, <2>3 DEF Feed!Score
  <2>5. QED
    BY <2>1, <2>4 DEF Feed!Next
<1>3. ASSUME UNCHANGED <<stream, memory>> PROVE [Feed!Next]_Feed!feedVars
  BY <1>3 DEF stream, memory, Feed!feedVars
<1>4. ASSUME NEW k \in Shards, Redeliver(k) PROVE [Feed!Next]_Feed!feedVars
  BY <1>4 DEF Redeliver, memory, Feed!feedVars
<1>5. ASSUME NEW e \in Event, ProcessRaises(e) PROVE [Feed!Next]_Feed!feedVars
  BY <1>5 DEF ProcessRaises, stream, Feed!feedVars
<1>6. CASE Consume \/ NextShard \/ Return
  BY <1>3, <1>6 DEF Consume, NextShard, Return
<1>7. ASSUME NEW e \in Event, DropDuplicate(e) PROVE [Feed!Next]_Feed!feedVars
  BY <1>3, <1>7 DEF DropDuplicate
<1>8. CASE UNCHANGED vars
  BY <1>3, <1>8 DEF vars
<1>9. QED
  BY <1>1, <1>2, <1>4, <1>5, <1>6, <1>7, <1>8 DEF Next, ConsumerStep

\* consumer.py: "de-duplicates using the transaction_id (at-least-once -> once)", and
\* events.py: the partition key preserves "per-customer ordering": each customer's
\* events are scored in the order produced and none of them twice, for any number of
\* shards, customers and redeliveries and whichever events raise.  (The safety part
\* of FeedSpec; that each event is scored in the end needs fairness.)
THEOREM ImplementsFeed == Spec => Feed!Init /\ [][Feed!Next]_Feed!feedVars
<1>1. Init => Feed!Init
  BY DEF Init, Feed!Init
<1>2. StreamInv /\ [Next]_vars => [Feed!Next]_Feed!feedVars
  BY StepOfFeed
<1>3. QED
  BY <1>1, <1>2, StreamInvariant, PTL DEF Spec

-----------------------------------------------------------------------------
\* What the detector remembers of a customer, against what was scored for it.

DetectorTypes ==
    /\ recent \in [Customers -> Seq(Times)]
    /\ lastLocation \in [Customers -> [ts : {0} \cup Times, city : Cities]]
    /\ alerts \subseteq Ids \X Rules

\* last is the place of the last of the newest events of s; none without events.
IsBaselineOf(last, s) ==
    IF Len(s) = 0
      THEN last.ts = 0
      ELSE \E m \in 1..Len(s) :
              LastNewest(s, m) /\ last = [ts |-> s[m].ts, city |-> s[m].city]

BaselineInv == \A c \in Customers : IsBaselineOf(lastLocation[c], scored[c])

\* window holds the times of the last events of s, and those before them are too old.
IsWindowOf(window, s) ==
    /\ Len(window) <= Len(s)
    /\ \A j \in 1..Len(window) : window[j] = s[Len(s) - Len(window) + j].ts
    /\ \A i \in 1..(Len(s) - Len(window)) : s[i].ts < s[Len(s)].ts - VelocityWindow

WindowInv ==
    \A c \in Customers : InOrder(scored[c]) => IsWindowOf(recent[c], scored[c])

\* An alert is about an event that has been looked at.
AlertsSeen == \A a \in alerts : a[1] \in seen

DetectorInv == DetectorTypes /\ BaselineInv /\ WindowInv /\ AlertsSeen /\ AlertsExact

-----------------------------------------------------------------------------
\* Where a pass meets an event first, and that it meets one event before another.

FirstAt(x, k, n) ==
    /\ k \in Shards /\ n \in 1..Len(shards[k]) /\ shards[k][n].id = x
    /\ \A m \in 1..(n - 1) : shards[k][m].id # x



Before(x, y) ==
    \E k, l \in Shards : \E n \in 1..Len(shards[k]) : \E m \in 1..Len(shards[l]) :
        /\ FirstAt(x, k, n) /\ FirstAt(y, l, m)
        /\ k < l \/ (k = l /\ n < m)

AlertSets ==
    /\ result \subseteq alerts /\ returned \subseteq alerts
    /\ result \cap returned = {}
    /\ shard = Idle => result = {}

\* This pass has met the events of the alerts it has collected.
CollectedWasMet ==
    \A a \in result : \E k \in Shards : \E n \in 1..Len(shards[k]) :
        FirstAt(a[1], k, n) /\ (k < shard \/ (k = shard /\ n < next))

LostBeforeMalformed ==
    \A a \in alerts \ (result \cup returned) : \E m \in Malformed \cap seen : Before(a[1], m)

\* The records are as many as the events produced and the copies made of them.
Counted ==
    /\ copies \in 0..MaxCopies
    /\ IsFiniteSet(Produced)
    /\ \A k \in Shards : Len(shards[k]) <= Cardinality(Produced) + copies

HandedInv == AlertSets /\ CollectedWasMet /\ LostBeforeMalformed /\ Counted

-----------------------------------------------------------------------------
\* The detector

LEMMA LeastOf ==
  ASSUME NEW T, T \subseteq Nat, T # {}
  PROVE  \E x \in T : \A y \in T : x <= y
<1> DEFINE R == OpToRel(<, Nat)
<1>1. IsWellFoundedOn(R, Nat)
  BY NatLessThanWellFounded
<1>2. PICK x \in T : \A y \in T : <<y, x>> \notin R
  <2> HIDE DEF R
  <2>1. QED
    BY <1>1, WFMin
<1>3. \A y \in T : ~(y < x)
  BY <1>2 DEF OpToRel
<1>4. QED
  BY <1>3

\* What rolling a window to its last time leaves: its end, from the first entry on
\* that is not too old.
LEMMA RolledWindow ==
  ASSUME NEW window \in Seq(Times), Len(window) > 0, NEW ts, ts = window[Len(window)]
  PROVE  \E f \in 1..Len(window) :
            /\ Rolled(window, ts) \in Seq(Times)
            /\ Len(Rolled(window, ts)) = Len(window) - f + 1
            /\ \A j \in 1..(Len(window) - f + 1) : Rolled(window, ts)[j] = window[f + j - 1]
            /\ window[f] >= ts - VelocityWindow
            /\ \A j \in 1..(f - 1) : window[j] < ts - VelocityWindow
<1> DEFINE kept == {i \in DOMAIN window : window[i] >= ts - VelocityWindow}
           first == CHOOSE i \in kept : \A j \in kept : i <= j
<1>1. /\ Len(window) \in Nat /\ DOMAIN window = 1..Len(window)
      /\ \A i \in 1..Len(window) : window[i] \in Int
  BY DetectorAssumption DEF Times
<1>2. Len(window) \in kept
  BY <1>1, DetectorAssumption
<1>3. kept \subseteq Nat /\ kept # {}
  BY <1>1, <1>2
<1>4. \E i \in kept : \A j \in kept : i <= j
  <2> HIDE DEF kept
  <2>1. QED
    BY <1>3, LeastOf
<1>5. first \in kept /\ \A j \in kept : first <= j
  <2> HIDE DEF kept
  <2>1. QED
    BY <1>4
<1>6. Rolled(window, ts) = SubSeq(window, first, Len(window))
  BY DEF Rolled
<1> HIDE DEF first
<1>7. first \in 1..Len(window) /\ window[first] >= ts - VelocityWindow
  BY <1>1, <1>5
<1>8. \A j \in 1..(first - 1) : window[j] < ts - VelocityWindow
  <2>1. SUFFICES ASSUME NEW j \in 1..(first - 1), ~(window[j] < ts - VelocityWindow)
                 PROVE  FALSE
    OBVIOUS
  <2>2. j \in 1..Len(window) /\ window[j] \in Int /\ ts \in Int
    BY <1>1, <1>7
  <2>3. j \in kept
    BY <1>1, <2>1, <2>2, DetectorAssumption
  <2>4. QED
    BY <1>5, <1>7, <2>3
<1>9. \A i \in first..Len(window) : window[i] \in Times
  BY <1>7
<1>10. /\ SubSeq(window, first, Len(window)) \in Seq(Times)
       /\ Len(SubSeq(window, first, Len(window))) = Len(window) - first + 1
       /\ \A j \in 1..(Len(window) - first + 1) :
             SubSeq(window, first, Len(window))[j] = window[first + j - 1]
  BY <1>1, <1>7, <1>9, SubSeqProperties
<1>11. QED
  BY <1>6, <1>7, <1>8, <1>10

\* For events in order, rolling the window after each makes it the window that ends at
\* the last event, and its length their number.
LEMMA WindowStep ==
  ASSUME NEW s \in Seq(Event), NEW e \in Event, NEW r \in Seq(Times),
         NEW t \in Seq(Event), Len(t) = Len(s) + 1, t[Len(s) + 1] = e,
         \A i \in 1..Len(s) : t[i] = s[i],
         InOrder(t), IsWindowOf(r, s)
  PROVE  /\ IsWindowOf(Rolled(Append(r, e.ts), e.ts), t)
         /\ Len(Rolled(Append(r, e.ts), e.ts))
              = Cardinality({i \in 1..Len(t) : t[i].ts >= t[Len(t)].ts - VelocityWindow})
<1> DEFINE w == Append(r, e.ts)
           q == Rolled(w, e.ts)
           l == Len(s)
           ln == Len(r)
<1>1. /\ e.ts \in Times /\ l \in Nat /\ ln \in Nat
      /\ DOMAIN t = 1..(l + 1) /\ Len(t) = l + 1
      /\ \A i \in 1..(l + 1) : t[i].ts \in Nat
      /\ VelocityWindow \in Nat /\ e.ts \in Nat /\ e.ts - VelocityWindow \in Int
  <2>1. l \in Nat /\ ln \in Nat /\ DOMAIN t = 1..(l + 1) /\ Len(t) = l + 1
    OBVIOUS
  <2>2. \A x \in Event : x.ts \in Times /\ x.ts \in Nat
    BY StreamAssumption, DetectorAssumption DEF Times
  <2>3. \A i \in 1..(l + 1) : t[i] \in Event
    BY <2>1
  <2>4. QED
    BY <2>1, <2>2, <2>3, DetectorAssumption
<1>2. /\ w \in Seq(Times) /\ Len(w) = ln + 1 /\ w[ln + 1] = e.ts
      /\ \A j \in 1..ln : w[j] = r[j]
  BY <1>1, AppendProperties
<1>3. PICK f \in 1..(ln + 1) :
        /\ q \in Seq(Times)
        /\ Len(q) = ln + 1 - f + 1
        /\ \A j \in 1..(ln + 1 - f + 1) : q[j] = w[f + j - 1]
        /\ w[f] >= e.ts - VelocityWindow
        /\ \A j \in 1..(f - 1) : w[j] < e.ts - VelocityWindow
  <2> HIDE DEF w
  <2>1. Len(w) > 0 /\ e.ts = w[Len(w)] /\ w \in Seq(Times) /\ Len(w) = ln + 1
    BY <1>1, <1>2
  <2> HIDE DEF ln
  <2>2. PICK f \in 1..Len(w) :
            /\ Rolled(w, e.ts) \in Seq(Times)
            /\ Len(Rolled(w, e.ts)) = Len(w) - f + 1
            /\ \A j \in 1..(Len(w) - f + 1) : Rolled(w, e.ts)[j] = w[f + j - 1]
            /\ w[f] >= e.ts - VelocityWindow
            /\ \A j \in 1..(f - 1) : w[j] < e.ts - VelocityWindow
    BY <2>1, RolledWindow
  <2>3. f \in 1..(ln + 1)
    BY <2>1, <2>2
  <2>4. Len(q) = ln + 1 - f + 1 /\ \A j \in 1..(ln + 1 - f + 1) : q[j] = w[f + j - 1]
    <3>1. q = Rolled(w, e.ts) /\ ln \in Nat
      BY <1>1
    <3> HIDE DEF q, w
    <3>2. Len(w) - f + 1 = ln + 1 - f + 1
      BY <2>1, <3>1
    <3>3. QED
      BY <2>2, <3>1, <3>2
  <2>5. QED
    BY <2>2, <2>3, <2>4
<1> HIDE DEF w, q
<1>4. /\ ln <= l
      /\ \A j \in 1..ln : r[j] = s[l - ln + j].ts
      /\ \A i \in 1..(l - ln) : s[i].ts < s[l].ts - VelocityWindow
  BY DEF IsWindowOf
<1>5. \A i, j \in 1..(l + 1) : i < j => t[i].ts <= t[j].ts
  BY <1>1 DEF InOrder
\* The place in t of the entry j of w.
<1>6. \A j \in 1..(ln + 1) : w[j] = t[l - ln + j].ts
  <2>1. SUFFICES ASSUME NEW j \in 1..(ln + 1) PROVE w[j] = t[l - ln + j].ts
    OBVIOUS
  <2>2. CASE j \in 1..ln
    <3>1. l - ln + j \in 1..l
      BY <1>1, <1>4, <2>2
    <3>2. QED
      BY <1>2, <1>4, <2>2, <3>1
  <2>3. CASE j = ln + 1
    <3>1. l - ln + j = l + 1
      BY <1>1, <2>3
    <3>2. QED
      BY <1>2, <2>3, <3>1
  <2>4. QED
    BY <1>1, <2>2, <2>3
\* The first place in t that the window keeps.
<1>7. DEFINE g == l - ln + f
<1>8. g \in 1..(l + 1) /\ t[l + 1].ts = e.ts
  BY <1>1, <1>3, <1>4
<1>9. \A i \in 1..(l + 1) : t[i].ts >= e.ts - VelocityWindow <=> i >= g
  <2>1. SUFFICES ASSUME NEW i \in 1..(l + 1)
                 PROVE  t[i].ts >= e.ts - VelocityWindow <=> i >= g
    OBVIOUS
  <2>2. t[g].ts >= e.ts - VelocityWindow
    BY <1>3, <1>6
  <2>3. CASE i >= g
    <3>1. t[g].ts \in Nat /\ t[i].ts \in Nat /\ g \in Nat
      BY <1>1, <1>8
    <3>2. t[g].ts <= t[i].ts
      <4> HIDE DEF g
      <4>1. CASE i = g
        BY <3>1, <4>1
      <4>2. CASE i # g
        <5>1. g < i
          BY <2>3, <3>1, <4>2
        <5>2. QED
          BY <1>5, <1>8, <5>1
      <4>3. QED
        BY <4>1, <4>2
    <3>3. t[i].ts >= e.ts - VelocityWindow
      BY <1>1, <2>2, <3>1, <3>2
    <3>4. QED
      BY <2>3, <3>3
  <2>4. CASE i < g /\ i > l - ln
    <3>1. i - (l - ln) \in 1..(f - 1) /\ l - ln + (i - (l - ln)) = i
      BY <1>1, <1>3, <1>4, <2>4
    <3>2. w[i - (l - ln)] < e.ts - VelocityWindow
      BY <1>3, <3>1
    <3>3. i - (l - ln) \in 1..(ln + 1)
      BY <1>1, <1>3, <3>1
    <3>4. w[i - (l - ln)] = t[i].ts
      BY <1>6, <3>1, <3>3
    <3>5. QED
      BY <1>1, <1>8, <2>4, <3>2, <3>4
  <2>5. CASE i <= l - ln
    <3>1. i \in 1..(l - ln) /\ i \in 1..l /\ l \in 1..l
      BY <1>1, <1>4, <2>5
    <3>2. t[i].ts < t[l].ts - VelocityWindow
      BY <1>4, <3>1
    <3>3. t[l].ts <= t[l + 1].ts
      BY <1>1, <1>5, <3>1
    <3>4. ~(i >= g)
      BY <1>1, <1>3, <1>4, <2>5
    <3>5. QED
      BY <1>1, <1>8, <3>1, <3>2, <3>3, <3>4
  <2>6. QED
    BY <1>1, <1>4, <1>8, <2>3, <2>4, <2>5
<1>10. IsWindowOf(q, t)
  <2>1. Len(q) <= l + 1 /\ l + 1 - Len(q) = g - 1
    BY <1>1, <1>3, <1>4
  <2>2. ASSUME NEW j \in 1..Len(q) PROVE q[j] = t[l + 1 - Len(q) + j].ts
    <3>1. f + j - 1 \in 1..(ln + 1) /\ l - ln + (f + j - 1) = l + 1 - Len(q) + j
      BY <1>1, <1>3, <1>4
    <3>2. q[j] = w[f + j - 1]
      BY <1>1, <1>3
    <3>3. QED
      BY <1>6, <3>1, <3>2
  <2>3. ASSUME NEW i \in 1..(l + 1 - Len(q)) PROVE t[i].ts < t[l + 1].ts - VelocityWindow
    <3>1. i \in 1..(l + 1) /\ ~(i >= g)
      BY <1>1, <1>8, <2>1
    <3>2. QED
      BY <1>1, <1>8, <1>9, <3>1
  <2>4. QED
    BY <2>1, <2>2, <2>3 DEF IsWindowOf
<1>11. Len(q) = Cardinality({i \in 1..Len(t) : t[i].ts >= t[Len(t)].ts - VelocityWindow})
  <2> DEFINE inside == {i \in 1..(l + 1) : t[i].ts >= e.ts - VelocityWindow}
  <2>1. inside = g..(l + 1)
    BY <1>1, <1>8, <1>9
  <2>3. inside = {i \in 1..Len(t) : t[i].ts >= t[Len(t)].ts - VelocityWindow}
    BY <1>1, <1>8
  <2>2. Cardinality(g..(l + 1)) = l + 1 - g + 1
    BY <1>1, <1>8, FS_Interval
  <2>4. Len(q) = l + 1 - g + 1
    BY <1>1, <1>3, <1>4
  <2> HIDE DEF inside
  <2>5. QED
    BY <2>1, <2>2, <2>3, <2>4
<1>12. QED
  BY <1>10, <1>11 DEF w, q

\* What an event is alerted for, as it is scored.
Fired(c, e) ==
    {rule \in Rules :
        \/ rule = "HIGH_VALUE" /\ e.id \in HighValue
        \/ rule = "VELOCITY" /\ Len(Rolled(Append(recent[c], e.ts), e.ts)) > VelocityMax
        \/ rule = "IMPOSSIBLE_TRAVEL" /\ lastLocation[c].ts # 0
           /\ TooFast(lastLocation[c], e)}

LEMMA Evaluation ==
  ASSUME NEW c \in Customers, NEW e \in Event, Evaluate(c, e)
  PROVE  /\ recent' = [recent EXCEPT ![c] = Rolled(Append(recent[c], e.ts), e.ts)]
         /\ lastLocation' = [lastLocation EXCEPT ![c] = Advance(lastLocation[c], e)]
         /\ alerts' = alerts \cup {<<e.id, rule>> : rule \in Fired(c, e)}
BY DEF Evaluate, Fired

LEMMA EventTimes ==
  ASSUME NEW e \in Event
  PROVE  e.ts \in Times /\ e.ts \in Nat /\ e.ts >= 1 /\ e.city \in Cities
BY StreamAssumption, DetectorAssumption DEF Times

\* An event that has not been seen has not been scored either, for any customer.
LEMMA UnseenIsUnscored ==
  ASSUME StreamInv, NEW e \in Event, e.id \notin seen
  PROVE  \A x \in Customers : \A i \in 1..Len(scored[x]) : scored[x][i].id # e.id
BY SequenceFacts DEF StreamInv, ScoredIsPrefix, SeenIsScored

\* A step that scores nothing.
LEMMA DetectorKept ==
  ASSUME DetectorInv, UNCHANGED <<detectorVars, scored>>, seen \subseteq seen'
  PROVE  DetectorInv'
<1> USE DEF detectorVars, DetectorInv
<1>1. DetectorTypes' /\ AlertsSeen'
  BY DEF DetectorTypes, AlertsSeen
<1>2. BaselineInv'
  BY DEF BaselineInv, IsBaselineOf, LastNewest
<1>3. WindowInv'
  BY DEF WindowInv, IsWindowOf, InOrder
<1>4. AlertsExact'
  BY DEF AlertsExact, InOrder
<1>5. QED
  BY <1>1, <1>2, <1>3, <1>4

\* What Process(e) does to the events scored for each customer.
LEMMA ScoresOne ==
  ASSUME StreamInv, NEW e \in Event, Process(e)
  PROVE  LET c == CustomerOf[e.id] IN
         /\ c \in Customers
         /\ scored' \in [Customers -> Seq(Event)]
         /\ \A x \in Customers : /\ Len(scored[x]) \in Nat
                                 /\ DOMAIN scored[x] = 1..Len(scored[x])
                                 /\ DOMAIN scored'[x] = 1..Len(scored'[x])
                                 /\ scored[x] \in Seq(Event)
                                 /\ \A i \in 1..Len(scored[x]) : scored[x][i] \in Event
         /\ \A x \in Customers : x # c => scored'[x] = scored[x]
         /\ \A i \in 1..Len(scored[c]) : scored'[c][i] = scored[c][i]
         /\ Len(scored'[c]) = Len(scored[c]) + 1
         /\ scored'[c][Len(scored[c]) + 1] = e
<1> DEFINE c == CustomerOf[e.id]
<1>1. c \in Customers
  BY EventFields
<1>2. scored \in [Customers -> Seq(Event)]
  BY DEF StreamInv, StreamTypes
<1>3. scored' = [scored EXCEPT ![c] = Append(@, e)]
  BY DEF Process
<1>4. /\ scored' \in [Customers -> Seq(Event)]
      /\ \A x \in Customers : x # c => scored'[x] = scored[x]
      /\ \A x \in Customers : Len(scored[x]) \in Nat
      /\ \A x \in Customers : \A i \in 1..Len(scored[x]) : scored'[x][i] = scored[x][i]
      /\ Len(scored'[c]) = Len(scored[c]) + 1
      /\ scored'[c][Len(scored[c]) + 1] = e
  BY <1>1, <1>2, <1>3, AppendAt
<1>5. \A x \in Customers : /\ DOMAIN scored[x] = 1..Len(scored[x])
                           /\ DOMAIN scored'[x] = 1..Len(scored'[x])
                           /\ scored[x] \in Seq(Event)
                           /\ \A i \in 1..Len(scored[x]) : scored[x][i] \in Event
  BY <1>2, <1>4
<1>6. QED
  BY <1>1, <1>4, <1>5

LEMMA ProcessKeepsTypes ==
  ASSUME StreamInv, DetectorInv, NEW e \in Event, Process(e)
  PROVE  DetectorTypes' /\ AlertsSeen'
<1> DEFINE c == CustomerOf[e.id]
<1> USE DEF DetectorInv, DetectorTypes
<1>1. c \in Customers /\ e.id \in Ids /\ e.ts \in Times /\ e.city \in Cities
  BY EventFields, EventTimes
<1>2. Evaluate(c, e) /\ seen' = seen \cup {e.id}
  BY DEF Process, See
<1>3. /\ recent' = [recent EXCEPT ![c] = Rolled(Append(recent[c], e.ts), e.ts)]
      /\ lastLocation' = [lastLocation EXCEPT ![c] = Advance(lastLocation[c], e)]
      /\ alerts' = alerts \cup {<<e.id, rule>> : rule \in Fired(c, e)}
  BY <1>1, <1>2, Evaluation
<1>4. Rolled(Append(recent[c], e.ts), e.ts) \in Seq(Times)
  <2> DEFINE w == Append(recent[c], e.ts)
  <2>1. recent[c] \in Seq(Times)
    BY <1>1
  <2>2. w \in Seq(Times) /\ Len(w) > 0 /\ e.ts = w[Len(w)]
    BY <1>1, <2>1, AppendProperties
  <2> HIDE DEF w
  <2>3. Rolled(w, e.ts) \in Seq(Times)
    BY <2>2, RolledWindow
  <2>4. QED
    BY <2>3 DEF w
<1>5. Advance(lastLocation[c], e) \in [ts : {0} \cup Times, city : Cities]
  BY <1>1 DEF Advance
<1>6. Fired(c, e) \subseteq Rules
  BY DEF Fired
<1>7. recent' \in [Customers -> Seq(Times)]
  BY <1>3, <1>4
<1>8. lastLocation' \in [Customers -> [ts : {0} \cup Times, city : Cities]]
  BY <1>3, <1>5
<1>9. alerts' \subseteq Ids \X Rules /\ AlertsSeen'
  BY <1>1, <1>2, <1>3, <1>6 DEF AlertsSeen
<1>10. QED
  BY <1>7, <1>8, <1>9

\* An event that is not behind the baseline becomes it.
LEMMA BaselineStep ==
  ASSUME NEW s \in Seq(Event), NEW e \in Event,
         NEW t \in Seq(Event), Len(t) = Len(s) + 1, t[Len(s) + 1] = e,
         \A i \in 1..Len(s) : t[i] = s[i],
         NEW last, IsBaselineOf(last, s)
  PROVE  IsBaselineOf(Advance(last, e), t)
<1>1. /\ Len(s) \in Nat /\ e.ts \in Nat /\ e.ts >= 1
      /\ DOMAIN s = 1..Len(s) /\ DOMAIN t = 1..(Len(s) + 1)
      /\ \A i \in 1..Len(s) : s[i] \in Event
  BY EventTimes
<1>2. \A i \in 1..Len(s) : s[i].ts \in Nat /\ s[i].ts >= 1
  BY <1>1, EventTimes
<1>3. CASE Len(s) = 0
  <2>1. last.ts = 0
    BY <1>3 DEF IsBaselineOf
  <2>2. Advance(last, e) = [ts |-> t[1].ts, city |-> t[1].city]
    BY <1>3, <2>1 DEF Advance
  <2>3. LastNewest(t, 1)
    BY <1>1, <1>3 DEF LastNewest
  <2>4. QED
    BY <1>3, <2>2, <2>3 DEF IsBaselineOf
<1>4. CASE Len(s) # 0
  <2>1. PICK m \in 1..Len(s) :
          LastNewest(s, m) /\ last = [ts |-> s[m].ts, city |-> s[m].city]
    BY <1>4 DEF IsBaselineOf
  <2>2. last.ts = s[m].ts /\ s[m].ts \in Nat /\ s[m].ts # 0
    BY <1>2, <2>1
  <2>3. \A i \in 1..Len(s) : s[i].ts < s[m].ts \/ (s[i].ts = s[m].ts /\ i <= m)
    BY <1>1, <2>1 DEF LastNewest
  <2>4. CASE e.ts >= s[m].ts
    <3>1. Advance(last, e) = [ts |-> t[Len(s) + 1].ts, city |-> t[Len(s) + 1].city]
      BY <2>2, <2>4 DEF Advance
    <3>2. \A i \in 1..(Len(s) + 1) :
             t[i].ts < e.ts \/ (t[i].ts = e.ts /\ i <= Len(s) + 1)
      <4>1. SUFFICES ASSUME NEW i \in 1..(Len(s) + 1)
                     PROVE  t[i].ts < e.ts \/ (t[i].ts = e.ts /\ i <= Len(s) + 1)
        OBVIOUS
      <4>2. CASE i = Len(s) + 1
        BY <1>1, <4>2
      <4>3. CASE i \in 1..Len(s)
        <5>1. t[i].ts = s[i].ts /\ s[i].ts \in Nat /\ s[i].ts <= s[m].ts
          BY <1>2, <2>2, <2>3, <4>3
        <5>2. QED
          BY <1>1, <2>2, <2>4, <4>3, <5>1
      <4>4. QED
        BY <1>1, <4>2, <4>3
    <3>3. LastNewest(t, Len(s) + 1)
      BY <1>1, <3>2 DEF LastNewest
    <3>4. QED
      BY <1>1, <3>1, <3>3 DEF IsBaselineOf
  <2>5. CASE ~(e.ts >= s[m].ts)
    <3>1. t[m] = s[m] /\ m \in 1..(Len(s) + 1)
      BY <1>1, <2>1
    <3>2. Advance(last, e) = [ts |-> t[m].ts, city |-> t[m].city]
      BY <2>1, <2>2, <2>5, <3>1 DEF Advance
    <3>3. \A i \in 1..(Len(s) + 1) : t[i].ts < s[m].ts \/ (t[i].ts = s[m].ts /\ i <= m)
      <4>1. SUFFICES ASSUME NEW i \in 1..(Len(s) + 1)
                     PROVE  t[i].ts < s[m].ts \/ (t[i].ts = s[m].ts /\ i <= m)
        OBVIOUS
      <4>2. CASE i = Len(s) + 1
        BY <1>1, <2>2, <2>5, <4>2
      <4>3. CASE i \in 1..Len(s)
        BY <2>3, <4>3
      <4>4. QED
        BY <1>1, <4>2, <4>3
    <3>4. LastNewest(t, m)
      BY <1>1, <3>1, <3>3 DEF LastNewest
    <3>5. QED
      BY <1>1, <3>1, <3>2, <3>4 DEF IsBaselineOf
  <2>6. QED
    BY <2>4, <2>5
<1>5. QED
  BY <1>3, <1>4

LEMMA ProcessKeepsBaseline ==
  ASSUME StreamInv, DetectorInv, NEW e \in Event, Process(e)
  PROVE  BaselineInv'
<1> DEFINE c == CustomerOf[e.id]
<1>1. /\ c \in Customers
      /\ lastLocation' = [lastLocation EXCEPT ![c] = Advance(lastLocation[c], e)]
      /\ lastLocation \in [Customers -> [ts : {0} \cup Times, city : Cities]]
  BY EventFields, Evaluation DEF Process, DetectorInv, DetectorTypes
<1>2. IsBaselineOf(lastLocation[c], scored[c])
  BY <1>1 DEF DetectorInv, BaselineInv
<1>3. /\ scored[c] \in Seq(Event) /\ scored'[c] \in Seq(Event)
      /\ Len(scored'[c]) = Len(scored[c]) + 1
      /\ scored'[c][Len(scored[c]) + 1] = e
      /\ \A i \in 1..Len(scored[c]) : scored'[c][i] = scored[c][i]
      /\ \A x \in Customers : x # c => scored'[x] = scored[x]
  BY ScoresOne
<1>4. IsBaselineOf(Advance(lastLocation[c], e), scored'[c])
  BY <1>2, <1>3, BaselineStep
<1>5. SUFFICES ASSUME NEW x \in Customers PROVE IsBaselineOf(lastLocation'[x], scored'[x])
  BY DEF BaselineInv, IsBaselineOf, LastNewest
<1>6. CASE x = c
  BY <1>1, <1>4, <1>6
<1>7. CASE x # c
  <2>1. lastLocation'[x] = lastLocation[x] /\ scored'[x] = scored[x]
    BY <1>1, <1>3, <1>7
  <2>2. QED
    BY <2>1 DEF DetectorInv, BaselineInv
<1>8. QED
  BY <1>6, <1>7

\* A prefix of events in order is in order.
LEMMA OrderOfPrefix ==
  ASSUME NEW s \in Seq(Event), NEW t \in Seq(Event), Len(t) = Len(s) + 1,
         \A i \in 1..Len(s) : t[i] = s[i], InOrder(t)
  PROVE  InOrder(s)
<1>1. DOMAIN s = 1..Len(s) /\ DOMAIN t = 1..(Len(s) + 1) /\ Len(s) \in Nat
  OBVIOUS
<1>2. SUFFICES ASSUME NEW i \in 1..Len(s), NEW j \in 1..Len(s), i < j
               PROVE  s[i].ts <= s[j].ts
  BY <1>1 DEF InOrder
<1>3. i \in DOMAIN t /\ j \in DOMAIN t
  BY <1>1
<1>4. t[i].ts <= t[j].ts
  BY <1>2, <1>3 DEF InOrder
<1>5. QED
  BY <1>4

LEMMA ProcessKeepsWindow ==
  ASSUME StreamInv, DetectorInv, NEW e \in Event, Process(e)
  PROVE  WindowInv'
<1> DEFINE c == CustomerOf[e.id]
<1>1. /\ c \in Customers
      /\ recent' = [recent EXCEPT ![c] = Rolled(Append(recent[c], e.ts), e.ts)]
      /\ recent \in [Customers -> Seq(Times)]
  BY EventFields, Evaluation DEF Process, DetectorInv, DetectorTypes
<1>2. /\ scored[c] \in Seq(Event) /\ scored'[c] \in Seq(Event)
      /\ Len(scored'[c]) = Len(scored[c]) + 1
      /\ scored'[c][Len(scored[c]) + 1] = e
      /\ \A i \in 1..Len(scored[c]) : scored'[c][i] = scored[c][i]
      /\ \A x \in Customers : x # c => scored'[x] = scored[x]
  BY ScoresOne
<1>3. SUFFICES ASSUME NEW x \in Customers, InOrder(scored'[x])
               PROVE  IsWindowOf(recent'[x], scored'[x])
  BY DEF WindowInv, IsWindowOf, InOrder
<1>4. CASE x = c
  <2>1. InOrder(scored[c])
    BY <1>2, <1>3, <1>4, OrderOfPrefix
  <2>2. IsWindowOf(recent[c], scored[c]) /\ recent[c] \in Seq(Times)
    BY <1>1, <2>1 DEF DetectorInv, WindowInv
  <2>3. IsWindowOf(Rolled(Append(recent[c], e.ts), e.ts), scored'[c])
    BY <1>2, <1>3, <1>4, <2>2, WindowStep
  <2>4. QED
    BY <1>1, <1>4, <2>3
<1>5. CASE x # c
  <2>1. recent'[x] = recent[x] /\ scored'[x] = scored[x]
    BY <1>1, <1>2, <1>5
  <2>2. QED
    BY <1>3, <2>1 DEF DetectorInv, WindowInv
<1>6. QED
  BY <1>4, <1>5

\* What fraud.py's rules ask of the event n of a sequence.
ExactAt(s, n, raised) ==
    /\ <<s[n].id, "HIGH_VALUE">> \in raised <=> s[n].id \in HighValue
    /\ <<s[n].id, "VELOCITY">> \in raised <=>
           Cardinality({i \in 1..n : s[i].ts >= s[n].ts - VelocityWindow}) > VelocityMax
    /\ <<s[n].id, "IMPOSSIBLE_TRAVEL">> \in raised <=> n > 1 /\ TooFast(s[n-1], s[n])

LEMMA AlertsExactAt ==
  AlertsExact <=> \A c \in Customers : InOrder(scored[c]) =>
                     \A n \in DOMAIN scored[c] : ExactAt(scored[c], n, alerts)
BY DEF AlertsExact, ExactAt

\* The newest event is alerted for what its rules ask.
LEMMA FiredExactly ==
  ASSUME NEW s \in Seq(Event), NEW e \in Event,
         NEW t \in Seq(Event), Len(t) = Len(s) + 1, t[Len(s) + 1] = e,
         \A i \in 1..Len(s) : t[i] = s[i], InOrder(t),
         NEW c \in Customers, recent[c] \in Seq(Times),
         IsWindowOf(recent[c], s), IsBaselineOf(lastLocation[c], s),
         NEW raised, \A rule \in Rules : <<e.id, rule>> \in raised <=> rule \in Fired(c, e)
  PROVE  ExactAt(t, Len(t), raised)
<1> DEFINE n == Len(t)
<1>1. /\ Len(s) \in Nat /\ n = Len(s) + 1 /\ t[n] = e
      /\ DOMAIN s = 1..Len(s) /\ DOMAIN t = 1..n
      /\ \A i \in 1..Len(s) : s[i] \in Event
  OBVIOUS
<1>2. <<e.id, "HIGH_VALUE">> \in raised <=> e.id \in HighValue
  BY DEF Fired, Rules
<1>3. Len(Rolled(Append(recent[c], e.ts), e.ts))
        = Cardinality({i \in 1..n : t[i].ts >= t[n].ts - VelocityWindow})
  BY WindowStep
<1>4. <<e.id, "VELOCITY">> \in raised <=>
         Len(Rolled(Append(recent[c], e.ts), e.ts)) > VelocityMax
  BY DEF Fired, Rules
<1>5. <<e.id, "IMPOSSIBLE_TRAVEL">> \in raised <=>
         lastLocation[c].ts # 0 /\ TooFast(lastLocation[c], e)
  BY DEF Fired, Rules
<1>6. lastLocation[c].ts # 0 /\ TooFast(lastLocation[c], e) <=> n > 1 /\ TooFast(t[n-1], t[n])
  <2>1. CASE Len(s) = 0
    BY <1>1, <2>1 DEF IsBaselineOf
  <2>2. CASE Len(s) # 0
    <3>1. PICK m \in 1..Len(s) :
            LastNewest(s, m) /\ lastLocation[c] = [ts |-> s[m].ts, city |-> s[m].city]
      BY <2>2 DEF IsBaselineOf
    <3>2. s[m].ts \in Nat /\ s[m].ts # 0 /\ s[Len(s)].ts \in Nat
      BY <1>1, <2>2, <3>1, EventTimes
    <3>3. m < Len(s) => s[m].ts <= s[Len(s)].ts
      <4>1. InOrder(s)
        BY OrderOfPrefix
      <4>2. QED
        BY <1>1, <2>2, <4>1 DEF InOrder
    <3>4. m = Len(s)
      <4>1. Len(s) \in DOMAIN s
        BY <1>1, <2>2
      <4>2. s[Len(s)].ts < s[m].ts \/ (s[Len(s)].ts = s[m].ts /\ Len(s) <= m)
        BY <3>1, <4>1 DEF LastNewest
      <4>3. m \in Nat /\ Len(s) \in Nat /\ m <= Len(s)
        BY <1>1
      <4>4. ~(m < Len(s))
        <5>1. SUFFICES ASSUME m < Len(s) PROVE FALSE
          OBVIOUS
        <5>2. s[m].ts <= s[Len(s)].ts
          BY <3>3, <5>1
        <5>3. s[Len(s)].ts < s[m].ts
          BY <4>2, <4>3, <5>1
        <5>4. QED
          BY <3>2, <5>2, <5>3
      <4>5. QED
        BY <4>3, <4>4
    <3>5. n - 1 = Len(s) /\ n > 1 /\ t[n-1] = s[m]
      BY <1>1, <2>2, <3>4
    <3>6. lastLocation[c].ts = t[n-1].ts /\ lastLocation[c].city = t[n-1].city
      BY <3>1, <3>5
    <3>7. TooFast(lastLocation[c], e) <=> TooFast(t[n-1], t[n])
      BY <1>1, <3>6 DEF TooFast, Distance
    <3>8. QED
      BY <3>2, <3>5, <3>6, <3>7
  <2>3. QED
    BY <2>1, <2>2
<1>7. QED
  BY <1>1, <1>2, <1>3, <1>4, <1>5, <1>6 DEF ExactAt

LEMMA ProcessKeepsExact ==
  ASSUME StreamInv, DetectorInv, NEW e \in Event, Process(e)
  PROVE  AlertsExact'
<1> DEFINE c == CustomerOf[e.id]
           l == Len(scored[c])
<1>1. /\ c \in Customers
      /\ alerts' = alerts \cup {<<e.id, rule>> : rule \in Fired(c, e)}
      /\ recent[c] \in Seq(Times) /\ e.id \notin seen
  BY EventFields, Evaluation DEF Process, DetectorInv, DetectorTypes
<1>2. /\ scored[c] \in Seq(Event) /\ scored'[c] \in Seq(Event)
      /\ l \in Nat /\ Len(scored'[c]) = l + 1 /\ scored'[c][l + 1] = e
      /\ \A i \in 1..l : scored'[c][i] = scored[c][i]
      /\ \A x \in Customers : x # c => scored'[x] = scored[x]
      /\ \A x \in Customers : DOMAIN scored[x] = 1..Len(scored[x])
      /\ DOMAIN scored'[c] = 1..(l + 1)
  BY ScoresOne
<1>3. \A x \in Customers : \A i \in 1..Len(scored[x]) : scored[x][i].id # e.id
  BY <1>1, UnseenIsUnscored
<1>4. \A id, rule : id # e.id => (<<id, rule>> \in alerts' <=> <<id, rule>> \in alerts)
  BY <1>1
<1>5. \A rule \in Rules : <<e.id, rule>> \in alerts' <=> rule \in Fired(c, e)
  <2>1. \A rule : <<e.id, rule>> \notin alerts
    BY <1>1 DEF DetectorInv, AlertsSeen
  <2>2. QED
    BY <1>1, <2>1
<1>6. \A x \in Customers : InOrder(scored[x]) =>
         \A n \in 1..Len(scored[x]) : ExactAt(scored[x], n, alerts')
  <2>1. SUFFICES ASSUME NEW x \in Customers, InOrder(scored[x]),
                        NEW n \in 1..Len(scored[x])
                 PROVE  ExactAt(scored[x], n, alerts')
    OBVIOUS
  <2>2. ExactAt(scored[x], n, alerts)
    BY <1>2, <2>1, AlertsExactAt DEF DetectorInv
  <2>3. \A rule : <<scored[x][n].id, rule>> \in alerts' <=> <<scored[x][n].id, rule>> \in alerts
    BY <1>3, <1>4
  <2>4. QED
    BY <2>2, <2>3 DEF ExactAt
<1>7. SUFFICES ASSUME NEW x \in Customers, InOrder(scored'[x]), NEW n \in DOMAIN scored'[x]
               PROVE  ExactAt(scored'[x], n, alerts')
  BY DEF AlertsExact, InOrder, ExactAt
<1>8. CASE x # c
  BY <1>2, <1>6, <1>7, <1>8
<1>9. CASE x = c
  <2>1. InOrder(scored[c])
    BY <1>2, <1>7, <1>9, OrderOfPrefix
  <2>2. CASE n = l + 1
    <3>1. /\ IsWindowOf(recent[c], scored[c])
          /\ IsBaselineOf(lastLocation[c], scored[c])
      BY <1>1, <2>1 DEF DetectorInv, WindowInv, BaselineInv
    <3>2. ExactAt(scored'[c], Len(scored'[c]), alerts')
      BY <1>1, <1>2, <1>5, <1>7, <1>9, <3>1, FiredExactly
    <3>3. QED
      BY <1>2, <1>9, <2>2, <3>2
  <2>3. CASE n \in 1..l
    <3>1. ExactAt(scored[c], n, alerts')
      BY <1>1, <1>6, <2>1, <2>3
    <3>2. \A i \in 1..n : scored'[c][i] = scored[c][i]
      BY <1>2, <2>3
    <3>3. {i \in 1..n : scored'[c][i].ts >= scored'[c][n].ts - VelocityWindow}
            = {i \in 1..n : scored[c][i].ts >= scored[c][n].ts - VelocityWindow}
      BY <2>3, <3>2
    <3>4. scored'[c][n] = scored[c][n] /\ (n > 1 => scored'[c][n-1] = scored[c][n-1])
      <4>1. n \in Nat /\ n \in 1..n /\ (n > 1 => n - 1 \in 1..n)
        BY <2>3
      <4>2. QED
        BY <3>2, <4>1
    <3>5. QED
      BY <1>9, <3>1, <3>3, <3>4 DEF ExactAt
  <2>4. QED
    BY <1>2, <1>7, <1>9, <2>2, <2>3
<1>10. QED
  BY <1>8, <1>9

LEMMA DetectorInitInv == Init => DetectorInv
<1> SUFFICES ASSUME Init PROVE DetectorInv
  OBVIOUS
<1>1. \A S : <<>> \in Seq(S) /\ Len(<<>>) = 0 /\ DOMAIN <<>> = {}
  BY EmptySeq
<1>2. /\ \A c \in Customers : recent[c] = <<>> /\ scored[c] = <<>> /\ lastLocation[c].ts = 0
      /\ alerts = {}
  BY DEF Init, DetectorInit, NoLocation
<1>3. DetectorTypes
  BY <1>1, DetectorAssumption DEF DetectorTypes, Init, DetectorInit, NoLocation
<1>4. BaselineInv
  BY <1>1, <1>2 DEF BaselineInv, IsBaselineOf
<1>5. WindowInv
  <2>1. IsWindowOf(<<>>, <<>>)
    BY <1>1 DEF IsWindowOf
  <2>2. QED
    BY <1>2, <2>1 DEF WindowInv
<1>6. AlertsSeen /\ AlertsExact
  BY <1>1, <1>2 DEF AlertsSeen, AlertsExact
<1>7. QED
  BY <1>3, <1>4, <1>5, <1>6 DEF DetectorInv

LEMMA DetectorStepInv ==
  ASSUME StreamInv, DetectorInv, [Next]_vars PROVE DetectorInv'
<1>1. ASSUME NEW e \in Event, Process(e) PROVE DetectorInv'
  BY <1>1, ProcessKeepsTypes, ProcessKeepsBaseline, ProcessKeepsWindow, ProcessKeepsExact
  DEF DetectorInv
<1>2. ASSUME NEW e \in Event, ProcessRaises(e) PROVE DetectorInv'
  BY <1>2, DetectorKept DEF ProcessRaises, See
<1>3. ASSUME UNCHANGED memory PROVE DetectorInv'
  BY <1>3, DetectorKept DEF memory
<1>4. QED
  BY <1>1, <1>2, <1>3
  DEF Next, ConsumerStep, vars, Put, Redeliver, Consume, NextShard, Return, DropDuplicate

LEMMA DetectorInvariant == Spec => []DetectorInv
<1>1. StreamInv /\ DetectorInv /\ [Next]_vars => DetectorInv'
  BY DetectorStepInv
<1>2. QED
  BY <1>1, DetectorInitInv, StreamInvariant, PTL DEF Spec

\* fraud.py: "ignore late arrivals so they don't corrupt the travel baseline": whatever
\* order the events come in, the baseline is the last of the newest of those scored.
THEOREM BaselineIsNewestHolds == Spec => []BaselineIsNewest
<1>1. ASSUME StreamInv, DetectorInv PROVE BaselineIsNewest
  <2>1. SUFFICES ASSUME NEW c \in Customers, NEW m \in DOMAIN scored[c],
                        LastNewest(scored[c], m)
                 PROVE  lastLocation[c] = [ts |-> scored[c][m].ts, city |-> scored[c][m].city]
    BY DEF BaselineIsNewest
  <2>2. /\ Len(scored[c]) \in Nat /\ DOMAIN scored[c] = 1..Len(scored[c])
        /\ \A i \in 1..Len(scored[c]) : scored[c][i].ts \in Nat
    BY <1>1, EventTimes DEF StreamInv, StreamTypes
  <2>3. IsBaselineOf(lastLocation[c], scored[c]) /\ Len(scored[c]) # 0
    BY <1>1, <2>2 DEF DetectorInv, BaselineInv
  <2>4. PICK k \in 1..Len(scored[c]) :
          /\ LastNewest(scored[c], k)
          /\ lastLocation[c] = [ts |-> scored[c][k].ts, city |-> scored[c][k].city]
    BY <2>3 DEF IsBaselineOf
  <2>5. k = m
    BY <2>1, <2>2, <2>4 DEF LastNewest
  <2>6. QED
    BY <2>4, <2>5
<1>2. QED
  BY <1>1, StreamInvariant, DetectorInvariant, PTL

\* fraud.py's three rules, for a customer none of whose events came late: an event is
\* alerted for exactly what they say, by the events themselves and not by the window
\* and the baseline that the detector keeps of them, for any limits and any events.
THEOREM AlertsExactHolds == Spec => []AlertsExact
<1>1. DetectorInv => AlertsExact
  BY DEF DetectorInv
<1>2. QED
  BY <1>1, DetectorInvariant, PTL

-----------------------------------------------------------------------------
\* The alerts' way to a caller

\* A shard that only grows keeps the places of what it holds.
Grown == \A k \in Shards : /\ Len(shards[k]) <= Len(shards'[k])
                           /\ \A n \in 1..Len(shards[k]) : shards'[k][n] = shards[k][n]

LEMMA FirstKept ==
  ASSUME StreamInv, StreamInv', Grown, NEW x, NEW k, NEW n, FirstAt(x, k, n)
  PROVE  FirstAt(x, k, n)' /\ n \in 1..Len(shards'[k])
<1>1. /\ k \in Shards /\ n \in 1..Len(shards[k]) /\ shards[k][n].id = x
      /\ \A m \in 1..(n - 1) : shards[k][m].id # x
  BY DEF FirstAt
<1>2. Len(shards[k]) \in Nat /\ Len(shards'[k]) \in Nat
  BY <1>1 DEF StreamInv, StreamTypes
<1>3. n \in 1..Len(shards'[k]) /\ shards'[k][n].id = x
  BY <1>1, <1>2 DEF Grown
<1>4. \A m \in 1..(n - 1) : shards'[k][m].id # x
  BY <1>1, <1>2 DEF Grown
<1>5. QED
  BY <1>1, <1>3, <1>4 DEF FirstAt

LEMMA BeforeKept ==
  ASSUME StreamInv, StreamInv', Grown, NEW x, NEW y, Before(x, y) PROVE Before(x, y)'
<1>1. PICK k \in Shards, l \in Shards :
        \E n \in 1..Len(shards[k]) : \E m \in 1..Len(shards[l]) :
          /\ FirstAt(x, k, n) /\ FirstAt(y, l, m)
          /\ k < l \/ (k = l /\ n < m)
  BY DEF Before
<1>2. PICK n \in 1..Len(shards[k]), m \in 1..Len(shards[l]) :
          /\ FirstAt(x, k, n) /\ FirstAt(y, l, m)
          /\ k < l \/ (k = l /\ n < m)
  BY <1>1
<1>3. FirstAt(x, k, n)' /\ n \in 1..Len(shards'[k])
  BY <1>2, FirstKept
<1>4. FirstAt(y, l, m)' /\ m \in 1..Len(shards'[l])
  BY <1>2, FirstKept
<1>5. QED
  BY <1>2, <1>3, <1>4 DEF Before

\* What production and redelivery leave alone.
LEMMA PlacesKept ==
  ASSUME StreamInv, StreamInv', HandedInv, Grown,
         UNCHANGED <<position, memory, output>>
  PROVE  AlertSets' /\ CollectedWasMet' /\ LostBeforeMalformed'
<1>1. UNCHANGED <<shard, next, seen, alerts, result, returned>>
  BY DEF position, memory, output, detectorVars
<1>2. AlertSets'
  BY <1>1 DEF HandedInv, AlertSets
<1>3. CollectedWasMet'
  <2>1. SUFFICES ASSUME NEW a \in result
                 PROVE  \E k \in Shards : \E n \in 1..Len(shards'[k]) :
                          FirstAt(a[1], k, n)' /\ (k < shard \/ (k = shard /\ n < next))
    BY <1>1 DEF CollectedWasMet
  <2>2. PICK k \in Shards : \E n \in 1..Len(shards[k]) :
           FirstAt(a[1], k, n) /\ (k < shard \/ (k = shard /\ n < next))
    BY DEF HandedInv, CollectedWasMet
  <2>3. PICK n \in 1..Len(shards[k]) :
           FirstAt(a[1], k, n) /\ (k < shard \/ (k = shard /\ n < next))
    BY <2>2
  <2>4. FirstAt(a[1], k, n)' /\ n \in 1..Len(shards'[k])
    BY <2>3, FirstKept
  <2>5. QED
    BY <2>3, <2>4
<1>4. LostBeforeMalformed'
  <2>1. SUFFICES ASSUME NEW a \in alerts \ (result \cup returned)
                 PROVE  \E m \in Malformed \cap seen : Before(a[1], m)'
    BY <1>1 DEF LostBeforeMalformed
  <2>2. PICK m \in Malformed \cap seen : Before(a[1], m)
    BY DEF HandedInv, LostBeforeMalformed
  <2>3. QED
    BY <2>2, BeforeKept
<1>5. QED
  BY <1>2, <1>3, <1>4

LEMMA AppendGrows ==
  ASSUME StreamInv, NEW k \in Shards, NEW e \in Event,
         shards' = [shards EXCEPT ![k] = Append(@, e)]
  PROVE  /\ Grown /\ Len(shards'[k]) = Len(shards[k]) + 1
         /\ \A x \in Shards : Len(shards[x]) \in Nat
         /\ \A x \in Shards : x # k => shards'[x] = shards[x]
         /\ Produced' = Produced \cup {e.id}
<1>1. shards \in [Shards -> Seq(Event)]
  BY DEF StreamInv, StreamTypes
<1>2. /\ shards' \in [Shards -> Seq(Event)]
      /\ \A x \in Shards : /\ Len(shards[x]) \in Nat /\ Len(shards'[x]) \in Nat
                           /\ Len(shards[x]) <= Len(shards'[x])
                           /\ DOMAIN shards[x] = 1..Len(shards[x])
                           /\ DOMAIN shards'[x] = 1..Len(shards'[x])
      /\ \A x \in Shards : \A n \in 1..Len(shards[x]) : shards'[x][n] = shards[x][n]
      /\ \A x \in Shards : x # k => shards'[x] = shards[x]
      /\ Len(shards'[k]) = Len(shards[k]) + 1
      /\ shards'[k][Len(shards[k]) + 1] = e
  BY <1>1, AppendAt
<1>3. e.id \in Ids
  BY EventFields
<1>4. Produced \cup {e.id} \subseteq Produced'
  <2>1. ASSUME NEW i \in Produced PROVE i \in Produced'
    <3>0. PICK x \in Shards : \E n \in DOMAIN shards[x] : shards[x][n].id = i
      BY DEF Produced
    <3>1. PICK n \in DOMAIN shards[x] : shards[x][n].id = i
      BY <3>0
    <3>2. n \in DOMAIN shards'[x] /\ shards'[x][n].id = i
      BY <1>2, <3>1
    <3>3. QED
      BY <3>2 DEF Produced
  <2>2. e.id \in Produced'
    <3>1. Len(shards[k]) + 1 \in DOMAIN shards'[k]
      BY <1>2
    <3>2. QED
      BY <1>2, <1>3, <3>1 DEF Produced
  <2>3. QED
    BY <2>1, <2>2
<1>5. Produced' \subseteq Produced \cup {e.id}
  <2>1. SUFFICES ASSUME NEW i \in Produced', i # e.id PROVE i \in Produced
    OBVIOUS
  <2>0. PICK x \in Shards : \E n \in DOMAIN shards'[x] : shards'[x][n].id = i
    BY DEF Produced
  <2>2. PICK n \in DOMAIN shards'[x] : shards'[x][n].id = i
    BY <2>0
  <2>3. n \in DOMAIN shards[x] /\ shards[x][n].id = i
    <3>1. CASE x # k
      BY <1>2, <2>2, <3>1
    <3>2. CASE x = k
      <4>1. n \in 1..(Len(shards[k]) + 1) /\ n # Len(shards[k]) + 1
        BY <1>2, <2>1, <2>2, <3>2
      <4>2. n \in 1..Len(shards[k])
        BY <1>2, <4>1
      <4>3. QED
        BY <1>2, <2>2, <3>2, <4>2
    <3>3. QED
      BY <3>1, <3>2
  <2>4. i \in Ids
    BY DEF Produced
  <2>5. QED
    BY <2>3, <2>4 DEF Produced
<1>6. QED
  BY <1>2, <1>4, <1>5 DEF Grown

LEMMA PutKeepsHanded ==
  ASSUME StreamInv, StreamInv', HandedInv, NEW e \in Event, Put(e) PROVE HandedInv'
<1> DEFINE k == ShardFor(e.id)
<1>1. /\ shards' = [shards EXCEPT ![k] = Append(@, e)]
      /\ e.id \notin Produced /\ k \in Shards
      /\ UNCHANGED <<copies, position, memory, output>>
  BY EventFields DEF Put
<1>2. /\ Grown /\ Len(shards'[k]) = Len(shards[k]) + 1
      /\ \A x \in Shards : Len(shards[x]) \in Nat
      /\ \A x \in Shards : x # k => shards'[x] = shards[x]
      /\ Produced' = Produced \cup {e.id}
  BY <1>1, AppendGrows
<1>3. Counted'
  <2>1. /\ copies \in 0..MaxCopies /\ IsFiniteSet(Produced) /\ copies \in Nat
        /\ \A x \in Shards : Len(shards[x]) <= Cardinality(Produced) + copies
    BY StreamAssumption DEF HandedInv, Counted
  <2>2. IsFiniteSet(Produced') /\ Cardinality(Produced') = Cardinality(Produced) + 1
    BY <1>1, <1>2, <2>1, FS_AddElement
  <2>3. Cardinality(Produced) \in Nat
    BY <2>1, FS_CardinalityType
  <2>4. \A x \in Shards : Len(shards'[x]) <= Cardinality(Produced') + copies
    BY <1>1, <1>2, <2>1, <2>2, <2>3
  <2>5. QED
    BY <1>1, <2>1, <2>2, <2>4 DEF Counted
<1>4. AlertSets' /\ CollectedWasMet' /\ LostBeforeMalformed'
  BY <1>1, <1>2, PlacesKept
<1>5. QED
  BY <1>3, <1>4 DEF HandedInv

LEMMA RedeliverKeepsHanded ==
  ASSUME StreamInv, StreamInv', HandedInv, NEW k \in Shards, Redeliver(k) PROVE HandedInv'
<1>1. PICK n \in DOMAIN shards[k] : shards' = [shards EXCEPT ![k] = Append(@, shards[k][n])]
  BY DEF Redeliver
<1>2. shards[k][n] \in Event /\ shards[k][n].id \in Produced
  <2>1. n \in 1..Len(shards[k])
    BY SequenceFacts
  <2>2. QED
    BY <2>1, SequenceFacts, RecordWasProduced
<1>3. /\ Grown /\ Len(shards'[k]) = Len(shards[k]) + 1
      /\ \A x \in Shards : Len(shards[x]) \in Nat
      /\ \A x \in Shards : x # k => shards'[x] = shards[x]
      /\ Produced' = Produced \cup {shards[k][n].id}
  BY <1>1, <1>2, AppendGrows
<1>4. Produced' = Produced
  BY <1>2, <1>3
<1>5. copies < MaxCopies /\ copies' = copies + 1 /\ UNCHANGED <<position, memory, output>>
  BY DEF Redeliver
<1>6. Counted'
  <2>1. /\ copies \in 0..MaxCopies /\ IsFiniteSet(Produced) /\ copies \in Nat
        /\ \A x \in Shards : Len(shards[x]) <= Cardinality(Produced) + copies
    BY StreamAssumption DEF HandedInv, Counted
  <2>2. Cardinality(Produced) \in Nat
    BY <2>1, FS_CardinalityType
  <2>3. \A x \in Shards : Len(shards'[x]) <= Cardinality(Produced) + copies'
    BY <1>3, <1>5, <2>1, <2>2
  <2>4. copies' \in 0..MaxCopies
    BY <1>5, <2>1, StreamAssumption
  <2>5. QED
    BY <1>4, <2>1, <2>3, <2>4 DEF Counted
<1>7. AlertSets' /\ CollectedWasMet' /\ LostBeforeMalformed'
  BY <1>3, <1>5, PlacesKept
<1>8. QED
  BY <1>6, <1>7 DEF HandedInv

\* The consumer's steps leave the stream as it is.
LEMMA SameStream ==
  ASSUME HandedInv, UNCHANGED <<shards, copies>>
  PROVE  /\ Counted'
         /\ \A x, k, n : FirstAt(x, k, n)' <=> FirstAt(x, k, n)
         /\ \A x, y : Before(x, y)' <=> Before(x, y)
<1>1. Produced' = Produced
  BY DEF Produced
<1>2. Counted'
  BY <1>1 DEF HandedInv, Counted
<1>3. \A x, k, n : FirstAt(x, k, n)' <=> FirstAt(x, k, n)
  BY DEF FirstAt
<1>4. \A x, y : Before(x, y)' <=> Before(x, y)
  BY <1>3 DEF Before
<1>5. QED
  BY <1>2, <1>3, <1>4

\* An unseen record stands where a pass meets its event first.
LEMMA UnseenIsFirst ==
  ASSUME StreamInv, NEW e \in Event, Reading(e), e.id \notin seen
  PROVE  /\ shard \in Shards /\ shard # Idle
         /\ next \in 1..Len(shards[shard]) /\ FirstAt(e.id, shard, next)
<1>1. /\ shard \in Shards /\ shard # Idle /\ next \in 1..Len(shards[shard])
      /\ shards[shard][next] = e
  BY SequenceFacts DEF Reading, StreamInv, StreamTypes
<1>2. \A n \in 1..(next - 1) : shards[shard][n].id # e.id
  BY <1>1 DEF StreamInv, ReadSoFar
<1>3. QED
  BY <1>1, <1>2 DEF FirstAt

LEMMA ProcessKeepsHanded ==
  ASSUME StreamInv, DetectorInv, HandedInv, NEW e \in Event, Process(e) PROVE HandedInv'
<1>1. /\ Reading(e) /\ e.id \notin seen
      /\ alerts \subseteq alerts' /\ seen \subseteq seen'
      /\ \A a \in alerts' : a \in alerts \/ a[1] = e.id
      /\ result' = result \cup {a \in alerts' : a[1] = e.id}
      /\ next' = next + 1
      /\ UNCHANGED <<shards, copies, shard, returned>>
  BY EventFields, Evaluation DEF Process, See, Collect, stream
<1>2. /\ shard \in Shards /\ shard # Idle
      /\ next \in 1..Len(shards[shard]) /\ FirstAt(e.id, shard, next)
  BY <1>1, UnseenIsFirst
<1>3. /\ Counted'
      /\ \A x, k, n : FirstAt(x, k, n)' <=> FirstAt(x, k, n)
      /\ \A x, y : Before(x, y)' <=> Before(x, y)
  BY <1>1, SameStream
<1>4. AlertSets'
  <2>1. \A a \in returned : a[1] # e.id
    BY <1>1 DEF HandedInv, AlertSets, DetectorInv, AlertsSeen
  <2>2. QED
    BY <1>1, <1>2, <2>1 DEF HandedInv, AlertSets
<1>5. CollectedWasMet'
  <2>1. SUFFICES ASSUME NEW a \in result'
                 PROVE  \E k \in Shards : \E n \in 1..Len(shards[k]) :
                          FirstAt(a[1], k, n) /\ (k < shard \/ (k = shard /\ n < next + 1))
    BY <1>1, <1>3 DEF CollectedWasMet
  <2>2. CASE a[1] = e.id
    BY <1>2, <2>2
  <2>3. CASE a[1] # e.id
    <3>1. a \in result
      BY <1>1, <2>1, <2>3
    <3>2. PICK k \in Shards : \E n \in 1..Len(shards[k]) :
             FirstAt(a[1], k, n) /\ (k < shard \/ (k = shard /\ n < next))
      BY <3>1 DEF HandedInv, CollectedWasMet
    <3>3. QED
      BY <1>2, <3>2
  <2>4. QED
    BY <2>2, <2>3
<1>6. LostBeforeMalformed'
  BY <1>1, <1>3 DEF HandedInv, LostBeforeMalformed
<1>7. QED
  BY <1>3, <1>4, <1>5, <1>6 DEF HandedInv

\* A pass that breaks off loses what it has collected before the event that raised.
LEMMA ProcessRaisesKeepsHanded ==
  ASSUME StreamInv, HandedInv, NEW e \in Event, ProcessRaises(e) PROVE HandedInv'
<1>1. /\ Reading(e) /\ e.id \notin seen /\ e.id \in Malformed
      /\ seen' = seen \cup {e.id} /\ shard' = Idle /\ result' = {}
      /\ UNCHANGED <<shards, copies, alerts, returned>>
  BY DEF ProcessRaises, See, BreakOff, stream, detectorVars
<1>2. /\ shard \in Shards /\ shard # Idle
      /\ next \in 1..Len(shards[shard]) /\ FirstAt(e.id, shard, next)
  BY <1>1, UnseenIsFirst
<1>3. /\ Counted'
      /\ \A x, k, n : FirstAt(x, k, n)' <=> FirstAt(x, k, n)
      /\ \A x, y : Before(x, y)' <=> Before(x, y)
  BY <1>1, SameStream
<1>4. AlertSets' /\ CollectedWasMet'
  BY <1>1 DEF HandedInv, AlertSets, CollectedWasMet
<1>5. LostBeforeMalformed'
  <2>1. SUFFICES ASSUME NEW a \in alerts \ returned
                 PROVE  \E m \in Malformed \cap seen' : Before(a[1], m)
    BY <1>1, <1>3 DEF LostBeforeMalformed
  <2>2. CASE a \in result
    <3>1. PICK k \in Shards : \E n \in 1..Len(shards[k]) :
             FirstAt(a[1], k, n) /\ (k < shard \/ (k = shard /\ n < next))
      BY <2>2 DEF HandedInv, CollectedWasMet
    <3>2. Before(a[1], e.id)
      BY <1>2, <3>1 DEF Before
    <3>3. QED
      BY <1>1, <3>2
  <2>3. CASE a \notin result
    BY <1>1, <2>3 DEF HandedInv, LostBeforeMalformed
  <2>4. QED
    BY <2>2, <2>3
<1>6. QED
  BY <1>3, <1>4, <1>5 DEF HandedInv

\* A step that only moves the consumer's place, onward.
LEMMA MoveKeepsHanded ==
  ASSUME HandedInv, UNCHANGED <<shards, copies, alerts, seen, result, returned>>,
         shard' = Idle => result = {},
         \A k \in Shards : \A n \in 1..Len(shards[k]) :
            result # {} /\ (k < shard \/ (k = shard /\ n < next))
              => (k < shard' \/ (k = shard' /\ n < next'))
  PROVE  HandedInv'
<1>1. /\ Counted'
      /\ \A x, k, n : FirstAt(x, k, n)' <=> FirstAt(x, k, n)
      /\ \A x, y : Before(x, y)' <=> Before(x, y)
  BY SameStream
<1>2. AlertSets'
  BY DEF HandedInv, AlertSets
<1>3. LostBeforeMalformed'
  BY <1>1 DEF HandedInv, LostBeforeMalformed
<1>4. CollectedWasMet'
  BY <1>1 DEF HandedInv, CollectedWasMet
<1>5. QED
  BY <1>1, <1>2, <1>3, <1>4 DEF HandedInv

LEMMA PassKeepsHanded ==
  ASSUME StreamInv, HandedInv, Consume \/ NextShard \/ Return PROVE HandedInv'
<1>1. CASE Consume
  <2>1. UNCHANGED <<shards, copies, alerts, seen, result, returned>> /\ shard' = 0
    BY <1>1 DEF Consume, ReadShard, stream, memory, output, detectorVars
  <2>2. result = {}
    BY <1>1 DEF Consume, HandedInv, AlertSets
  <2>3. QED
    BY <2>1, <2>2, MoveKeepsHanded
<1>2. CASE NextShard
  <2>1. /\ UNCHANGED <<shards, copies, alerts, seen, result, returned>>
        /\ shard' = shard + 1 /\ shard # Idle /\ shard + 1 \in Shards
    BY <1>2 DEF NextShard, ReadShard, stream, memory, output, detectorVars
  <2>2. shard \in Nat /\ Shards \subseteq Nat
    BY <2>1, StreamAssumption DEF StreamInv, StreamTypes, Shards
  <2>3. shard' # Idle
    BY <2>1, <2>2 DEF Idle
  <2>4. \A k \in Shards : k < shard \/ k = shard => k < shard'
    BY <2>1, <2>2
  <2>5. QED
    BY <2>1, <2>3, <2>4, MoveKeepsHanded
<1>3. CASE Return
  <2>1. /\ UNCHANGED <<shards, copies, alerts, seen>>
        /\ shard' = Idle /\ result' = {} /\ returned' = returned \cup result
    BY <1>3 DEF Return, BreakOff, stream, memory, detectorVars
  <2>2. /\ Counted'
        /\ \A x, y : Before(x, y)' <=> Before(x, y)
    BY <2>1, SameStream
  <2>3. QED
    BY <2>1, <2>2
    DEF HandedInv, AlertSets, CollectedWasMet, LostBeforeMalformed
<1>4. QED
  BY <1>1, <1>2, <1>3

LEMMA HandedInit == Init => HandedInv
<1> SUFFICES ASSUME Init PROVE HandedInv
  OBVIOUS
<1>1. \A k \in Shards : Len(shards[k]) = 0 /\ DOMAIN shards[k] = {}
  BY EmptySeq DEF Init
<1>2. Produced = {}
  BY <1>1 DEF Produced
<1>3. Counted
  BY <1>1, <1>2, FS_EmptySet, StreamAssumption DEF Counted, Init
<1>4. AlertSets /\ CollectedWasMet /\ LostBeforeMalformed
  BY DEF Init, DetectorInit, AlertSets, CollectedWasMet, LostBeforeMalformed
<1>5. QED
  BY <1>3, <1>4 DEF HandedInv

LEMMA HandedStep ==
  ASSUME StreamInv, StreamInv', DetectorInv, HandedInv, [Next]_vars PROVE HandedInv'
<1>1. ASSUME NEW e \in Event, Put(e) PROVE HandedInv'
  BY <1>1, PutKeepsHanded
<1>2. ASSUME NEW k \in Shards, Redeliver(k) PROVE HandedInv'
  BY <1>2, RedeliverKeepsHanded
<1>3. CASE Consume \/ NextShard \/ Return
  BY <1>3, PassKeepsHanded
<1>4. ASSUME NEW e \in Event, DropDuplicate(e) PROVE HandedInv'
  <2>1. /\ UNCHANGED <<shards, copies, alerts, seen, result, returned, shard>>
        /\ shard # Idle /\ next' = next + 1 /\ next \in Nat
    BY <1>4 DEF DropDuplicate, Reading, stream, memory, output, detectorVars, StreamInv,
                StreamTypes
  <2>2. QED
    BY <2>1, MoveKeepsHanded
<1>5. ASSUME NEW e \in Event, Process(e) PROVE HandedInv'
  BY <1>5, ProcessKeepsHanded
<1>6. ASSUME NEW e \in Event, ProcessRaises(e) PROVE HandedInv'
  BY <1>6, ProcessRaisesKeepsHanded
<1>7. CASE UNCHANGED vars
  <2>1. UNCHANGED <<shards, copies, alerts, seen, result, returned, shard, next>>
    BY <1>7 DEF vars, stream, position, memory, output, detectorVars
  <2>2. QED
    BY <2>1, MoveKeepsHanded DEF HandedInv, AlertSets
<1>8. QED
  BY <1>1, <1>2, <1>3, <1>4, <1>5, <1>6, <1>7 DEF Next, ConsumerStep

LEMMA HandedInvariant == Spec => []HandedInv
<1>1. StreamInv /\ StreamInv' /\ DetectorInv /\ HandedInv /\ [Next]_vars => HandedInv'
  BY HandedStep
<1>2. QED
  BY <1>1, HandedInit, StreamInvariant, DetectorInvariant, PTL DEF Spec

\* The first place of an event is the one that MetBefore chooses.
LEMMA BeforeIsMetBefore ==
  ASSUME StreamInv, HandedInv, NEW x, NEW y, Before(x, y) PROVE MetBefore(x, y)
<1> DEFINE places == Shards \X (1..Cardinality(Produced) + MaxCopies)
           IsFirst(z, p) == /\ p[2] \in DOMAIN shards[p[1]] /\ shards[p[1]][p[2]].id = z
                            /\ \A n \in 1..(p[2] - 1) : shards[p[1]][n].id # z
           First(z) == CHOOSE p \in places : IsFirst(z, p)
<1>1. ASSUME NEW z, NEW k \in Shards, NEW n \in 1..Len(shards[k]), FirstAt(z, k, n)
      PROVE  First(z) = <<k, n>>
  <2>1. /\ \A l \in Shards : Len(shards[l]) \in Nat /\ DOMAIN shards[l] = 1..Len(shards[l])
        /\ \A l \in Shards : \A m \in 1..Len(shards[l]) : l = ShardFor(shards[l][m].id)
    BY SequenceFacts DEF StreamInv, CarriedWasSent
  <2>2. /\ shards[k][n].id = z /\ \A m \in 1..(n - 1) : shards[k][m].id # z
    BY <1>1 DEF FirstAt
  <2>3. Cardinality(Produced) \in Nat /\ n <= Cardinality(Produced) + MaxCopies
    <3>1. /\ IsFiniteSet(Produced) /\ copies \in 0..MaxCopies
          /\ Len(shards[k]) <= Cardinality(Produced) + copies
      BY DEF HandedInv, Counted
    <3>2. Cardinality(Produced) \in Nat
      BY <3>1, FS_CardinalityType
    <3>3. QED
      BY <2>1, <3>1, <3>2, StreamAssumption
  <2>4. <<k, n>> \in places /\ IsFirst(z, <<k, n>>)
    BY <2>1, <2>2, <2>3, StreamAssumption
  <2>5. ASSUME NEW p \in places, IsFirst(z, p) PROVE p = <<k, n>>
    <3>1. PICK l \in Shards, m \in Nat : p = <<l, m>>
      BY <2>3, <2>5, StreamAssumption
    <3>2. /\ m \in 1..Len(shards[l]) /\ shards[l][m].id = z
          /\ \A i \in 1..(m - 1) : shards[l][i].id # z
      BY <2>1, <2>5, <3>1
    <3>3. l = k
      BY <2>1, <2>2, <3>2
    <3>4. m = n
      BY <2>1, <2>2, <3>2, <3>3
    <3>5. QED
      BY <3>1, <3>3, <3>4
  <2> HIDE DEF places, IsFirst
  <2>6. QED
    BY <2>4, <2>5
<1>2. PICK k \in Shards, l \in Shards :
        \E n \in 1..Len(shards[k]) : \E m \in 1..Len(shards[l]) :
          /\ FirstAt(x, k, n) /\ FirstAt(y, l, m)
          /\ k < l \/ (k = l /\ n < m)
  BY DEF Before
<1>3. PICK n \in 1..Len(shards[k]), m \in 1..Len(shards[l]) :
          /\ FirstAt(x, k, n) /\ FirstAt(y, l, m)
          /\ k < l \/ (k = l /\ n < m)
  BY <1>2
<1>4. First(x) = <<k, n>> /\ First(y) = <<l, m>>
  BY <1>1, <1>3
<1>5. MetBefore(x, y) <=> \/ First(x)[1] < First(y)[1]
                          \/ First(x)[1] = First(y)[1] /\ First(x)[2] < First(y)[2]
  BY DEF MetBefore
<1> HIDE DEF First
<1>6. QED
  BY <1>3, <1>4, <1>5

\* consumer.py: "scores the event with the FraudDetector and collects alerts": no alert is
\* returned twice, and one that no pass has returned and the running pass has not
\* collected was raised for an event that passes meet before a malformed one.
THEOREM AlertsHandedOverHolds == Spec => []AlertsHandedOver
<1>1. StreamInv /\ HandedInv => AlertsHandedOver
  BY BeforeIsMetBefore DEF AlertsHandedOver, HandedInv, AlertSets, LostBeforeMalformed
<1>2. QED
  BY <1>1, StreamInvariant, HandedInvariant, PTL

-----------------------------------------------------------------------------
LateTypes == lastTs \in [Customers -> {0} \cup Times] /\ late \subseteq Ids

LEMMA LateStep ==
  ASSUME LateTypes, [Next]_vars PROVE LateTypes'
<1>1. ASSUME NEW e \in Event, See(e) PROVE LateTypes'
  <2>1. e.ts \in Times /\ e.id \in Ids
    BY EventTimes, EventFields
  <2>2. QED
    BY <1>1, <2>1 DEF See, LateTypes
<1>2. ASSUME NEW e \in Event, Process(e) \/ ProcessRaises(e) PROVE LateTypes'
  BY <1>1, <1>2 DEF Process, ProcessRaises
<1>3. ASSUME UNCHANGED memory PROVE LateTypes'
  BY <1>3 DEF memory, LateTypes
<1>4. QED
  BY <1>2, <1>3
  DEF Next, ConsumerStep, vars, Put, Redeliver, Consume, NextShard, Return, DropDuplicate

\* Every reachable state of the stream, the consumer and the detector is well typed: the
\* place of a pass stays within the shard it reads and a checkpoint within its shard.
THEOREM StreamTypeCorrect == Spec => []TypeOK
<1>1. Init => LateTypes
  BY DEF Init, LateTypes
<1>2. LateTypes /\ [Next]_vars => LateTypes'
  BY LateStep
<1>3. ASSUME StreamInv, DetectorInv, HandedInv, LateTypes PROVE TypeOK
  <2>1. DetectorTypeOK(Ids)
    BY <1>3 DEF DetectorTypeOK, DetectorInv, DetectorTypes
  <2>2. \A k \in Shards : checkpoints[k] \in 0..Len(shards[k])
    BY <1>3, SequenceFacts DEF StreamInv, StreamTypes, BehindCheckpoint
  <2>3. QED
    BY <1>3, <2>1, <2>2
    DEF TypeOK, StreamInv, StreamTypes, HandedInv, AlertSets, Counted, LateTypes
<1>4. QED
  BY <1>1, <1>2, <1>3, StreamInvariant, DetectorInvariant, HandedInvariant, PTL DEF Spec
==============================================================================
