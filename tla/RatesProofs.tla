----------------------------- MODULE RatesProofs -----------------------------
(***************************************************************************)
(* The proofs about the REST API client: what a pull stores misses no      *)
(* rate that qualified from its start to its end, a pull that nothing      *)
(* disturbs is exact, and a POST that returns has made its entry.          *)
(***************************************************************************)
EXTENDS RatesClient, FiniteSetTheorems, SequenceTheorems, TLAPS

\* What the client holds on its way: the rates of the pages it has read are collected,
\* and those that were due and are not collected have their places on later pages. A
\* rate's place only moves back, because the provider only adds rates to those it has
\* for the client.
Behind == (page - 1) * setup.pageSize

PagesInv ==
    /\ pc = "get" =>
         /\ due \subseteq Matching
         /\ \A r \in due : Place(Matching, r) <= Behind => r \in Range(collected)
    /\ pc = "write" => due \subseteq Range(collected)
    /\ latest.due \subseteq Range(latest.data)

\* While nothing has changed, what is collected is the list up to the page to come.
QuietInv ==
    /\ pc = "get" => Behind <= Cardinality(Matching)
    /\ (pc = "get" /\ quiet) => collected = SubSeq(Qualifying, 1, Behind)
    /\ (pc = "write" /\ quiet) => collected = Qualifying

\* A POST has at most one entry for each attempt that is behind it.
LogInv ==
    /\ pc = "post" => log <= attempt
    /\ pc = "posted" => log >= 1

RatesInv == TypeOK /\ PagesInv /\ QuietInv /\ LogInv

-----------------------------------------------------------------------------
(* The order of a finite set of rates.                                     *)

LEMMA UpToIsFinite ==
  ASSUME NEW n \in Nat, NEW S \in SUBSET (1..n)
  PROVE  /\ IsFiniteSet(S) /\ Cardinality(S) \in Nat /\ Cardinality(S) <= n
         /\ \A r \in S : /\ IsFiniteSet({j \in S : j <= r})
                         /\ Place(S, r) \in 1..Cardinality(S)
<1>1. IsFiniteSet(1..n) /\ Cardinality(1..n) = n
  BY FS_Interval
<1>2. IsFiniteSet(S) /\ Cardinality(S) \in Nat /\ Cardinality(S) <= n
  BY <1>1, FS_Subset, FS_CardinalityType
<1>3. ASSUME NEW r \in S
      PROVE  IsFiniteSet({j \in S : j <= r}) /\ Place(S, r) \in 1..Cardinality(S)
  <2> DEFINE T == {j \in S : j <= r}
  <2>1. T \in SUBSET S /\ r \in T
    OBVIOUS
  <2> HIDE DEF T
  <2>2. IsFiniteSet(T) /\ Cardinality(T) <= Cardinality(S) /\ Cardinality(T) \in Nat
    BY <1>2, <2>1, FS_Subset, FS_CardinalityType
  <2>3. Cardinality(T) # 0
    <3>1. T # {}
      BY <2>1
    <3>2. QED
      BY <2>2, <3>1, FS_EmptySet
  <2>4. Place(S, r) = Cardinality(T)
    BY DEF Place, T
  <2>5. QED
    BY <1>2, <2>2, <2>3, <2>4 DEF T
<1>4. QED
  BY <1>2, <1>3

\* Two rates have two places.
LEMMA PlacesDiffer ==
  ASSUME NEW n \in Nat, NEW S \in SUBSET (1..n), NEW q \in S, NEW r \in S, q < r
  PROVE  Place(S, q) < Place(S, r)
<1> DEFINE T == {j \in S : j <= q}
           U == {j \in S : j <= r}
<1>1. T \in SUBSET U /\ r \in U /\ r \notin T
  <2>1. q \in Int /\ r \in Int /\ q < r
    OBVIOUS
  <2>2. r <= r /\ ~(r <= q)
    BY <2>1
  <2>3. ASSUME NEW j \in S, j <= q
        PROVE  j <= r
    <3>1. j \in Int
      OBVIOUS
    <3>2. QED
      BY <2>1, <2>3, <3>1
  <2>4. QED
    BY <2>2, <2>3, Zenon
<1>2. IsFiniteSet(U) /\ IsFiniteSet(T)
  BY UpToIsFinite
<1>3. Place(S, q) = Cardinality(T) /\ Place(S, r) = Cardinality(U)
  BY DEF Place
<1> HIDE DEF T, U
<1>4. Cardinality(T) <= Cardinality(U) /\ Cardinality(T) # Cardinality(U)
  BY <1>1, <1>2, FS_Subset
<1>5. Cardinality(T) \in Nat /\ Cardinality(U) \in Nat
  BY <1>2, FS_CardinalityType
<1>6. QED
  BY <1>3, <1>4, <1>5

\* The list has each rate of the set, at its place.
LEMMA OrderedHasAll ==
  ASSUME NEW n \in Nat, NEW S \in SUBSET (1..n)
  PROVE  /\ Ordered(S) \in Seq(S) /\ Len(Ordered(S)) = Cardinality(S)
         /\ \A r \in S : Ordered(S)[Place(S, r)] = r
         /\ Range(Ordered(S)) = S
<1> DEFINE N == Cardinality(S)
           f == [r \in S |-> Place(S, r)]
<1>1. /\ IsFiniteSet(S) /\ N \in Nat /\ \A r \in S : Place(S, r) \in 1..N
  BY UpToIsFinite
<1>2. IsFiniteSet(1..N) /\ Cardinality(1..N) = N
  BY <1>1, FS_Interval
<1>3. f \in [S -> 1..N]
  BY <1>1
<1>4. ASSUME NEW q \in S, NEW r \in S, Place(S, q) = Place(S, r)
      PROVE  q = r
  <2>1. q \in Int /\ r \in Int
    OBVIOUS
  <2>2. Place(S, q) \in Nat /\ Place(S, r) \in Nat
    BY <1>1
  <2>3. ~(q < r) /\ ~(r < q)
    BY <1>4, <2>2, PlacesDiffer
  <2>4. QED
    BY <2>1, <2>3
<1>5. f \in Injection(S, 1..N)
  <2>1. \A q, r \in S : f[q] = f[r] => q = r
    BY <1>4
  <2> HIDE DEF f, N
  <2>2. QED
    BY <1>3, <2>1 DEF Injection, IsInjective
<1>6. f \in Surjection(S, 1..N)
  <2> HIDE DEF f
  <2>1. QED
    BY <1>1, <1>2, <1>5, FS_Injection
<1>7. \A k \in 1..N : \E r \in S : f[r] = k
  <2> HIDE DEF f, N
  <2>1. QED
    BY <1>6 DEF Surjection
<1>8. ASSUME NEW k \in 1..N
      PROVE  Ordered(S)[k] \in S /\ Place(S, Ordered(S)[k]) = k
  <2>1. Ordered(S)[k] = CHOOSE r \in S : Place(S, r) = k
    BY DEF Ordered
  <2>2. \E r \in S : Place(S, r) = k
    BY <1>7
  <2>3. QED
    BY <2>1, <2>2
<1>9. Ordered(S) = [k \in 1..N |-> Ordered(S)[k]]
  BY DEF Ordered
<1>10. Ordered(S) \in [1..N -> S]
  BY <1>8, <1>9
<1>11. Ordered(S) \in Seq(S) /\ Len(Ordered(S)) = N
  <2> HIDE DEF N
  <2>1. Ordered(S) \in Seq(S)
    BY <1>1, <1>10, SeqDef
  <2>2. QED
    BY <1>1, <1>10, <2>1
<1>12. ASSUME NEW r \in S
       PROVE  Ordered(S)[Place(S, r)] = r
  BY <1>1, <1>4, <1>8
<1>13. Range(Ordered(S)) = S
  <2>1. Range(Ordered(S)) = {Ordered(S)[k] : k \in 1..N}
    BY <1>10 DEF Range
  <2>2. QED
    BY <1>1, <1>8, <1>12, <2>1
<1>14. QED
  BY <1>11, <1>12, <1>13

\* A rate's place moves back when there are more rates.
LEMMA PlacesMoveBack ==
  ASSUME NEW n \in Nat, NEW T \in SUBSET (1..n), NEW S \in SUBSET T, NEW r \in S
  PROVE  Place(S, r) <= Place(T, r)
<1> DEFINE A == {j \in S : j <= r}
           B == {j \in T : j <= r}
<1>1. A \in SUBSET B
  OBVIOUS
<1>2. IsFiniteSet(B)
  BY UpToIsFinite
<1>3. Place(S, r) = Cardinality(A) /\ Place(T, r) = Cardinality(B)
  BY DEF Place
<1>4. Cardinality(A) <= Cardinality(B)
  <2> HIDE DEF A, B
  <2>1. QED
    BY <1>1, <1>2, FS_Subset
<1>5. QED
  BY <1>3, <1>4

LEMMA RangeOfConcat ==
  ASSUME NEW S, NEW s \in Seq(S), NEW t \in Seq(S)
  PROVE  Range(s \o t) = Range(s) \cup Range(t)
<1>1. /\ Len(s) \in Nat /\ Len(t) \in Nat
      /\ DOMAIN s = 1..Len(s) /\ DOMAIN t = 1..Len(t)
      /\ DOMAIN (s \o t) = 1..(Len(s) + Len(t))
  BY ConcatProperties, LenProperties
<1>2. \A i \in 1..(Len(s) + Len(t)) :
         (s \o t)[i] = IF i <= Len(s) THEN s[i] ELSE t[i - Len(s)]
  BY ConcatProperties
<1>3. ASSUME NEW i \in 1..Len(s)
      PROVE  s[i] \in Range(s \o t)
  <2>1. i \in 1..(Len(s) + Len(t)) /\ (s \o t)[i] = s[i]
    BY <1>1, <1>2
  <2>2. QED
    BY <1>1, <2>1 DEF Range
<1>4. ASSUME NEW i \in 1..Len(t)
      PROVE  t[i] \in Range(s \o t)
  <2>1. i + Len(s) \in 1..(Len(s) + Len(t)) /\ (s \o t)[i + Len(s)] = t[i]
    BY <1>1, <1>2
  <2>2. QED
    BY <1>1, <2>1 DEF Range
<1>5. ASSUME NEW i \in 1..(Len(s) + Len(t))
      PROVE  (s \o t)[i] \in Range(s) \cup Range(t)
  <2>1. CASE i <= Len(s)
    BY <1>1, <1>2, <2>1 DEF Range
  <2>2. CASE i > Len(s)
    <3>1. i - Len(s) \in 1..Len(t) /\ (s \o t)[i] = t[i - Len(s)]
      BY <1>1, <1>2, <2>2
    <3>2. QED
      BY <1>1, <3>1 DEF Range
  <2>3. QED
    BY <1>1, <2>1, <2>2
<1>6. QED
  BY <1>1, <1>3, <1>4, <1>5 DEF Range
-----------------------------------------------------------------------------
(* A page of the list.                                                      *)

LEMMA MatchingTyped ==
  ASSUME TypeOK
  PROVE  /\ listed \in Nat /\ Matching \in SUBSET (1..listed) /\ Matching \subseteq Rates
         /\ setup.pageSize \in Nat \ {0}
         /\ Cardinality(Matching) \in Nat /\ Cardinality(Matching) <= MaxRates
         /\ Len(Qualifying) = Cardinality(Matching)
         /\ Qualifying \in Seq(Rates) /\ Range(Qualifying) = Matching
         /\ Behind \in Nat
         /\ \A r \in Matching : /\ Place(Matching, r) \in 1..Len(Qualifying)
                                /\ Qualifying[Place(Matching, r)] = r
<1>1. listed \in Nat /\ listed <= MaxRates /\ MaxRates \in Nat /\ MaxPageSize \in Nat
  BY RatesAssumption DEF TypeOK
<1>2. setup.pageSize \in Nat \ {0} /\ page \in Nat \ {0}
  BY <1>1, RatesAssumption DEF TypeOK
<1>3. Behind \in Nat
  BY <1>2 DEF Behind
<1>4. Matching \in SUBSET (1..listed) /\ Matching \subseteq Rates
  BY <1>1 DEF Matching, Rates
<1>5. /\ Cardinality(Matching) \in Nat /\ Cardinality(Matching) <= listed
      /\ \A r \in Matching : Place(Matching, r) \in 1..Cardinality(Matching)
  BY <1>1, <1>4, UpToIsFinite
<1>6. /\ Qualifying \in Seq(Matching) /\ Len(Qualifying) = Cardinality(Matching)
      /\ Range(Qualifying) = Matching
      /\ \A r \in Matching : Qualifying[Place(Matching, r)] = r
  BY <1>1, <1>4, OrderedHasAll DEF Qualifying
<1>7. Qualifying \in Seq(Rates)
  BY <1>4, <1>6, SeqMonotonic
<1>8. QED
  BY <1>1, <1>2, <1>3, <1>4, <1>5, <1>6, <1>7

\* A page has the rates whose places are on it.
LEMMA ChunkHasItsPlaces ==
  ASSUME TypeOK
  PROVE  /\ Chunk(page) \in Seq(Rates)
         /\ \A r \in Matching :
               (/\ Behind < Place(Matching, r)
                /\ Place(Matching, r) <= Behind + setup.pageSize) => r \in Range(Chunk(page))
<1> DEFINE Q == Qualifying
           last == IF Behind + setup.pageSize < Len(Q) THEN Behind + setup.pageSize ELSE Len(Q)
           C == SubSeq(Q, Behind + 1, last)
<1>1. /\ setup.pageSize \in Nat \ {0} /\ Behind \in Nat
      /\ Len(Q) \in Nat /\ Q \in Seq(Rates)
  BY MatchingTyped, LenProperties
<1>2. Chunk(page) = C
  BY DEF Chunk, Behind
<1>3. last \in Int /\ last <= Len(Q)
  BY <1>1
<1>4. \A i \in (Behind + 1)..last : Q[i] \in Rates
  BY <1>1, <1>3, ElementOfSeq
<1>5. /\ C \in Seq(Rates)
      /\ Len(C) = IF Behind + 1 <= last THEN last - (Behind + 1) + 1 ELSE 0
      /\ \A i \in 1..(last - (Behind + 1) + 1) : C[i] = Q[Behind + 1 + i - 1]
  <2> HIDE DEF last, Q
  <2>1. QED
    BY <1>1, <1>3, <1>4, SubSeqProperties
<1>6. ASSUME NEW r \in Matching,
             Behind < Place(Matching, r), Place(Matching, r) <= Behind + setup.pageSize
      PROVE  r \in Range(C)
  <2> DEFINE k == Place(Matching, r)
  <2>1. k \in 1..Len(Q) /\ Q[k] = r
    BY MatchingTyped
  <2>2. k <= last
    BY <1>1, <1>6, <2>1
  <2> HIDE DEF last, k, Q, C
  <2>3. Behind < k
    BY <1>6 DEF k
  <2>4. /\ k - Behind \in 1..(last - (Behind + 1) + 1)
        /\ Behind + 1 + (k - Behind) - 1 = k /\ k - Behind \in 1..Len(C)
    BY <1>1, <1>3, <1>5, <2>1, <2>2, <2>3
  <2>5. C[k - Behind] = r
    BY <1>5, <2>1, <2>4
  <2>6. DOMAIN C = 1..Len(C)
    BY <1>5, LenProperties
  <2>7. QED
    BY <2>4, <2>5, <2>6 DEF Range
<1>7. QED
  BY <1>2, <1>5, <1>6

\* The list up to this page, and this page, are the list up to the next one.
LEMMA ChunkGoesOn ==
  ASSUME TypeOK, Behind <= Len(Qualifying)
  PROVE  SubSeq(Qualifying, 1, Behind) \o Chunk(page)
            = IF Behind + setup.pageSize < Len(Qualifying)
                THEN SubSeq(Qualifying, 1, Behind + setup.pageSize)
                ELSE Qualifying
<1> DEFINE Q == Qualifying
           last == IF Behind + setup.pageSize < Len(Q) THEN Behind + setup.pageSize ELSE Len(Q)
<1>1. /\ setup.pageSize \in Nat \ {0} /\ Behind \in Nat
      /\ Len(Q) \in Nat /\ Q \in Seq(Rates)
  BY MatchingTyped, LenProperties
<1>2. Chunk(page) = SubSeq(Q, Behind + 1, last)
  BY DEF Chunk, Behind
<1>3. last \in Behind..Len(Q) /\ Behind \in 0..Len(Q) /\ 1 \in 1..(Len(Q) + 1) /\ Behind \in (1 - 1)..Len(Q)
  BY <1>1
<1>4. SubSeq(Q, 1, Behind) \o SubSeq(Q, Behind + 1, last) = SubSeq(Q, 1, last)
  <2> HIDE DEF last, Q
  <2>1. QED
    BY <1>1, <1>3, ConcatAdjacentSubSeq
<1>5. CASE Behind + setup.pageSize < Len(Q)
  BY <1>2, <1>4, <1>5
<1>6. CASE ~(Behind + setup.pageSize < Len(Q))
  <2>1. last = Len(Q)
    BY <1>6
  <2>2. SubSeq(Q, 1, last) = Q
    BY <1>1, <2>1, SubSeqFull
  <2>3. QED
    BY <1>2, <1>4, <1>6, <2>2
<1>7. QED
  BY <1>5, <1>6
-----------------------------------------------------------------------------
(* The provider may change: what matches stays.                            *)

LEMMA MatchingGrows ==
  ASSUME TypeOK, ProviderChanges
  PROVE  /\ Matching \subseteq Matching' /\ listed' \in Nat /\ listed' <= MaxRates
         /\ listed <= listed' /\ fresh' \subseteq 1..listed'
<1>1. listed \in Nat /\ listed <= MaxRates /\ MaxRates \in Nat /\ fresh \subseteq 1..listed
  BY RatesAssumption DEF TypeOK
<1>2. /\ listed' \in Nat /\ listed' <= MaxRates /\ listed <= listed'
      /\ fresh' \subseteq 1..listed'
      /\ fresh \subseteq fresh' /\ (1..listed') \subseteq (1..listed) \cup fresh'
  <2>1. CASE listed < MaxRates /\ listed' = listed + 1 /\ fresh' = fresh \cup {listed + 1}
    BY <1>1, <2>1
  <2>2. CASE UNCHANGED listed /\ \E i \in (1..listed) \ fresh : fresh' = fresh \cup {i}
    BY <1>1, <2>2
  <2>3. QED
    BY <2>1, <2>2 DEF ProviderChanges
<1>3. setup' = setup
  BY DEF ProviderChanges
<1>4. (1..listed) \subseteq (1..listed')
  BY <1>1, <1>2
<1>5. Matching \subseteq Matching'
  BY <1>2, <1>3, <1>4 DEF Matching
<1>6. QED
  BY <1>2, <1>5

LEMMA ProviderChangesStep ==
  ASSUME RatesInv, ProviderChanges
  PROVE  RatesInv'
<1>1. TypeOK /\ PagesInv /\ QuietInv /\ LogInv
  BY DEF RatesInv
<1>2. /\ UNCHANGED <<log, setup, client, due>> /\ quiet' = FALSE
      /\ Matching \subseteq Matching' /\ listed' \in Nat /\ listed' <= MaxRates
      /\ listed <= listed' /\ fresh' \subseteq 1..listed'
  BY <1>1, MatchingGrows DEF ProviderChanges
<1>3. /\ log' = log /\ setup' = setup /\ due' = due /\ pc' = pc /\ page' = page
      /\ attempt' = attempt /\ collected' = collected /\ latest' = latest
      /\ Behind' = Behind
  BY <1>2 DEF client, Behind
<1>4. TypeOK'
  <2>1. listed' \in 0..MaxRates /\ (1..listed) \subseteq (1..listed')
    BY <1>1, <1>2, RatesAssumption DEF TypeOK
  <2>2. QED
    BY <1>1, <1>2, <1>3, <2>1 DEF TypeOK
<1>5. /\ Matching' \in SUBSET (1..listed')
      /\ Cardinality(Matching) \in Nat /\ Cardinality(Matching') \in Nat
      /\ Cardinality(Matching) <= Cardinality(Matching')
      /\ Behind \in Nat
  <2>1. Matching' \in SUBSET (1..listed')
    BY DEF Matching
  <2>2. IsFiniteSet(Matching') /\ Cardinality(Matching') \in Nat
    BY <1>2, <2>1, UpToIsFinite
  <2>3. QED
    BY <1>1, <1>2, <2>1, <2>2, FS_Subset, MatchingTyped
<1>6. PagesInv'
  <2>1. ASSUME pc = "get", NEW r \in due, Place(Matching', r) <= Behind
        PROVE  r \in Range(collected)
    <3>1. r \in Matching /\ Matching \in SUBSET Matching'
      BY <1>1, <1>2, <2>1 DEF PagesInv
    <3>2. Place(Matching, r) <= Place(Matching', r)
      BY <1>2, <1>5, <3>1, PlacesMoveBack
    <3>3. Place(Matching, r) \in Nat /\ Place(Matching', r) \in Nat
      <4>1. Matching \in SUBSET (1..listed')
        BY <1>5, <3>1
      <4>2. /\ Place(Matching, r) \in 1..Cardinality(Matching)
            /\ Place(Matching', r) \in 1..Cardinality(Matching')
        <5>1. r \in Matching'
          BY <3>1
        <5> HIDE DEF Matching
        <5>2. QED
          BY <1>2, <1>5, <3>1, <4>1, <5>1, UpToIsFinite, Zenon
      <4>3. QED
        BY <4>2
    <3>4. Place(Matching, r) <= Behind
      BY <1>5, <2>1, <3>2, <3>3
    <3>5. QED
      BY <1>1, <2>1, <3>4 DEF PagesInv
  <2>2. QED
    BY <1>1, <1>2, <1>3, <2>1 DEF PagesInv
<1>7. QuietInv'
  BY <1>1, <1>2, <1>3, <1>5 DEF QuietInv
<1>8. LogInv'
  BY <1>1, <1>3 DEF LogInv
<1>9. QED
  BY <1>4, <1>6, <1>7, <1>8 DEF RatesInv

-----------------------------------------------------------------------------
(* The client's steps.                                                     *)

\* What a step that leaves the provider alone leaves of its rates.
LEMMA ProviderSame ==
  ASSUME UNCHANGED <<listed, fresh, setup>>
  PROVE  Matching' = Matching /\ Qualifying' = Qualifying
BY DEF Matching, Qualifying

LEMMA StartIngestionStep ==
  ASSUME RatesInv, StartIngestion
  PROVE  RatesInv'
<1>1. TypeOK /\ PagesInv /\ QuietInv /\ LogInv
  BY DEF RatesInv
<1>2. /\ pc' = "get" /\ page' = 1 /\ attempt' = 0 /\ collected' = <<>>
      /\ due' = Matching /\ quiet' = TRUE
      /\ listed' = listed /\ fresh' = fresh /\ log' = log
      /\ setup' = setup /\ latest' = latest
  BY <1>1, MatchingTyped DEF StartIngestion, provider
<1>3. Matching' = Matching /\ Qualifying' = Qualifying
  BY <1>2, ProviderSame
<1>4. Matching \subseteq 1..listed /\ MaxRates \in Nat /\ MaxAttempts \in Nat \ {0}
  BY <1>1, MatchingTyped, RatesAssumption
<1>5. TypeOK'
  BY <1>1, <1>2, <1>4 DEF TypeOK
<1>6. Behind' = 0
  <2>1. setup.pageSize \in Nat
    BY <1>1, MatchingTyped
  <2>2. QED
    BY <1>2, <2>1 DEF Behind
<1>7. /\ Cardinality(Matching) \in Nat
      /\ \A r \in Matching : Place(Matching, r) \in 1..Len(Qualifying)
  BY <1>1, MatchingTyped
<1>8. PagesInv'
  <2>1. \A r \in due' : ~(Place(Matching', r) <= Behind')
    BY <1>2, <1>3, <1>6, <1>7
  <2>2. QED
    BY <1>1, <1>2, <1>3, <2>1 DEF PagesInv
<1>9. QuietInv'
  <2>1. SubSeq(Qualifying, 1, 0) = <<>>
    BY SubSeqEmpty
  <2>2. QED
    BY <1>2, <1>3, <1>6, <1>7, <2>1 DEF QuietInv
<1>10. LogInv'
  BY <1>2 DEF LogInv
<1>11. QED
  BY <1>5, <1>8, <1>9, <1>10 DEF RatesInv

LEMMA PagesOf ==
  ASSUME NEW p \in Nat \ {0}, NEW size \in Nat \ {0}
  PROVE  p * size = (p - 1) * size + size /\ p <= p * size
<1>1. p * size = (p - 1) * size + size
  OBVIOUS
<1>2. p <= p * size
  <2>1. p * size = p * (size - 1) + p
    OBVIOUS
  <2>2. p * (size - 1) >= 0
    OBVIOUS
  <2>3. p * (size - 1) \in Int
    OBVIOUS
  <2>4. QED
    BY <2>1, <2>2, <2>3
<1>3. QED
  BY <1>1, <1>2

LEMMA PageArrivesStep ==
  ASSUME RatesInv, PageArrives
  PROVE  RatesInv'
<1>1. TypeOK /\ PagesInv /\ QuietInv /\ LogInv
  BY DEF RatesInv
<1>2. /\ pc = "get" /\ collected' = collected \o Chunk(page) /\ attempt' = 0
      /\ listed' = listed /\ fresh' = fresh /\ log' = log
      /\ setup' = setup /\ latest' = latest /\ due' = due /\ quiet' = quiet
  BY DEF PageArrives, provider, history
<1>3. Matching' = Matching /\ Qualifying' = Qualifying
  BY <1>2, ProviderSame
<1>4. /\ setup.pageSize \in Nat \ {0} /\ Behind \in Nat
      /\ Len(Qualifying) = Cardinality(Matching) /\ Cardinality(Matching) \in Nat
      /\ Cardinality(Matching) <= MaxRates
      /\ MaxRates \in Nat /\ MaxAttempts \in Nat \ {0} /\ page \in Nat \ {0}
      /\ collected \in Seq(Rates) /\ Chunk(page) \in Seq(Rates)
      /\ \A r \in Matching : Place(Matching, r) \in 1..Len(Qualifying)
  BY <1>1, MatchingTyped, ChunkHasItsPlaces, RatesAssumption DEF TypeOK
<1>5. collected' \in Seq(Rates) /\ Range(collected') = Range(collected) \cup Range(Chunk(page))
  BY <1>2, <1>4, ConcatProperties, RangeOfConcat
<1>6. page * setup.pageSize = Behind + setup.pageSize /\ page <= page * setup.pageSize
  <2>1. page \in Nat \ {0} /\ setup.pageSize \in Nat \ {0}
    BY <1>4
  <2>2. /\ page * setup.pageSize = (page - 1) * setup.pageSize + setup.pageSize
        /\ page <= page * setup.pageSize
    BY <2>1, PagesOf
  <2>3. QED
    BY <2>2 DEF Behind
<1>7. ASSUME NEW r \in due, Place(Matching, r) <= Behind + setup.pageSize
      PROVE  r \in Range(collected')
  <2>1. r \in Matching
    BY <1>1, <1>2 DEF PagesInv
  <2>2. CASE Place(Matching, r) <= Behind
    BY <1>1, <1>2, <1>5, <2>2 DEF PagesInv
  <2>3. CASE Behind < Place(Matching, r)
    BY <1>1, <1>5, <1>7, <2>1, <2>3, ChunkHasItsPlaces
  <2>4. QED
    BY <1>4, <2>1, <2>2, <2>3
<1>8. CASE HasNext(page)
  <2>1. /\ page' = page + 1 /\ pc' = "get"
        /\ Behind + setup.pageSize < Len(Qualifying)
    BY <1>6, <1>8 DEF PageArrives, HasNext
  <2>2. page' \in 1..(MaxRates + 1)
    BY <1>4, <1>6, <2>1
  <2>3. TypeOK'
    BY <1>1, <1>2, <1>4, <1>5, <2>1, <2>2 DEF TypeOK
  <2>4. Behind' = Behind + setup.pageSize
    <3>1. Behind' = ((page + 1) - 1) * setup.pageSize
      BY <1>2, <2>1 DEF Behind
    <3>2. (page + 1) - 1 = page
      BY <1>4
    <3>3. QED
      BY <1>6, <3>1, <3>2
  <2>5. PagesInv'
    BY <1>1, <1>2, <1>3, <1>7, <2>1, <2>4 DEF PagesInv
  <2>6. quiet => collected' = SubSeq(Qualifying, 1, Behind + setup.pageSize)
    BY <1>1, <1>2, <1>4, <2>1, ChunkGoesOn DEF QuietInv
  <2>7. QuietInv'
    BY <1>2, <1>3, <1>4, <2>1, <2>4, <2>6 DEF QuietInv
  <2>8. LogInv'
    BY <2>1 DEF LogInv
  <2>9. QED
    BY <2>3, <2>5, <2>7, <2>8 DEF RatesInv
<1>9. CASE ~HasNext(page)
  <2>1. /\ page' = page /\ pc' = "write"
        /\ ~(Behind + setup.pageSize < Len(Qualifying))
    BY <1>6, <1>9 DEF PageArrives, HasNext
  <2>2. TypeOK'
    BY <1>1, <1>2, <1>4, <1>5, <2>1 DEF TypeOK
  <2>3. due \subseteq Range(collected')
    <3>1. ASSUME NEW r \in due
          PROVE  Place(Matching, r) <= Behind + setup.pageSize
      <4>1. r \in Matching
        BY <1>1, <1>2 DEF PagesInv
      <4>2. QED
        BY <1>4, <2>1, <4>1
    <3>2. QED
      BY <1>7, <3>1
  <2>4. PagesInv'
    BY <1>1, <1>2, <2>1, <2>3 DEF PagesInv
  <2>5. quiet => collected' = Qualifying
    BY <1>1, <1>2, <1>4, <2>1, ChunkGoesOn DEF QuietInv
  <2>6. QuietInv'
    BY <1>2, <1>3, <2>1, <2>5 DEF QuietInv
  <2>7. LogInv'
    BY <2>1 DEF LogInv
  <2>8. QED
    BY <2>2, <2>4, <2>6, <2>7 DEF RatesInv
<1>10. QED
  BY <1>8, <1>9

\* A step of the client that reads no page leaves what is collected, and what the pull
\* is about, as they are.
LEMMA OtherStep ==
  ASSUME RatesInv, UNCHANGED <<listed, fresh, setup, page, collected, due, quiet>>,
         log' \in 0..MaxAttempts, attempt' \in 0..(MaxAttempts - 1),
         pc' \in {"idle", "get", "write", "post", "posted"},
         pc' \in {"get", "write"} => pc' = pc,
         latest' = latest \/ (pc = "write" /\ latest' = [data |-> collected, due |-> due]),
         LogInv'
  PROVE  RatesInv'
<1>1. TypeOK /\ PagesInv /\ QuietInv /\ LogInv
  BY DEF RatesInv
<1>2. /\ Matching' = Matching /\ Qualifying' = Qualifying /\ Behind' = Behind
      /\ Matching \subseteq Rates
  BY <1>1, ProviderSame, MatchingTyped DEF Behind
<1>3. due \subseteq Rates
  <2>1. listed \in Nat /\ listed <= MaxRates /\ MaxRates \in Nat /\ due \subseteq 1..listed
    BY <1>1, RatesAssumption DEF TypeOK
  <2>2. QED
    BY <2>1 DEF Rates
<1>4. TypeOK'
  <2>1. latest'.data \in Seq(Rates) /\ latest'.due \subseteq Rates
    <3>1. collected \in Seq(Rates) /\ latest.data \in Seq(Rates) /\ latest.due \subseteq Rates
      BY <1>1 DEF TypeOK
    <3>2. CASE latest' = latest
      BY <3>1, <3>2
    <3>3. CASE latest' = [data |-> collected, due |-> due]
      BY <1>3, <3>1, <3>3
    <3>4. QED
      BY <3>2, <3>3
  <2>2. QED
    BY <1>1, <2>1 DEF TypeOK
<1>5. PagesInv'
  BY <1>1, <1>2 DEF PagesInv
<1>6. QuietInv'
  BY <1>1, <1>2 DEF QuietInv
<1>7. QED
  BY <1>4, <1>5, <1>6 DEF RatesInv

\* Giving up, or another attempt.
LEMMA FailureCases ==
  ASSUME TypeOK, NEW step, Failure(step)
  PROVE  \/ pc' = "idle" /\ attempt' = 0
         \/ pc' = step /\ attempt' = attempt + 1 /\ attempt + 1 \in 0..(MaxAttempts - 1)
<1>1. attempt \in Nat /\ MaxAttempts \in Nat \ {0}
  BY RatesAssumption DEF TypeOK
<1>2. QED
  BY <1>1 DEF Failure

LEMMA ClientOtherStep ==
  ASSUME RatesInv,
         PageFails \/ Unauthorized \/ WriteRaw \/ PostAnswered \/ PostFails \/ PostReturns
           \/ StartPost \/ Killed
  PROVE  RatesInv'
<1>1. TypeOK /\ LogInv
  BY DEF RatesInv
<1>2. /\ MaxAttempts \in Nat \ {0} /\ log \in 0..MaxAttempts
      /\ attempt \in 0..(MaxAttempts - 1) /\ attempt \in Nat /\ log \in Nat
      /\ 0 \in 0..(MaxAttempts - 1) /\ 0 \in 0..MaxAttempts
  BY <1>1, RatesAssumption DEF TypeOK
<1>3. CASE PageFails
  <2>1. /\ pc = "get" /\ UNCHANGED <<listed, fresh, log, setup, page, collected, latest, due, quiet>>
        /\ Failure("get")
    BY <1>3 DEF PageFails, provider, history
  <2>2. pc' \in {"idle", "get"} /\ attempt' \in 0..(MaxAttempts - 1)
    BY <1>1, <1>2, <2>1, FailureCases
  <2>3. LogInv'
    BY <2>2 DEF LogInv
  <2>4. QED
    BY <1>2, <2>1, <2>2, <2>3, OtherStep
<1>4. CASE Unauthorized
  <2>1. /\ pc' = "idle" /\ attempt' = 0
        /\ UNCHANGED <<listed, fresh, log, setup, page, collected, latest, due, quiet>>
    BY <1>4 DEF Unauthorized, provider, history
  <2>2. LogInv'
    BY <2>1 DEF LogInv
  <2>3. QED
    BY <1>2, <2>1, <2>2, OtherStep
<1>5. CASE WriteRaw
  <2>1. /\ pc = "write" /\ pc' = "idle"
        /\ latest' \in {latest, [data |-> collected, due |-> due]}
        /\ UNCHANGED <<listed, fresh, log, setup, page, attempt, collected, due, quiet>>
    BY <1>5 DEF WriteRaw, provider, history
  <2>2. LogInv'
    BY <2>1 DEF LogInv
  <2>3. QED
    BY <1>2, <2>1, <2>2, OtherStep
<1>6. CASE PostAnswered
  <2>1. /\ pc = "post" /\ pc' = "posted" /\ log' = log + 1 /\ attempt' = 0
        /\ UNCHANGED <<listed, fresh, setup, page, collected, latest, due, quiet>>
    BY <1>6 DEF PostAnswered, history
  <2>2. log <= attempt
    BY <1>1, <2>1 DEF LogInv
  <2>3. LogInv' /\ log' \in 0..MaxAttempts
    BY <1>2, <2>1, <2>2 DEF LogInv
  <2>4. QED
    BY <1>2, <2>1, <2>3, OtherStep
<1>7. CASE PostFails
  <2>1. /\ pc = "post" /\ log' \in {log, log + 1} /\ Failure("post")
        /\ UNCHANGED <<listed, fresh, setup, page, collected, latest, due, quiet>>
    BY <1>7 DEF PostFails, history
  <2>2. log <= attempt
    BY <1>1, <2>1 DEF LogInv
  <2>3. log' \in 0..MaxAttempts /\ log' <= attempt + 1
    BY <1>2, <2>1, <2>2
  <2>4. \/ pc' = "idle" /\ attempt' = 0
        \/ pc' = "post" /\ attempt' = attempt + 1 /\ attempt + 1 \in 0..(MaxAttempts - 1)
    BY <1>1, <2>1, FailureCases
  <2>5. LogInv'
    BY <2>3, <2>4 DEF LogInv
  <2>6. pc' \in {"idle", "post"} /\ attempt' \in 0..(MaxAttempts - 1)
    BY <1>2, <2>4
  <2>7. QED
    BY <2>1, <2>3, <2>5, <2>6, OtherStep
<1>8. CASE PostReturns
  <2>1. /\ pc' = "idle"
        /\ UNCHANGED <<listed, fresh, log, setup, page, attempt, collected, latest, due, quiet>>
    BY <1>8 DEF PostReturns, provider, history
  <2>2. LogInv'
    BY <2>1 DEF LogInv
  <2>3. QED
    BY <1>2, <2>1, <2>2, OtherStep
<1>9. CASE StartPost
  <2>1. /\ pc' = "post" /\ attempt' = 0 /\ log' = 0
        /\ UNCHANGED <<listed, fresh, setup, page, collected, latest, due, quiet>>
    BY <1>9 DEF StartPost, history
  <2>2. LogInv'
    BY <2>1 DEF LogInv
  <2>3. QED
    BY <1>2, <2>1, <2>2, OtherStep
<1>10. CASE Killed
  <2>1. /\ pc' = "idle" /\ attempt' = 0
        /\ UNCHANGED <<listed, fresh, log, setup, page, collected, latest, due, quiet>>
    BY <1>10 DEF Killed, provider, history
  <2>2. LogInv'
    BY <2>1 DEF LogInv
  <2>3. QED
    BY <1>2, <2>1, <2>2, OtherStep
<1>11. QED
  BY <1>3, <1>4, <1>5, <1>6, <1>7, <1>8, <1>9, <1>10

-----------------------------------------------------------------------------
(* The theorems.                                                           *)

\* get_all_rates(), retry() and post_ingest_log() keep, from the first page to the last
\* and from the first attempt to the last, what the client has collected in step with
\* the provider's list, and what the provider has logged in step with the attempts.
THEOREM RatesInvariant == Spec => []RatesInv
<1>1. Init => RatesInv
  <2>1. SUFFICES ASSUME Init PROVE RatesInv
    OBVIOUS
  <2>2. MaxRates \in Nat /\ MaxAttempts \in Nat \ {0}
    BY RatesAssumption
  <2>3. TypeOK
    <3>1. latest.data = <<>> /\ latest.due = {}
      <4>1. latest = [data |-> <<>>, due |-> {}]
        BY <2>1, Zenon DEF Init
      <4>2. QED
        BY <4>1
    <3>2. <<>> \in Seq(Rates)
      OBVIOUS
    <3>3. /\ listed \in 0..MaxRates /\ fresh \subseteq 1..listed /\ log = 0
          /\ setup \in [pageSize : 1..MaxPageSize, since : BOOLEAN, authorized : BOOLEAN]
          /\ pc = "idle" /\ page = 1 /\ attempt = 0 /\ collected = <<>> /\ due = {} /\ quiet = TRUE
      BY <2>1, Zenon DEF Init
    <3>4. 0 \in 0..MaxAttempts /\ 0 \in 0..(MaxAttempts - 1) /\ 1 \in 1..(MaxRates + 1)
      BY <2>2
    <3>5. QED
      BY <3>1, <3>2, <3>3, <3>4 DEF TypeOK
  <2>4. PagesInv /\ QuietInv /\ LogInv
    <3>1. pc = "idle" /\ latest.due = {}
      <4>1. pc = "idle" /\ latest = [data |-> <<>>, due |-> {}]
        BY <2>1, Zenon DEF Init
      <4>2. QED
        BY <4>1
    <3>2. QED
      BY <3>1 DEF PagesInv, QuietInv, LogInv
  <2>5. QED
    BY <2>3, <2>4 DEF RatesInv
<1>2. RatesInv /\ [Next]_vars => RatesInv'
  <2>1. SUFFICES ASSUME RatesInv, [Next]_vars PROVE RatesInv'
    OBVIOUS
  <2>2. CASE ProviderChanges
    BY <2>1, <2>2, ProviderChangesStep
  <2>3. CASE StartIngestion
    BY <2>1, <2>3, StartIngestionStep
  <2>4. CASE PageArrives
    BY <2>1, <2>4, PageArrivesStep
  <2>5. CASE PageFails \/ Unauthorized \/ WriteRaw \/ PostAnswered \/ PostFails \/ PostReturns
               \/ StartPost \/ Killed
    BY <2>1, <2>5, ClientOtherStep
  <2>6. CASE UNCHANGED vars
    BY <2>1, <2>6 DEF vars, provider, client, history, RatesInv, TypeOK, PagesInv, QuietInv,
         LogInv, Behind, Matching, Qualifying
  <2>7. QED
    BY <2>1, <2>2, <2>3, <2>4, <2>5, <2>6 DEF Next, ClientStep
<1>3. QED
  BY <1>1, <1>2, PTL DEF Spec

\* The locals of get_all_rates() and retry(), and the files, keep their types.
THEOREM RatesTypeCorrect == Spec => []TypeOK
<1>1. RatesInv => TypeOK
  BY DEF RatesInv
<1>2. QED
  BY <1>1, RatesInvariant, PTL

\* What is stored has every rate that qualified from the first page to the last.
THEOREM NothingIsMissed == Spec => []NothingMissed
<1>1. RatesInv => NothingMissed
  BY DEF RatesInv, PagesInv, NothingMissed
<1>2. QED
  BY <1>1, RatesInvariant, PTL

\* While nothing changes, each rate comes once and in order, whatever was retried.
THEOREM ExactIfQuiet == Spec => []ExactWhenQuiet
<1>1. RatesInv => ExactWhenQuiet
  BY DEF RatesInv, QuietInv, ExactWhenQuiet
<1>2. QED
  BY <1>1, RatesInvariant, PTL

\* A POST that returns has made its entry, and no more than one for each attempt.
THEOREM PostedWasLogged == Spec => []PostedIsLogged
<1>1. RatesInv => PostedIsLogged
  BY RatesAssumption DEF RatesInv, LogInv, TypeOK, PostedIsLogged
<1>2. QED
  BY <1>1, RatesInvariant, PTL
==============================================================================
