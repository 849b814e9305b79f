---------------------------- MODULE HistoryProofs ----------------------------
(***************************************************************************)
(* Proofs about CustomerHistory and ChangeLog, for any customers, any      *)
(* writes of the table, any number of jobs and any arrival of the events.  *)
(***************************************************************************)
EXTENDS CustomerHistory, ChangeLog, FiniteSetTheorems, WellFoundedInduction, TLAPS

HistoryVars == <<tableVars, historyVars>>

HistoryNext ==
    \/ TableStep /\ UNCHANGED historyVars
    \/ \E w \in Jobs : JobStep(w)

HistoryTypes == TableTypeOK /\ HistoryTypeOK

-----------------------------------------------------------------------------
LEMMA HistoryTypesInit == TableInit /\ HistoryInit => HistoryTypes
BY TableAssumption
DEF TableInit, HistoryInit, HistoryTypes, TableTypeOK, HistoryTypeOK, Rows, NoRow, Undated

\* A write of the table, with its event.
LEMMA TableTypesStep ==
  ASSUME TableTypeOK, TableStep PROVE TableTypeOK'
<1> USE TableAssumption DEF TableTypeOK
<1>1. ASSUME NEW op \in {"INSERT", "UPDATE", "DELETE"}, NEW k \in Keys,
             NEW row \in Rows \cup {NoRow}, Change(op, k, row)
      PROVE  TableTypeOK'
  <2>1. clock' \in 0..MaxTime /\ clock + 1 \in 1..MaxTime
    BY <1>1 DEF Change
  <2>2. customers' \in [Keys -> Rows \cup {NoRow}]
    BY <1>1 DEF Change
  <2>3. row.city \in Cities \cup {Absent}
    BY DEF Rows, NoRow
  <2>4. [op |-> op, key |-> k, after |-> row.city, timestamp |-> clock + 1] \in Events
    BY <2>1, <2>3 DEF Events
  <2>5. log' \in Seq(Events)
    BY <1>1, <2>4 DEF Change
  <2>6. QED
    BY <2>1, <2>2, <2>5
<1>2. ASSUME NEW k \in Keys, WriteCustomer(k) PROVE TableTypeOK'
  <2>1. PICK city \in Cities, stamp \in {clock + 1, Undated} :
          Change(IF Present(k) THEN "UPDATE" ELSE "INSERT", k,
                 [city |-> city, stamp |-> stamp])
    BY <1>2 DEF WriteCustomer
  <2>2. [city |-> city, stamp |-> stamp] \in Rows
    BY <2>1 DEF Change, Rows, Undated
  <2>3. QED
    BY <1>1, <2>1, <2>2
<1>3. ASSUME NEW k \in Keys, DeleteCustomer(k) PROVE TableTypeOK'
  BY <1>1, <1>3 DEF DeleteCustomer
<1>4. QED
  BY <1>2, <1>3 DEF TableStep

LEMMA TableStepTypes ==
  ASSUME HistoryTypes, TableStep, UNCHANGED historyVars PROVE HistoryTypes'
<1>1. TableTypeOK'
  BY TableTypesStep DEF HistoryTypes
<1>2. HistoryTypeOK'
  BY DEF HistoryTypes, HistoryTypeOK, historyVars
<1>3. QED
  BY <1>1, <1>2 DEF HistoryTypes

-----------------------------------------------------------------------------
\* The rows of a job, and the versions that a merge makes of them.
LEMMA RowsOfJob ==
  ASSUME HistoryTypes, NEW w \in Jobs, NEW k \in Incoming(batch[w])
  PROVE  k \in Keys /\ batch[w][k] \in Rows
BY DEF HistoryTypes, HistoryTypeOK, Incoming, NoRow

LEMMA EffFromType ==
  ASSUME HistoryTypes, NEW w \in Jobs, MergeCustomers(w), NEW k \in Changed(batch[w])
  PROVE  EffFrom(batch[w][k]) \in 1..MaxTime
<1>1. k \in Incoming(batch[w]) /\ batch[w][k] \in Rows
  BY RowsOfJob DEF Changed
<1>2. CASE batch[w][k].stamp = Undated
  <2>1. clock < MaxTime
    BY <1>2 DEF MergeCustomers
  <2>2. QED
    BY <1>2, <2>1, TableAssumption DEF EffFrom, HistoryTypes, TableTypeOK
<1>3. CASE batch[w][k].stamp # Undated
  BY <1>1, <1>3 DEF EffFrom, Rows, Undated
<1>4. QED
  BY <1>2, <1>3

LEMMA NewVersionType ==
  ASSUME HistoryTypes, NEW w \in Jobs, MergeCustomers(w), NEW k \in Changed(batch[w])
  PROVE  NewVersion(k, batch[w]) \in Versions
<1>1. k \in Keys /\ batch[w][k] \in Rows
  BY RowsOfJob DEF Changed
<1>2. batch[w][k].city \in Cities
  BY <1>1 DEF Rows
<1>3. HighDate \in 1..HighDate
  BY TableAssumption DEF HighDate
<1>4. QED
  BY <1>1, <1>2, <1>3, EffFromType DEF NewVersion, Versions

LEMMA ExpiredType ==
  ASSUME HistoryTypes, NEW w \in Jobs, MergeCustomers(w),
         NEW v \in dim, v.key \in Changed(batch[w])
  PROVE  /\ Expired(v, batch[w]) \in Versions
         /\ Expired(v, batch[w]).key = v.key
         /\ Expired(v, batch[w]).city = v.city
         /\ Expired(v, batch[w]).effective_from = v.effective_from
         /\ Expired(v, batch[w]).effective_to = EffFrom(batch[w][v.key])
         /\ Expired(v, batch[w]).is_current = FALSE
<1>1. v \in Versions
  BY DEF HistoryTypes, HistoryTypeOK
<1>2. EffFrom(batch[w][v.key]) \in 1..HighDate
  BY EffFromType, TableAssumption DEF HighDate
<1>3. ASSUME NEW e \in 1..HighDate
      PROVE  LET x == [v EXCEPT !.is_current = FALSE, !.effective_to = e] IN
             /\ x \in Versions
             /\ x.key = v.key /\ x.city = v.city /\ x.effective_from = v.effective_from
             /\ x.effective_to = e /\ x.is_current = FALSE
  BY <1>1 DEF Versions
<1>4. QED
  BY <1>2, <1>3 DEF Expired

\* What a merge makes of the versions of one key.
LEMMA MergeOfKey ==
  ASSUME HistoryTypes, NEW w \in Jobs, MergeCustomers(w), NEW k \in Keys
  PROVE  /\ k \notin Changed(batch[w]) =>
              \A v : v.key = k => (v \in dim' <=> v \in dim)
         /\ k \in Changed(batch[w]) =>
              \A v : v.key = k =>
                (v \in dim' <=> \/ v \in dim /\ ~v.is_current
                                \/ \E u \in Current(k) : v = Expired(u, batch[w])
                                \/ v = NewVersion(k, batch[w]))
<1> DEFINE rows == batch[w]
           expiring == UNION {Current(j) : j \in Changed(rows)}
<1>1. dim' = (dim \ expiring) \cup {Expired(v, rows) : v \in expiring}
               \cup {NewVersion(j, rows) : j \in Changed(rows)}
  BY DEF MergeCustomers, MergeType2
<1>2. \A v : v \in expiring <=> v \in dim /\ v.is_current /\ v.key \in Changed(rows)
  BY DEF Current
<1>3. \A v \in expiring : Expired(v, rows).key = v.key
  BY <1>2, ExpiredType
<1>4. \A j : NewVersion(j, rows).key = j
  BY DEF NewVersion
<1>5. ASSUME k \notin Changed(rows), NEW v, v.key = k PROVE v \in dim' <=> v \in dim
  BY <1>1, <1>2, <1>3, <1>4, <1>5
<1>6. ASSUME k \in Changed(rows), NEW v, v.key = k
      PROVE  v \in dim' <=> \/ v \in dim /\ ~v.is_current
                            \/ \E u \in Current(k) : v = Expired(u, rows)
                            \/ v = NewVersion(k, rows)
  <2>1. v \in dim \ expiring <=> v \in dim /\ ~v.is_current
    BY <1>2, <1>6
  <2>2. v \in {Expired(u, rows) : u \in expiring}
          <=> \E u \in Current(k) : v = Expired(u, rows)
    BY <1>2, <1>3, <1>6 DEF Current
  <2>3. v \in {NewVersion(j, rows) : j \in Changed(rows)} <=> v = NewVersion(k, rows)
    BY <1>4, <1>6
  <2>4. QED
    BY <1>1, <2>1, <2>2, <2>3
<1>7. QED
  BY <1>5, <1>6

LEMMA MergeTypes ==
  ASSUME HistoryTypes, NEW w \in Jobs, MergeCustomers(w) PROVE HistoryTypes'
<1>1. TableTypeOK'
  <2>1. clock' \in 0..MaxTime
    BY TableAssumption DEF MergeCustomers, HistoryTypes, TableTypeOK
  <2>2. QED
    BY <2>1 DEF MergeCustomers, HistoryTypes, TableTypeOK
<1>2. dim' \subseteq Versions
  <2>1. \A v \in dim : v.key \in Changed(batch[w]) => Expired(v, batch[w]) \in Versions
    BY ExpiredType
  <2>2. \A k \in Changed(batch[w]) : NewVersion(k, batch[w]) \in Versions
    BY NewVersionType
  <2>3. QED
    BY <2>1, <2>2 DEF MergeCustomers, MergeType2, Current, HistoryTypes, HistoryTypeOK
<1>3. dim1' \in [Keys -> Cities \cup {Absent}]
  <2>1. \A k \in Incoming(batch[w]) : batch[w][k].city \in Cities
    BY RowsOfJob DEF Rows
  <2>2. QED
    BY <2>1 DEF MergeCustomers, MergeType1, HistoryTypes, HistoryTypeOK
<1>4. applied' \subseteq [key : Keys, stamp : 0..MaxTime]
  <2>1. \A k \in Incoming(batch[w]) : k \in Keys /\ batch[w][k].stamp \in 0..MaxTime
    BY RowsOfJob DEF Rows
  <2>2. QED
    BY <2>1 DEF MergeCustomers, HistoryTypes, HistoryTypeOK
<1>5. held' \in [Jobs -> BOOLEAN] /\ batch' = batch
  BY DEF MergeCustomers, HistoryTypes, HistoryTypeOK
<1>6. QED
  BY <1>1, <1>2, <1>3, <1>4, <1>5 DEF HistoryTypes, HistoryTypeOK

-----------------------------------------------------------------------------
\* One current version of each key, with any number of jobs.

LEMMA HistoryTypesStep == HistoryTypes /\ [HistoryNext]_HistoryVars => HistoryTypes'
<1> SUFFICES ASSUME HistoryTypes, [HistoryNext]_HistoryVars PROVE HistoryTypes'
  OBVIOUS
<1>1. CASE TableStep /\ UNCHANGED historyVars
  BY <1>1, TableStepTypes
<1>2. ASSUME NEW w \in Jobs, ExtractCustomers(w) PROVE HistoryTypes'
  BY <1>2 DEF ExtractCustomers, HistoryTypes, HistoryTypeOK, TableTypeOK, tableVars
<1>3. ASSUME NEW w \in Jobs, MergeCustomers(w) PROVE HistoryTypes'
  BY <1>3, MergeTypes
<1>4. CASE UNCHANGED HistoryVars
  BY <1>4 DEF HistoryVars, tableVars, historyVars, HistoryTypes, HistoryTypeOK, TableTypeOK
<1>5. QED
  BY <1>1, <1>2, <1>3, <1>4 DEF HistoryNext, JobStep

LEMMA OneCurrentInit == HistoryInit => OneCurrentVersion
BY DEF HistoryInit, OneCurrentVersion

LEMMA OneCurrentMerge ==
  ASSUME HistoryTypes, OneCurrentVersion, NEW w \in Jobs, MergeCustomers(w)
  PROVE  OneCurrentVersion'
<1> DEFINE rows == batch[w]
<1> SUFFICES ASSUME NEW k \in Keys
             PROVE  IF \E v \in dim' : v.key = k
                      THEN \E v \in dim' : /\ Current(k)' = {v}
                                           /\ v.effective_to = HighDate
                                           /\ dim1'[k] = v.city
                      ELSE dim1'[k] = Absent
  BY DEF OneCurrentVersion
<1>1. dim1'[k] = IF k \in Incoming(rows) THEN rows[k].city ELSE dim1[k]
  BY DEF MergeCustomers, MergeType1
<1>2. CASE k \in Changed(rows)
  <2>1. NewVersion(k, rows) \in dim' /\ k \in Incoming(rows)
    BY <1>2, MergeOfKey DEF NewVersion, Changed
  <2>2. \A u \in Current(k) : ~Expired(u, rows).is_current
    BY <1>2, ExpiredType DEF Current
  <2>3. \A v : v \in Current(k)' <=> v = NewVersion(k, rows)
    <3>1. \A v : v \in Current(k)' <=> v \in dim' /\ v.key = k /\ v.is_current
      BY DEF Current
    <3>2. NewVersion(k, rows).key = k /\ NewVersion(k, rows).is_current
      BY DEF NewVersion
    <3>3. \A v : v \in dim' /\ v.key = k /\ v.is_current => v = NewVersion(k, rows)
      BY <1>2, <2>2, MergeOfKey
    <3>4. QED
      BY <2>1, <3>1, <3>2, <3>3
  <2>4. /\ Current(k)' = {NewVersion(k, rows)}
        /\ NewVersion(k, rows).key = k
        /\ NewVersion(k, rows).effective_to = HighDate
        /\ dim1'[k] = NewVersion(k, rows).city
    BY <1>1, <2>1, <2>3 DEF NewVersion
  <2>5. QED
    BY <2>1, <2>4
<1>3. CASE k \notin Changed(rows)
  <2>1. \A v : v.key = k => (v \in dim' <=> v \in dim)
    BY <1>3, MergeOfKey
  <2>2. Current(k)' = Current(k)
    BY <2>1 DEF Current
  <2>3. k \in Incoming(rows) => \E v \in Current(k) : v.city = rows[k].city
    BY <1>3 DEF Changed
  <2>4. QED
    BY <1>1, <2>1, <2>2, <2>3 DEF OneCurrentVersion, Current
<1>4. QED
  BY <1>2, <1>3

LEMMA OneCurrentStep ==
  HistoryTypes /\ OneCurrentVersion /\ [HistoryNext]_HistoryVars => OneCurrentVersion'
<1> SUFFICES ASSUME HistoryTypes, OneCurrentVersion, [HistoryNext]_HistoryVars
             PROVE  OneCurrentVersion'
  OBVIOUS
<1>1. ASSUME NEW w \in Jobs, MergeCustomers(w) PROVE OneCurrentVersion'
  BY <1>1, OneCurrentMerge
<1>2. CASE UNCHANGED <<dim, dim1>>
  BY <1>2 DEF OneCurrentVersion, Current
<1>3. QED
  BY <1>1, <1>2
  DEF HistoryNext, JobStep, ExtractCustomers, HistoryVars, historyVars, tableVars

\* Whatever jobs overlap, repeat their rows or merge them late, a customer of the
\* Type 2 dimension has one current version, and the Type 1 dimension agrees with it.
THEOREM HistoryOneCurrent == HistorySpec => []OneCurrentVersion
<1>1. TableInit /\ HistoryInit => HistoryTypes /\ OneCurrentVersion
  BY HistoryTypesInit, OneCurrentInit
<1>2. HistoryTypes /\ OneCurrentVersion /\ [HistoryNext]_HistoryVars
        => (HistoryTypes /\ OneCurrentVersion)'
  BY HistoryTypesStep, OneCurrentStep
<1>3. HistorySpec => TableInit /\ HistoryInit /\ [][HistoryNext]_HistoryVars
  BY DEF HistorySpec, HistoryNext, HistoryVars
<1>4. QED
  BY <1>1, <1>2, <1>3, PTL

-----------------------------------------------------------------------------
\* The order of the versions, of a job that is alone.

Serial == \A w, x \in Jobs : w = x

Dated(row) == row.city # Absent /\ row.stamp # Undated

\* A version is not after a row, and of its city if of its instant.
NotAfter(v, row) ==
    /\ v.effective_from <= row.stamp
    /\ v.effective_from = row.stamp => v.city = row.city

Older(r, s) == r.stamp <= s.stamp /\ (r.stamp = s.stamp => r.city = s.city)

\* Nothing is ahead of the clock, so that the next write is after everything.
NotAhead ==
    \A k \in Keys :
        /\ customers[k].stamp <= clock
        /\ \A w \in Jobs : batch[w][k].stamp <= clock
        /\ AlwaysDated(k) => \A v \in Current(k) : v.effective_from <= clock

\* The current version, the rows a job holds and those of the table are in order.
TableInOrder ==
    \A k \in Keys :
        Dated(customers[k]) =>
            /\ AlwaysDated(k) => \A v \in Current(k) : NotAfter(v, customers[k])
            /\ \A w \in Jobs :
                  held[w] /\ Dated(batch[w][k]) => Older(batch[w][k], customers[k])

BatchInOrder ==
    \A k \in Keys, w \in Jobs :
        held[w] /\ Dated(batch[w][k]) /\ AlwaysDated(k) =>
            \A v \in Current(k) : NotAfter(v, batch[w][k])

ChainInv == HistoryTypes /\ NotAhead /\ TableInOrder /\ BatchInOrder /\ VersionsChain

LEMMA ChainInit == TableInit /\ HistoryInit => ChainInv
<1> SUFFICES ASSUME TableInit, HistoryInit PROVE ChainInv
  OBVIOUS
<1>1. HistoryTypes
  BY HistoryTypesInit
<1>2. QED
  BY <1>1 DEF TableInit, HistoryInit, ChainInv, NotAhead, TableInOrder, BatchInOrder,
              VersionsChain, Current, Dated, NoRow, Undated

\* What a write appends to the log.
LEMMA AppendGrows ==
  ASSUME NEW s \in Seq(Events), NEW e \in Events
  PROVE  /\ DOMAIN Append(s, e) = DOMAIN s \cup {Len(s) + 1} /\ Len(s) + 1 \notin DOMAIN s
         /\ \A i \in DOMAIN s : Append(s, e)[i] = s[i]
         /\ Append(s, e)[Len(s) + 1] = e
OBVIOUS

LEMMA TableEvent ==
  ASSUME TableTypeOK, TableStep
  PROVE  \E k \in Keys, row \in Rows \cup {NoRow}, e \in Events :
            /\ clock' = clock + 1
            /\ customers' = [customers EXCEPT ![k] = row]
            /\ row.stamp \in {clock + 1, Undated}
            /\ e.key = k /\ e.after = row.city /\ e.timestamp = clock + 1
            /\ e.op = "DELETE" => e.after = Absent
            /\ log' = Append(log, e)
<1> DEFINE Made(k, row, e) ==
              /\ clock' = clock + 1
              /\ customers' = [customers EXCEPT ![k] = row]
              /\ row.stamp \in {clock + 1, Undated}
              /\ e.key = k /\ e.after = row.city /\ e.timestamp = clock + 1
              /\ e.op = "DELETE" => e.after = Absent
              /\ log' = Append(log, e)
<1>1. ASSUME NEW op \in {"INSERT", "UPDATE", "DELETE"}, NEW k \in Keys,
             NEW row \in Rows \cup {NoRow}, row.stamp \in {clock + 1, Undated},
             op = "DELETE" => row = NoRow, Change(op, k, row)
      PROVE  \E e \in Events : Made(k, row, e)
  <2> DEFINE e == [op |-> op, key |-> k, after |-> row.city, timestamp |-> clock + 1]
  <2>1. row.city \in Cities \cup {Absent} /\ clock + 1 \in 1..MaxTime
    BY <1>1, TableAssumption DEF Change, Rows, NoRow, TableTypeOK
  <2>2. e \in Events
    BY <2>1 DEF Events
  <2>3. Made(k, row, e)
    BY <1>1 DEF Change, NoRow
  <2>4. QED
    BY <2>2, <2>3
<1>2. ASSUME NEW k \in Keys, WriteCustomer(k)
      PROVE  \E row \in Rows \cup {NoRow}, e \in Events : Made(k, row, e)
  <2>1. PICK city \in Cities, stamp \in {clock + 1, Undated} :
          Change(IF Present(k) THEN "UPDATE" ELSE "INSERT", k,
                 [city |-> city, stamp |-> stamp])
    BY <1>2 DEF WriteCustomer
  <2>2. [city |-> city, stamp |-> stamp] \in Rows
    BY <2>1, TableAssumption DEF Change, Rows, Undated, TableTypeOK
  <2>3. QED
    BY <1>1, <2>1, <2>2
<1>3. ASSUME NEW k \in Keys, DeleteCustomer(k)
      PROVE  \E row \in Rows \cup {NoRow}, e \in Events : Made(k, row, e)
  <2>1. NoRow.stamp \in {clock + 1, Undated}
    BY DEF NoRow
  <2>2. QED
    BY <1>1, <1>3, <2>1 DEF DeleteCustomer
<1>4. QED
  BY <1>2, <1>3 DEF TableStep

\* A write of the table is after everything there is.
LEMMA ChainTableStep ==
  ASSUME ChainInv, TableStep, UNCHANGED historyVars PROVE ChainInv'
<1> USE DEF ChainInv
<1>1. HistoryTypes'
  BY TableStepTypes
<1>2. PICK k \in Keys, row \in Rows \cup {NoRow} :
        /\ clock' = clock + 1
        /\ customers' = [customers EXCEPT ![k] = row]
        /\ row.stamp \in {clock + 1, Undated}
  BY TableEvent DEF HistoryTypes
<1>3. UNCHANGED <<batch, held, dim, applied>>
  BY DEF historyVars
<1>4. clock \in Nat /\ \A j \in Keys : customers[j].stamp \in Nat
  BY TableAssumption DEF HistoryTypes, TableTypeOK, Rows, NoRow, Undated
<1>5. \A j \in Keys, w \in Jobs : batch[w][j].stamp \in Nat
  BY TableAssumption DEF HistoryTypes, HistoryTypeOK, Rows, NoRow, Undated
<1>6. \A v \in dim : v.effective_from \in Nat
  BY DEF HistoryTypes, HistoryTypeOK, Versions
<1>7. \A j \in Keys : customers'[j] = IF j = k THEN row ELSE customers[j]
  BY <1>2 DEF HistoryTypes, TableTypeOK
<1>8. (\A j \in Keys : Current(j)' = Current(j)) /\ (\A j \in Keys : Current(j) \subseteq dim)
  BY <1>3 DEF Current
<1>9. \A j \in Keys : AlwaysDated(j)' <=> AlwaysDated(j)
  BY <1>3 DEF AlwaysDated
<1>10. NotAhead'
  <2> SUFFICES ASSUME NEW j \in Keys
               PROVE  /\ customers'[j].stamp <= clock'
                      /\ \A w \in Jobs : batch'[w][j].stamp <= clock'
                      /\ AlwaysDated(j)' =>
                            \A v \in Current(j)' : v.effective_from <= clock'
    BY DEF NotAhead
  <2>1. customers'[j].stamp <= clock'
    BY <1>2, <1>4, <1>7 DEF NotAhead, Undated
  <2>2. \A w \in Jobs : batch'[w][j].stamp <= clock'
    BY <1>2, <1>3, <1>4, <1>5 DEF NotAhead
  <2>3. AlwaysDated(j)' => \A v \in Current(j)' : v.effective_from <= clock'
    BY <1>2, <1>4, <1>6, <1>8, <1>9 DEF NotAhead
  <2>4. QED
    BY <2>1, <2>2, <2>3
<1>11. TableInOrder'
  <2> SUFFICES ASSUME NEW j \in Keys, Dated(customers'[j])
               PROVE  /\ AlwaysDated(j)' =>
                            \A v \in Current(j)' : NotAfter(v, customers'[j])
                      /\ \A w \in Jobs : held'[w] /\ Dated(batch'[w][j]) =>
                            Older(batch'[w][j], customers'[j])
    BY DEF TableInOrder
  <2>1. CASE j # k
    BY <2>1, <1>3, <1>7, <1>8, <1>9 DEF TableInOrder
  <2>2. CASE j = k
    <3>1. customers'[j].stamp = clock + 1
      BY <2>2, <1>2, <1>7 DEF Dated
    <3>2. AlwaysDated(j) => \A v \in Current(j) : v.effective_from < customers'[j].stamp
      BY <3>1, <1>4, <1>6, <1>8 DEF NotAhead
    <3>3. \A w \in Jobs : batch[w][j].stamp < customers'[j].stamp
      BY <3>1, <1>4, <1>5 DEF NotAhead
    <3>4. \A v \in Current(j) : v.effective_from \in Nat
      BY <1>6, <1>8
    <3>5. clock + 1 \in Nat
      BY <1>4
    <3>6. QED
      BY <3>1, <3>2, <3>3, <3>4, <3>5, <1>3, <1>5, <1>8, <1>9 DEF NotAfter, Older
  <2>3. QED
    BY <2>1, <2>2
<1>12. BatchInOrder' /\ VersionsChain'
  BY <1>3 DEF BatchInOrder, VersionsChain, Current, AlwaysDated
<1>13. QED
  BY <1>1, <1>10, <1>11, <1>12

LEMMA ChainExtract ==
  ASSUME ChainInv, NEW w \in Jobs, ExtractCustomers(w) PROVE ChainInv'
<1> USE DEF ChainInv
<1>1. /\ batch' = [batch EXCEPT ![w] = customers] /\ held' = [held EXCEPT ![w] = TRUE]
      /\ UNCHANGED <<clock, customers, log, dim, dim1, applied>>
  BY DEF ExtractCustomers, tableVars
<1>2. HistoryTypes'
  BY <1>1 DEF HistoryTypes, HistoryTypeOK, TableTypeOK
<1>3. \A x \in Jobs : /\ batch'[x] = IF x = w THEN customers ELSE batch[x]
                      /\ x # w => held'[x] = held[x]
  BY <1>1 DEF HistoryTypes, HistoryTypeOK
<1>4. \A k \in Keys : Current(k)' = Current(k) /\ (AlwaysDated(k)' <=> AlwaysDated(k))
  BY <1>1 DEF Current, AlwaysDated
<1>5. \A k \in Keys : customers[k].stamp \in Nat
  BY TableAssumption DEF HistoryTypes, TableTypeOK, Rows, NoRow, Undated
<1>6. NotAhead'
  BY <1>1, <1>3, <1>4 DEF NotAhead
<1>7. TableInOrder'
  <2> SUFFICES ASSUME NEW k \in Keys, Dated(customers[k])
               PROVE  /\ AlwaysDated(k) => \A v \in Current(k) : NotAfter(v, customers[k])
                      /\ \A x \in Jobs : held'[x] /\ Dated(batch'[x][k]) =>
                            Older(batch'[x][k], customers[k])
    BY <1>1, <1>4 DEF TableInOrder
  <2>1. Older(customers[k], customers[k])
    BY <1>5 DEF Older
  <2>2. QED
    BY <2>1, <1>3 DEF TableInOrder
<1>8. BatchInOrder'
  <2> SUFFICES ASSUME NEW k \in Keys, NEW x \in Jobs, held'[x], Dated(batch'[x][k]),
                      AlwaysDated(k), NEW v \in Current(k)
               PROVE  NotAfter(v, batch'[x][k])
    BY <1>4 DEF BatchInOrder
  <2>1. QED
    BY <1>3 DEF BatchInOrder, TableInOrder
<1>9. VersionsChain'
  BY <1>1 DEF VersionsChain, AlwaysDated
<1>10. QED
  BY <1>2, <1>6, <1>7, <1>8, <1>9

\* The rows of the only job are between the current versions and the table.
LEMMA ChainMerge ==
  ASSUME Serial, ChainInv, NEW w \in Jobs, MergeCustomers(w) PROVE ChainInv'
<1> DEFINE rows == batch[w]
<1>1. /\ held[w] /\ UNCHANGED <<batch, customers, log>>
      /\ clock' \in Nat /\ clock \in Nat /\ clock <= clock'
      /\ \A k \in Incoming(rows) : [key |-> k, stamp |-> rows[k].stamp] \in applied'
      /\ applied \subseteq applied'
  BY DEF MergeCustomers, ChainInv, HistoryTypes, TableTypeOK
<1>2. HistoryTypes'
  BY MergeTypes DEF ChainInv
<1>3. \A k \in Keys : AlwaysDated(k)' => AlwaysDated(k)
  BY <1>1 DEF AlwaysDated
<1>4. \A k \in Keys : rows[k].stamp \in Nat /\ customers[k].stamp \in Nat
  BY TableAssumption
  DEF ChainInv, HistoryTypes, HistoryTypeOK, TableTypeOK, Rows, NoRow, Undated
\* A key whose current version the merge replaces, by one with the row's stamp.
<1>5. ASSUME NEW k \in Changed(rows), AlwaysDated(k)'
      PROVE  /\ k \in Keys /\ Dated(rows[k]) /\ EffFrom(rows[k]) = rows[k].stamp
             /\ \A v \in Current(k) : /\ v.effective_from < rows[k].stamp
                                      /\ v.city # rows[k].city
             /\ Current(k)' = {NewVersion(k, rows)}
  <2>1. k \in Keys /\ k \in Incoming(rows)
    BY DEF Changed, Incoming
  <2>2. Dated(rows[k])
    BY <2>1, <1>1, <1>5 DEF Dated, Incoming, AlwaysDated
  <2>3. \A v \in Current(k) : NotAfter(v, rows[k]) /\ v.city # rows[k].city
    BY <2>1, <2>2, <1>1, <1>3, <1>5 DEF ChainInv, BatchInOrder, Changed
  <2>4. \A v \in Current(k) : v.effective_from \in Nat
    BY DEF ChainInv, HistoryTypes, HistoryTypeOK, Versions, Current
  <2>5. \A v \in Current(k) : v.effective_from < rows[k].stamp
    BY <2>1, <2>3, <2>4, <1>4 DEF NotAfter
  <2>6. Current(k)' = {NewVersion(k, rows)}
    <3>1. HistoryTypes
      BY DEF ChainInv
    <3>2. \A u \in Current(k) : ~Expired(u, rows).is_current
      BY <3>1, ExpiredType DEF Current
    <3>3. NewVersion(k, rows).key = k /\ NewVersion(k, rows).is_current
      BY DEF NewVersion
    <3>4. \A v : v \in dim' /\ v.key = k /\ v.is_current <=> v = NewVersion(k, rows)
      BY <2>1, <3>1, <3>2, <3>3, MergeOfKey
    <3>5. QED
      BY <3>4 DEF Current
  <2>7. QED
    BY <2>1, <2>2, <2>3, <2>5, <2>6 DEF EffFrom, Dated
<1>6. ASSUME NEW k \in Keys, k \notin Changed(rows) PROVE Current(k)' = Current(k)
  <2>1. \A v : v.key = k => (v \in dim' <=> v \in dim)
    BY <1>6, MergeOfKey DEF ChainInv
  <2>2. QED
    BY <2>1 DEF Current
<1>7. \A k : /\ NewVersion(k, rows).key = k /\ NewVersion(k, rows).is_current
            /\ NewVersion(k, rows).effective_from = EffFrom(rows[k])
            /\ NewVersion(k, rows).city = rows[k].city
  BY DEF NewVersion
<1>8. NotAhead'
  <2> SUFFICES ASSUME NEW k \in Keys
               PROVE  /\ customers[k].stamp <= clock'
                      /\ \A x \in Jobs : batch[x][k].stamp <= clock'
                      /\ AlwaysDated(k)' =>
                            \A v \in Current(k)' : v.effective_from <= clock'
    BY <1>1 DEF NotAhead
  <2>1. rows[k].stamp <= clock' /\ customers[k].stamp <= clock'
    BY <1>1, <1>4 DEF ChainInv, NotAhead
  <2>2. \A x \in Jobs : batch[x][k].stamp <= clock'
    BY <2>1 DEF Serial
  <2>3. ASSUME AlwaysDated(k)', NEW v \in Current(k)' PROVE v.effective_from <= clock'
    <3>1. CASE k \in Changed(rows)
      BY <3>1, <2>1, <2>3, <1>5, <1>7
    <3>2. CASE k \notin Changed(rows)
      <4>1. v \in Current(k) /\ v.effective_from <= clock
        BY <3>2, <2>3, <1>3, <1>6 DEF ChainInv, NotAhead
      <4>2. v.effective_from \in Nat
        BY <4>1 DEF ChainInv, HistoryTypes, HistoryTypeOK, Versions, Current
      <4>3. QED
        BY <4>1, <4>2, <1>1
    <3>3. QED
      BY <3>1, <3>2
  <2>4. QED
    BY <2>1, <2>2, <2>3
<1>9. TableInOrder'
  <2> SUFFICES ASSUME NEW k \in Keys, Dated(customers[k])
               PROVE  /\ AlwaysDated(k)' =>
                            \A v \in Current(k)' : NotAfter(v, customers[k])
                      /\ \A x \in Jobs : held'[x] /\ Dated(batch[x][k]) =>
                            Older(batch[x][k], customers[k])
    BY <1>1 DEF TableInOrder
  <2>1. Dated(rows[k]) => Older(rows[k], customers[k])
    BY <1>1 DEF ChainInv, TableInOrder
  <2>2. ASSUME AlwaysDated(k)', NEW v \in Current(k)' PROVE NotAfter(v, customers[k])
    <3>1. CASE k \in Changed(rows)
      BY <3>1, <2>1, <2>2, <1>5, <1>7 DEF Older, NotAfter
    <3>2. CASE k \notin Changed(rows)
      BY <3>2, <2>2, <1>3, <1>6 DEF ChainInv, TableInOrder
    <3>3. QED
      BY <3>1, <3>2
  <2>3. QED
    BY <2>1, <2>2 DEF Serial
<1>10. BatchInOrder'
  <2> SUFFICES ASSUME NEW k \in Keys, Dated(rows[k]), AlwaysDated(k)',
                      NEW v \in Current(k)'
               PROVE  NotAfter(v, rows[k])
    BY <1>1 DEF BatchInOrder, Serial
  <2>1. CASE k \in Changed(rows)
    BY <2>1, <1>4, <1>5, <1>7 DEF NotAfter
  <2>2. CASE k \notin Changed(rows)
    BY <2>2, <1>1, <1>3, <1>6 DEF ChainInv, BatchInOrder
  <2>3. QED
    BY <2>1, <2>2
<1>11. VersionsChain'
  <2> SUFFICES ASSUME NEW v \in dim', ~v.is_current, AlwaysDated(v.key)'
               PROVE  /\ v.effective_from < v.effective_to
                      /\ \E u \in dim' : /\ u.key = v.key /\ u.city # v.city
                                         /\ u.effective_from = v.effective_to
    BY DEF VersionsChain
  <2>1. v.key \in Keys /\ HistoryTypes /\ AlwaysDated(v.key)
    BY <1>2, <1>3 DEF HistoryTypes, HistoryTypeOK, Versions, ChainInv
  \* The version was closed before: so is its successor, or it is now expired.
  <2>2. CASE v \in dim
    <3>1. PICK u \in dim : /\ u.key = v.key /\ u.city # v.city
                           /\ u.effective_from = v.effective_to
      BY <2>1, <2>2 DEF ChainInv, VersionsChain
    <3>2. v.effective_from < v.effective_to
      BY <2>1, <2>2 DEF ChainInv, VersionsChain
    <3>3. CASE u \in dim'
      BY <3>1, <3>2, <3>3
    <3>4. CASE u \notin dim'
      <4>1. v.key \in Changed(rows) /\ u \in Current(v.key)
        BY <2>1, <3>1, <3>4, MergeOfKey DEF Current
      <4>2. /\ Expired(u, rows).key = v.key /\ Expired(u, rows).city = u.city
            /\ Expired(u, rows).effective_from = u.effective_from
        BY <2>1, <3>1, <4>1, ExpiredType
      <4>3. Expired(u, rows) \in dim'
        BY <2>1, <4>1, <4>2, MergeOfKey
      <4>4. QED
        BY <3>1, <3>2, <4>2, <4>3
    <3>5. QED
      BY <3>3, <3>4
  \* It is expired now: the new version comes after it.
  <2>3. CASE v \notin dim
    <3>1. v.key \in Changed(rows) /\ \E u \in Current(v.key) : v = Expired(u, rows)
      BY <2>1, <2>3, <1>7, MergeOfKey
    <3>2. PICK u \in Current(v.key) : v = Expired(u, rows)
      BY <3>1
    <3>3. /\ v.city = u.city /\ v.effective_from = u.effective_from
          /\ v.effective_to = EffFrom(rows[v.key])
      <4>1. u \in dim /\ u.key = v.key /\ u.key \in Changed(rows)
        BY <3>1, <3>2 DEF Current
      <4>2. /\ Expired(u, rows).city = u.city
            /\ Expired(u, rows).effective_from = u.effective_from
            /\ Expired(u, rows).effective_to = EffFrom(rows[u.key])
        BY <2>1, <4>1, ExpiredType
      <4>3. QED
        BY <3>2, <4>1, <4>2
    <3>4. NewVersion(v.key, rows) \in dim'
      BY <2>1, <3>1, <1>7, MergeOfKey
    <3>5. /\ u.effective_from < rows[v.key].stamp /\ u.city # rows[v.key].city
          /\ EffFrom(rows[v.key]) = rows[v.key].stamp
      BY <3>1, <3>2, <1>5
    <3>6. QED
      BY <3>3, <3>4, <3>5, <1>7
  <2>4. QED
    BY <2>2, <2>3
<1>12. QED
  BY <1>2, <1>8, <1>9, <1>10, <1>11 DEF ChainInv

LEMMA ChainStep == ASSUME Serial PROVE ChainInv /\ [HistoryNext]_HistoryVars => ChainInv'
<1> SUFFICES ASSUME ChainInv, [HistoryNext]_HistoryVars PROVE ChainInv'
  OBVIOUS
<1>1. CASE TableStep /\ UNCHANGED historyVars
  BY <1>1, ChainTableStep
<1>2. ASSUME NEW w \in Jobs, ExtractCustomers(w) PROVE ChainInv'
  BY <1>2, ChainExtract
<1>3. ASSUME NEW w \in Jobs, MergeCustomers(w) PROVE ChainInv'
  BY <1>3, ChainMerge
<1>4. CASE UNCHANGED HistoryVars
  <2>1. HistoryTypes'
    BY <1>4, HistoryTypesStep DEF ChainInv
  <2>2. QED
    BY <1>4, <2>1
    DEF ChainInv, HistoryVars, tableVars, historyVars, NotAhead, TableInOrder, BatchInOrder,
        VersionsChain, Current, AlwaysDated
<1>5. QED
  BY <1>1, <1>2, <1>3, <1>4 DEF HistoryNext, JobStep

\* With one job at a time, repeated or not, the versions of a customer whose rows have
\* stamps follow one another: each ends, later than it began, where the next begins.
THEOREM HistoryChain == ASSUME Serial PROVE HistorySpec => []VersionsChain
<1>1. TableInit /\ HistoryInit => ChainInv
  BY ChainInit
<1>2. ChainInv /\ [HistoryNext]_HistoryVars => ChainInv'
  BY ChainStep
<1>3. ChainInv => VersionsChain
  BY DEF ChainInv
<1>4. HistorySpec => TableInit /\ HistoryInit /\ [][HistoryNext]_HistoryVars
  BY DEF HistorySpec, HistoryNext, HistoryVars
<1>5. QED
  BY <1>1, <1>2, <1>3, <1>4, PTL

-----------------------------------------------------------------------------
\* What the versions have to do with the changes of the table.

\* Every change has an instant of its own, which is past.
LogInOrder ==
    /\ \A i, j \in DOMAIN log : log[i].timestamp = log[j].timestamp => i = j
    /\ \A i \in DOMAIN log : log[i].timestamp <= clock

\* A row with a stamp is what the change at that instant made.
Logged(k, row) ==
    \E i \in DOMAIN log :
        log[i].key = k /\ log[i].timestamp = row.stamp /\ log[i].after = row.city

RowsLogged ==
    \A k \in Keys :
        /\ Dated(customers[k]) => Logged(k, customers[k])
        /\ \A w \in Jobs : Dated(batch[w][k]) => Logged(k, batch[w][k])

\* Nothing was merged that is newer than what is merged next.
AppliedBehind ==
    \A a \in applied :
        /\ a.stamp <= clock
        /\ Dated(customers[a.key]) => a.stamp <= customers[a.key].stamp
        /\ \A w \in Jobs :
              held[w] /\ Dated(batch[w][a.key]) => a.stamp <= batch[w][a.key].stamp

Covers(v, t) == v.effective_from <= t /\ t < v.effective_to

\* No instant has two versions of a customer.
Disjoint ==
    \A u, v \in dim :
        u.key = v.key /\ AlwaysDated(u.key) /\ u # v =>
            u.effective_to <= v.effective_from \/ v.effective_to <= u.effective_from

\* The instant of a merged row has one, with the city the table had then.
AppliedCovered ==
    \A a \in applied :
        AlwaysDated(a.key) =>
            \E v \in dim :
                /\ v.key = a.key /\ Covers(v, a.stamp)
                /\ \A i \in DOMAIN log :
                      log[i].key = a.key /\ log[i].timestamp = a.stamp => v.city = log[i].after

\* A version ends where the table changed.
EndsLogged ==
    \A v \in dim :
        ~v.is_current /\ AlwaysDated(v.key) =>
            \E i \in DOMAIN log : log[i].key = v.key /\ log[i].timestamp = v.effective_to

AsOfInv ==
    /\ LogInOrder /\ RowsLogged /\ AppliedBehind /\ Disjoint /\ AppliedCovered /\ EndsLogged

LEMMA AsOfInit == TableInit /\ HistoryInit => AsOfInv
BY DEF TableInit, HistoryInit, AsOfInv, LogInOrder, RowsLogged, Dated, NoRow,
       AppliedBehind, Disjoint, AppliedCovered, EndsLogged

\* The change is newer than all that is merged, so it makes nothing untrue.
LEMMA AsOfTableStep ==
  ASSUME ChainInv, AsOfInv, TableStep, UNCHANGED historyVars PROVE AsOfInv'
<1> USE DEF ChainInv, AsOfInv
<1>1. PICK k \in Keys, row \in Rows \cup {NoRow}, e \in Events :
        /\ clock' = clock + 1
        /\ customers' = [customers EXCEPT ![k] = row]
        /\ row.stamp \in {clock + 1, Undated}
        /\ e.key = k /\ e.after = row.city /\ e.timestamp = clock + 1
        /\ log' = Append(log, e)
  BY TableEvent DEF HistoryTypes
<1>2. UNCHANGED <<batch, held, dim, applied>>
  BY DEF historyVars
<1>3. clock \in Nat /\ log \in Seq(Events)
  BY DEF HistoryTypes, TableTypeOK
<1>4. /\ DOMAIN log' = DOMAIN log \cup {Len(log) + 1} /\ Len(log) + 1 \notin DOMAIN log
      /\ \A i \in DOMAIN log : log'[i] = log[i]
      /\ log'[Len(log) + 1] = e
  BY <1>1, <1>3, AppendGrows
<1>5. \A i \in DOMAIN log : log[i].timestamp \in Nat /\ log[i].timestamp <= clock
  <2>1. \A i \in DOMAIN log : log[i] \in Events
    BY <1>3
  <2>2. QED
    BY <2>1 DEF LogInOrder, Events
<1>6. \A j \in Keys : \A r : Logged(j, r) => Logged(j, r)'
  <2> SUFFICES ASSUME NEW j \in Keys, NEW r, Logged(j, r)
               PROVE  \E i \in DOMAIN log' :
                        log'[i].key = j /\ log'[i].timestamp = r.stamp /\ log'[i].after = r.city
    BY DEF Logged
  <2>1. QED
    BY <1>4 DEF Logged
<1>7. \A j \in Keys : customers'[j] = IF j = k THEN row ELSE customers[j]
  BY <1>1 DEF HistoryTypes, TableTypeOK
<1>8. \A j \in Keys : AlwaysDated(j)' <=> AlwaysDated(j)
  BY <1>2 DEF AlwaysDated
<1>9. \A a \in applied : a.key \in Keys /\ a.stamp \in Nat /\ a.stamp <= clock
  BY DEF HistoryTypes, HistoryTypeOK, AppliedBehind
<1>10. LogInOrder'
  <2>1. \A i \in DOMAIN log' : log'[i].timestamp <= clock'
    BY <1>1, <1>3, <1>4, <1>5
  <2>2. \A i, j \in DOMAIN log' : log'[i].timestamp = log'[j].timestamp => i = j
    BY <1>1, <1>3, <1>4, <1>5 DEF LogInOrder
  <2>3. QED
    BY <2>1, <2>2 DEF LogInOrder
<1>11. RowsLogged'
  <2> SUFFICES ASSUME NEW j \in Keys
               PROVE  /\ Dated(customers'[j]) =>
                            \E i \in DOMAIN log' :
                               /\ log'[i].key = j /\ log'[i].timestamp = customers'[j].stamp
                               /\ log'[i].after = customers'[j].city
                      /\ \A w \in Jobs : Dated(batch[w][j]) =>
                            \E i \in DOMAIN log' :
                               /\ log'[i].key = j /\ log'[i].timestamp = batch[w][j].stamp
                               /\ log'[i].after = batch[w][j].city
    BY <1>2 DEF RowsLogged, Logged
  <2>1. \A r : Logged(j, r) => \E i \in DOMAIN log' :
          log'[i].key = j /\ log'[i].timestamp = r.stamp /\ log'[i].after = r.city
    BY <1>6 DEF Logged
  <2>2. CASE j = k
    BY <2>1, <2>2, <1>1, <1>4, <1>7 DEF RowsLogged, Dated
  <2>3. CASE j # k
    BY <2>1, <2>3, <1>7 DEF RowsLogged
  <2>4. QED
    BY <2>2, <2>3
<1>12. AppliedBehind'
  <2> SUFFICES ASSUME NEW a \in applied
               PROVE  /\ a.stamp <= clock'
                      /\ Dated(customers'[a.key]) => a.stamp <= customers'[a.key].stamp
                      /\ \A w \in Jobs :
                           held[w] /\ Dated(batch[w][a.key]) => a.stamp <= batch[w][a.key].stamp
    BY <1>2 DEF AppliedBehind
  <2>1. a.stamp <= clock' /\ a.stamp <= clock + 1
    BY <1>1, <1>3, <1>9
  <2>2. Dated(customers'[a.key]) => a.stamp <= customers'[a.key].stamp
    BY <2>1, <1>1, <1>7, <1>9 DEF Dated, AppliedBehind
  <2>3. QED
    BY <2>1, <2>2 DEF AppliedBehind
<1>13. Disjoint'
  BY <1>2 DEF Disjoint, AlwaysDated
<1>14. AppliedCovered'
  <2> SUFFICES ASSUME NEW a \in applied, AlwaysDated(a.key)
               PROVE  \E v \in dim :
                        /\ v.key = a.key /\ Covers(v, a.stamp)
                        /\ \A i \in DOMAIN log' :
                             log'[i].key = a.key /\ log'[i].timestamp = a.stamp =>
                                v.city = log'[i].after
    BY <1>2, <1>8, <1>9 DEF AppliedCovered, Covers
  <2>1. PICK v \in dim :
          /\ v.key = a.key /\ Covers(v, a.stamp)
          /\ \A i \in DOMAIN log :
                log[i].key = a.key /\ log[i].timestamp = a.stamp => v.city = log[i].after
    BY DEF AppliedCovered
  <2>2. e.timestamp # a.stamp
    BY <1>1, <1>3, <1>9
  <2>3. QED
    BY <2>1, <2>2, <1>4
<1>15. EndsLogged'
  <2> SUFFICES ASSUME NEW v \in dim, ~v.is_current, AlwaysDated(v.key)
               PROVE  \E i \in DOMAIN log' :
                         log'[i].key = v.key /\ log'[i].timestamp = v.effective_to
    BY <1>2 DEF EndsLogged, AlwaysDated
  <2>1. QED
    BY <1>4 DEF EndsLogged
<1>16. QED
  BY <1>10, <1>11, <1>12, <1>13, <1>14, <1>15

LEMMA AsOfExtract ==
  ASSUME ChainInv, AsOfInv, NEW w \in Jobs, ExtractCustomers(w) PROVE AsOfInv'
<1> USE DEF ChainInv, AsOfInv
<1>1. /\ batch' = [batch EXCEPT ![w] = customers] /\ held' = [held EXCEPT ![w] = TRUE]
      /\ UNCHANGED <<clock, customers, log, dim, dim1, applied>>
  BY DEF ExtractCustomers, tableVars
<1>2. \A x \in Jobs : /\ batch'[x] = IF x = w THEN customers ELSE batch[x]
                      /\ x # w => held'[x] = held[x]
  BY <1>1 DEF HistoryTypes, HistoryTypeOK
<1>3. RowsLogged'
  <2> SUFFICES ASSUME NEW k \in Keys, NEW x \in Jobs, Dated(batch'[x][k])
               PROVE  Logged(k, batch'[x][k])
    BY <1>1 DEF RowsLogged, Logged
  <2>1. QED
    BY <1>2 DEF RowsLogged
<1>4. AppliedBehind'
  <2> SUFFICES ASSUME NEW a \in applied, NEW x \in Jobs, held'[x], Dated(batch'[x][a.key])
               PROVE  a.stamp <= batch'[x][a.key].stamp
    BY <1>1 DEF AppliedBehind
  <2>1. QED
    BY <1>2 DEF AppliedBehind
<1>5. LogInOrder' /\ Disjoint' /\ AppliedCovered' /\ EndsLogged'
  BY <1>1 DEF LogInOrder, Disjoint, AppliedCovered, Covers, EndsLogged, AlwaysDated
<1>6. QED
  BY <1>3, <1>4, <1>5

\* A version that the only job replaces ends where the table changed, after all that
\* the version was merged for.
LEMMA AsOfMerge ==
  ASSUME Serial, ChainInv, OneCurrentVersion, AsOfInv, NEW w \in Jobs, MergeCustomers(w)
  PROVE  AsOfInv'
<1> DEFINE rows == batch[w]
<1>1. /\ held[w] /\ UNCHANGED <<batch, customers, log>>
      /\ clock' \in Nat /\ clock \in Nat /\ clock <= clock'
      /\ applied' = applied \cup {[key |-> k, stamp |-> rows[k].stamp] : k \in Incoming(rows)}
  BY DEF MergeCustomers, ChainInv, HistoryTypes, TableTypeOK
<1>2. HistoryTypes /\ HistoryTypes'
  BY MergeTypes DEF ChainInv
<1>3. \A k \in Keys : AlwaysDated(k)' => AlwaysDated(k)
  BY <1>1 DEF AlwaysDated
<1>4. \A k \in Keys : rows[k].stamp \in 0..MaxTime /\ customers[k].stamp \in 0..MaxTime
  BY <1>2, TableAssumption DEF HistoryTypes, HistoryTypeOK, TableTypeOK, Rows, NoRow, Undated
<1>5. \A v \in dim : v.key \in Keys /\ v.effective_from \in 1..MaxTime /\ v.effective_to \in Nat
  BY <1>2, TableAssumption DEF HistoryTypes, HistoryTypeOK, Versions, HighDate
<1>6. \A a \in applied : a.key \in Keys /\ a.stamp \in Nat
  BY <1>2 DEF HistoryTypes, HistoryTypeOK
\* The instant of a row tells its city.
<1>7. ASSUME NEW k \in Keys, Dated(rows[k])
      PROVE  /\ \E i \in DOMAIN log : log[i].key = k /\ log[i].timestamp = rows[k].stamp
             /\ \A i \in DOMAIN log : log[i].timestamp = rows[k].stamp =>
                                         log[i].after = rows[k].city
  BY <1>7 DEF AsOfInv, RowsLogged, Logged, LogInOrder
\* A current version is the only one, and lasts.
<1>8. \A v \in dim : v.is_current =>
        /\ v.effective_to = HighDate
        /\ \A u \in dim : u.key = v.key /\ u.is_current => u = v
  BY <1>5 DEF OneCurrentVersion, Current
\* A key whose current version the merge replaces.
<1>9. ASSUME NEW k \in Changed(rows), AlwaysDated(k)'
      PROVE  /\ k \in Keys /\ AlwaysDated(k) /\ Dated(rows[k])
             /\ EffFrom(rows[k]) = rows[k].stamp /\ rows[k].stamp \in 1..MaxTime
             /\ \A v \in Current(k) : /\ v.effective_from < rows[k].stamp
                                      /\ v.city # rows[k].city
  <2>1. k \in Keys /\ k \in Incoming(rows)
    BY DEF Changed, Incoming
  <2>2. [key |-> k, stamp |-> rows[k].stamp] \in applied'
    BY <2>1, <1>1
  <2>3. Dated(rows[k]) /\ AlwaysDated(k)
    BY <2>1, <2>2, <1>3, <1>9 DEF Dated, Incoming, AlwaysDated
  <2>4. \A v \in Current(k) : NotAfter(v, rows[k]) /\ v.city # rows[k].city
    BY <2>1, <2>3, <1>1 DEF ChainInv, BatchInOrder, Changed
  <2>5. \A v \in Current(k) : v.effective_from \in Nat /\ rows[k].stamp \in Nat
    BY <2>1, <1>4, <1>5 DEF Current
  <2>6. \A v \in Current(k) : v.effective_from < rows[k].stamp
    BY <2>4, <2>5 DEF NotAfter
  <2>7. rows[k].stamp \in 1..MaxTime
    BY <2>1, <2>3, <1>4 DEF Dated, Undated
  <2>8. QED
    BY <2>1, <2>3, <2>4, <2>6, <2>7 DEF EffFrom, Dated
\* Its versions after the merge.
<1>10. ASSUME NEW k \in Changed(rows), AlwaysDated(k)', NEW v \in dim', v.key = k
       PROVE  \/ v \in dim /\ ~v.is_current
              \/ /\ ~v.is_current /\ v.effective_to = rows[k].stamp
                 /\ \E u \in Current(k) : /\ v = Expired(u, rows) /\ v.city = u.city
                                          /\ v.effective_from = u.effective_from
              \/ v = NewVersion(k, rows)
  <2>1. k \in Keys /\ EffFrom(rows[k]) = rows[k].stamp
    BY <1>9, <1>10
  <2>2. ASSUME NEW u \in Current(k)
        PROVE  /\ Expired(u, rows).city = u.city /\ ~Expired(u, rows).is_current
               /\ Expired(u, rows).effective_from = u.effective_from
               /\ Expired(u, rows).effective_to = rows[k].stamp
    <3>1. u \in dim /\ u.key = k /\ u.key \in Changed(rows)
      BY DEF Current
    <3>2. /\ Expired(u, rows).city = u.city /\ Expired(u, rows).is_current = FALSE
          /\ Expired(u, rows).effective_from = u.effective_from
          /\ Expired(u, rows).effective_to = EffFrom(rows[u.key])
      BY <3>1, <1>2, ExpiredType
    <3>3. QED
      BY <2>1, <3>1, <3>2
  <2>3. QED
    BY <2>1, <2>2, <1>2, <1>10, MergeOfKey
<1>11. ASSUME NEW k \in Changed(rows), AlwaysDated(k)', NEW u \in Current(k)
       PROVE  /\ Expired(u, rows) \in dim' /\ Expired(u, rows).key = k
              /\ Expired(u, rows).city = u.city
              /\ Expired(u, rows).effective_from = u.effective_from
              /\ Expired(u, rows).effective_to = rows[k].stamp
  <2>1. k \in Keys /\ EffFrom(rows[k]) = rows[k].stamp /\ u \in dim /\ u.key = k
    BY <1>9, <1>11 DEF Current
  <2>2. /\ Expired(u, rows).key = k /\ Expired(u, rows).city = u.city
        /\ Expired(u, rows).effective_from = u.effective_from
        /\ Expired(u, rows).effective_to = rows[k].stamp
    BY <2>1, <1>2, ExpiredType
  <2>3. Expired(u, rows) \in dim'
    BY <2>1, <2>2, <1>2, MergeOfKey
  <2>4. QED
    BY <2>2, <2>3
<1>12. \A k \in Changed(rows) :
         /\ NewVersion(k, rows).key = k /\ NewVersion(k, rows).is_current
         /\ NewVersion(k, rows).effective_from = EffFrom(rows[k])
         /\ NewVersion(k, rows).effective_to = HighDate
         /\ NewVersion(k, rows).city = rows[k].city
         /\ (k \in Keys => NewVersion(k, rows) \in dim')
  <2>1. \A k : NewVersion(k, rows).key = k
    BY DEF NewVersion
  <2>2. \A k \in Changed(rows) : k \in Keys => NewVersion(k, rows) \in dim'
    BY <2>1, <1>2, MergeOfKey
  <2>3. QED
    BY <2>2 DEF NewVersion
<1>13. \A k \in Keys : k \notin Changed(rows) =>
         \A v : v.key = k => (v \in dim' <=> v \in dim)
  BY <1>2, MergeOfKey
<1>14. LogInOrder'
  <2>1. \A i \in DOMAIN log : log[i].timestamp \in Nat
    <3>1. \A i \in DOMAIN log : log[i] \in Events
      BY <1>2 DEF HistoryTypes, TableTypeOK
    <3>2. QED
      BY <3>1 DEF Events
  <2>2. \A i \in DOMAIN log : log[i].timestamp <= clock'
    BY <2>1, <1>1 DEF AsOfInv, LogInOrder
  <2>3. QED
    BY <2>2, <1>1 DEF AsOfInv, LogInOrder
<1>15. RowsLogged'
  BY <1>1 DEF AsOfInv, RowsLogged, Logged
<1>16. AppliedBehind'
  <2> SUFFICES ASSUME NEW a \in applied'
               PROVE  /\ a.stamp <= clock'
                      /\ Dated(customers[a.key]) => a.stamp <= customers[a.key].stamp
                      /\ \A x \in Jobs :
                           held'[x] /\ Dated(batch[x][a.key]) => a.stamp <= batch[x][a.key].stamp
    BY <1>1 DEF AppliedBehind
  <2>1. CASE a \in applied
    <3>1. /\ a.stamp <= clock
          /\ Dated(customers[a.key]) => a.stamp <= customers[a.key].stamp
          /\ Dated(rows[a.key]) => a.stamp <= rows[a.key].stamp
      BY <2>1, <1>1 DEF AsOfInv, AppliedBehind
    <3>2. a.stamp <= clock'
      BY <2>1, <3>1, <1>1, <1>6
    <3>3. QED
      BY <3>1, <3>2 DEF Serial
  <2>2. CASE a \notin applied
    <3>1. PICK k \in Incoming(rows) : a = [key |-> k, stamp |-> rows[k].stamp]
      BY <2>2, <1>1
    <3>2. k \in Keys /\ a.key = k /\ a.stamp = rows[k].stamp
      BY <3>1 DEF Incoming
    <3>3. rows[k].stamp \in Nat /\ customers[k].stamp \in Nat
      BY <3>2, <1>4
    <3>4. a.stamp <= clock'
      BY <3>2, <3>3, <1>1 DEF ChainInv, NotAhead
    <3>5. Dated(customers[k]) => rows[k].stamp <= customers[k].stamp
      <4>1. CASE Dated(rows[k])
        BY <4>1, <3>2, <1>1 DEF ChainInv, TableInOrder, Older
      <4>2. CASE ~Dated(rows[k])
        BY <4>2, <3>1, <3>2, <3>3 DEF Dated, Incoming, Undated
      <4>3. QED
        BY <4>1, <4>2
    <3>6. rows[k].stamp <= rows[k].stamp
      BY <3>3
    <3>7. QED
      BY <3>2, <3>4, <3>5, <3>6 DEF Serial
  <2>3. QED
    BY <2>1, <2>2
<1>17. Disjoint'
  <2> SUFFICES ASSUME NEW u \in dim', NEW v \in dim', u.key = v.key, AlwaysDated(u.key)', u # v
               PROVE  u.effective_to <= v.effective_from \/ v.effective_to <= u.effective_from
    BY DEF Disjoint
  <2> DEFINE k == u.key
  <2>1. k \in Keys /\ AlwaysDated(k)
    BY <1>2, <1>3 DEF HistoryTypes, HistoryTypeOK, Versions
  <2>2. CASE k \notin Changed(rows)
    <3>1. u \in dim /\ v \in dim
      BY <2>1, <2>2, <1>13
    <3>2. QED
      BY <2>1, <3>1 DEF AsOfInv, Disjoint
  <2>3. CASE k \in Changed(rows)
    <3> DEFINE s == rows[k].stamp
    <3>1. s \in 1..MaxTime /\ EffFrom(rows[k]) = s
      BY <2>3, <1>9
    \* The closed versions end before the current one begins.
    <3>2. ASSUME NEW c \in Current(k), NEW x \in dim, x.key = k, ~x.is_current
          PROVE  x.effective_to <= c.effective_from /\ c.effective_from < s
      <4>1. c \in dim /\ c.key = k /\ c.is_current /\ c # x
        BY <3>2 DEF Current
      <4>2. c.effective_to = HighDate /\ x.effective_from \in 1..MaxTime
        BY <4>1, <1>5, <1>8
      <4>3. ~(c.effective_to <= x.effective_from)
        BY <4>2, TableAssumption DEF HighDate
      <4>4. x.effective_to <= c.effective_from
        BY <2>1, <4>1, <4>3, <3>2 DEF AsOfInv, Disjoint
      <4>5. QED
        BY <4>4, <2>3, <3>2, <1>9
    <3>3. ASSUME NEW x \in dim, x.key = k, ~x.is_current PROVE x.effective_to <= s
      <4>1. PICK c \in Current(k) : TRUE
        BY <2>1, <3>3 DEF OneCurrentVersion
      <4>2. /\ x.effective_to <= c.effective_from /\ c.effective_from < s
            /\ c.effective_from \in Nat /\ x.effective_to \in Nat
        BY <4>1, <3>2, <3>3, <1>5 DEF Current
      <4>3. QED
        BY <4>2, <3>1
    <3>4. ASSUME NEW x \in dim', x.key = k, x # NewVersion(k, rows) PROVE x.effective_to <= s
      BY <3>1, <3>3, <3>4, <2>3, <1>10
    <3>5. ASSUME NEW x \in dim', NEW y \in dim', x.key = k, y.key = k,
                 x \in dim, ~x.is_current, ~(y \in dim /\ ~y.is_current)
          PROVE  x.effective_to <= y.effective_from
      <4>1. CASE y = NewVersion(k, rows)
        BY <4>1, <3>1, <3>3, <3>5, <2>3, <1>12
      <4>2. CASE y # NewVersion(k, rows)
        <5>1. PICK c \in Current(k) : y.effective_from = c.effective_from
          BY <4>2, <3>5, <2>3, <1>10
        <5>2. QED
          BY <5>1, <3>2, <3>5
      <4>3. QED
        BY <4>1, <4>2
    <3>6. CASE u = NewVersion(k, rows) \/ v = NewVersion(k, rows)
      BY <3>6, <3>1, <3>4, <2>3, <1>12
    <3>7. CASE u # NewVersion(k, rows) /\ v # NewVersion(k, rows)
      <4>1. CASE u \in dim /\ ~u.is_current /\ v \in dim /\ ~v.is_current
        BY <4>1, <2>1 DEF AsOfInv, Disjoint
      <4>2. CASE (u \in dim /\ ~u.is_current) /\ ~(v \in dim /\ ~v.is_current)
        BY <4>2, <3>5
      <4>3. CASE ~(u \in dim /\ ~u.is_current) /\ (v \in dim /\ ~v.is_current)
        BY <4>3, <3>5
      <4>4. CASE ~(u \in dim /\ ~u.is_current) /\ ~(v \in dim /\ ~v.is_current)
        <5>1. PICK c \in Current(k) : u = Expired(c, rows)
          BY <4>4, <3>7, <2>3, <1>10
        <5>2. PICK d \in Current(k) : v = Expired(d, rows)
          BY <4>4, <3>7, <2>3, <1>10
        <5>3. c = d
          BY <1>8 DEF Current
        <5>4. QED
          BY <5>1, <5>2, <5>3
      <4>5. QED
        BY <4>1, <4>2, <4>3, <4>4
    <3>8. QED
      BY <3>6, <3>7
  <2>4. QED
    BY <2>2, <2>3
<1>18. AppliedCovered'
  <2> SUFFICES ASSUME NEW a \in applied', AlwaysDated(a.key)'
               PROVE  \E v \in dim' :
                        /\ v.key = a.key /\ Covers(v, a.stamp)
                        /\ \A i \in DOMAIN log :
                             log[i].key = a.key /\ log[i].timestamp = a.stamp =>
                                v.city = log[i].after
    BY <1>1 DEF AppliedCovered, Covers
  <2> DEFINE k == a.key
  <2>1. k \in Keys /\ AlwaysDated(k) /\ a.stamp \in Nat
    BY <1>2, <1>3 DEF HistoryTypes, HistoryTypeOK
  \* It was merged before: its version is still there, or has just ended, later.
  <2>2. CASE a \in applied
    <3>1. PICK v \in dim :
            /\ v.key = k /\ Covers(v, a.stamp)
            /\ \A i \in DOMAIN log :
                  log[i].key = k /\ log[i].timestamp = a.stamp => v.city = log[i].after
      BY <2>1, <2>2 DEF AsOfInv, AppliedCovered
    <3>2. CASE v \in dim'
      BY <3>1, <3>2
    <3>3. CASE v \notin dim'
      <4>1. k \in Changed(rows) /\ v \in Current(k)
        BY <2>1, <3>1, <3>3, <1>2, MergeOfKey DEF Current
      <4>2. Dated(rows[k]) /\ rows[k].stamp \in Nat /\ v.city # rows[k].city
        BY <4>1, <1>9
      <4>3. a.stamp <= rows[k].stamp
        BY <2>2, <4>2, <1>1 DEF AsOfInv, AppliedBehind
      <4>4. a.stamp # rows[k].stamp
        BY <2>1, <3>1, <4>2, <1>7
      <4>5. a.stamp < rows[k].stamp
        BY <2>1, <4>2, <4>3, <4>4
      <4>6. Covers(Expired(v, rows), a.stamp)
        BY <3>1, <4>1, <4>5, <1>11 DEF Covers
      <4>7. QED
        BY <3>1, <4>1, <4>6, <1>11
    <3>4. QED
      BY <3>2, <3>3
  \* It is merged now: it starts a version, or agrees with the current one.
  <2>3. CASE a \notin applied
    <3>1. PICK j \in Incoming(rows) : a = [key |-> j, stamp |-> rows[j].stamp]
      BY <2>3, <1>1
    <3>2. k \in Incoming(rows) /\ a.stamp = rows[k].stamp
      BY <3>1
    <3>3. Dated(rows[k])
      BY <3>1, <3>2 DEF Incoming, Dated, AlwaysDated
    <3>4. \A i \in DOMAIN log : log[i].timestamp = a.stamp => log[i].after = rows[k].city
      BY <2>1, <3>2, <3>3, <1>7
    <3>5. CASE k \in Changed(rows)
      <4>1. EffFrom(rows[k]) = a.stamp /\ a.stamp \in 1..MaxTime
        BY <3>2, <3>5, <1>9
      <4>2. Covers(NewVersion(k, rows), a.stamp)
        BY <3>5, <4>1, <1>12, TableAssumption DEF Covers, HighDate
      <4>3. QED
        BY <2>1, <3>4, <3>5, <4>2, <1>12
    <3>6. CASE k \notin Changed(rows)
      <4>1. PICK v \in Current(k) : v.city = rows[k].city
        BY <3>2, <3>6 DEF Changed
      <4>2. v \in dim /\ v \in dim' /\ v.key = k /\ v.effective_to = HighDate
        BY <2>1, <3>6, <4>1, <1>8, <1>13 DEF Current
      <4>3. v.effective_from <= a.stamp
        BY <2>1, <3>2, <3>3, <4>1, <1>1 DEF ChainInv, BatchInOrder, NotAfter
      <4>4. a.stamp \in 0..MaxTime
        BY <2>1, <3>2, <1>4
      <4>5. Covers(v, a.stamp)
        BY <4>2, <4>3, <4>4, TableAssumption DEF Covers, HighDate
      <4>6. QED
        BY <3>4, <4>1, <4>2, <4>5
    <3>7. QED
      BY <3>5, <3>6
  <2>4. QED
    BY <2>2, <2>3
<1>19. EndsLogged'
  <2> SUFFICES ASSUME NEW v \in dim', ~v.is_current, AlwaysDated(v.key)'
               PROVE  \E i \in DOMAIN log :
                         log[i].key = v.key /\ log[i].timestamp = v.effective_to
    BY <1>1 DEF EndsLogged
  <2>1. v.key \in Keys /\ AlwaysDated(v.key)
    BY <1>2, <1>3 DEF HistoryTypes, HistoryTypeOK, Versions
  <2>2. CASE v \in dim
    BY <2>1, <2>2 DEF AsOfInv, EndsLogged
  <2>3. CASE v \notin dim
    <3>1. v.key \in Changed(rows)
      BY <2>1, <2>3, <1>13
    <3>2. v.effective_to = rows[v.key].stamp /\ Dated(rows[v.key])
      BY <2>3, <3>1, <1>9, <1>10, <1>12
    <3>3. QED
      BY <2>1, <3>2, <1>7
  <2>4. QED
    BY <2>2, <2>3
<1>20. QED
  BY <1>14, <1>15, <1>16, <1>17, <1>18, <1>19 DEF AsOfInv

LEMMA AsOfStep ==
  ASSUME Serial
  PROVE  ChainInv /\ OneCurrentVersion /\ AsOfInv /\ [HistoryNext]_HistoryVars => AsOfInv'
<1> SUFFICES ASSUME ChainInv, OneCurrentVersion, AsOfInv, [HistoryNext]_HistoryVars
             PROVE  AsOfInv'
  OBVIOUS
<1>1. CASE TableStep /\ UNCHANGED historyVars
  BY <1>1, AsOfTableStep
<1>2. ASSUME NEW w \in Jobs, ExtractCustomers(w) PROVE AsOfInv'
  BY <1>2, AsOfExtract
<1>3. ASSUME NEW w \in Jobs, MergeCustomers(w) PROVE AsOfInv'
  BY <1>3, AsOfMerge
<1>4. CASE UNCHANGED HistoryVars
  BY <1>4
  DEF AsOfInv, HistoryVars, tableVars, historyVars, LogInOrder, RowsLogged, Logged,
      AppliedBehind, Disjoint, AppliedCovered, Covers, EndsLogged, AlwaysDated
<1>5. QED
  BY <1>1, <1>2, <1>3, <1>4 DEF HistoryNext, JobStep

\* The version that covers the last change is the only one, and covers what follows.
LEMMA AsOfFollows ==
  ASSUME HistoryTypes, OneCurrentVersion, AsOfInv PROVE AsOfAgrees
<1> SUFFICES ASSUME NEW k \in Keys, NEW t \in 1..clock, NEW e \in LastChange(k, t),
                    AlwaysDated(k), [key |-> k, stamp |-> e.timestamp] \in applied
             PROVE  \E v \in dim : AsOf(k, t) = {v} /\ v.city = e.after
  BY DEF AsOfAgrees
<1>1. /\ \A i \in DOMAIN log : log[i].timestamp \in Nat
      /\ clock \in Nat /\ clock <= MaxTime
  <2>1. \A i \in DOMAIN log : log[i] \in Events
    BY DEF HistoryTypes, TableTypeOK
  <2>2. QED
    BY <2>1, TableAssumption DEF Events, HistoryTypes, TableTypeOK
<1>2. \A v \in dim : v.effective_from \in Nat /\ v.effective_to \in Nat
  BY TableAssumption DEF HistoryTypes, HistoryTypeOK, Versions, HighDate
<1>3. PICK i \in DOMAIN log : log[i] = e
  BY DEF LastChange
<1>4. /\ e.key = k /\ e.timestamp \in Nat /\ e.timestamp <= t
      /\ \A j \in DOMAIN log :
            log[j].key = k /\ log[j].timestamp <= t => log[j].timestamp <= e.timestamp
  BY <1>1, <1>3 DEF LastChange
<1>5. PICK v \in dim :
        /\ v.key = k /\ Covers(v, e.timestamp)
        /\ \A j \in DOMAIN log :
              log[j].key = k /\ log[j].timestamp = e.timestamp => v.city = log[j].after
  BY DEF AsOfInv, AppliedCovered
<1>6. v.city = e.after
  BY <1>3, <1>4, <1>5
<1>7. t < v.effective_to
  <2>1. CASE v.is_current
    <3>1. v.effective_to = HighDate
      BY <2>1, <1>5 DEF OneCurrentVersion, Current
    <3>2. QED
      BY <3>1, <1>1, TableAssumption DEF HighDate
  <2>2. CASE ~v.is_current
    <3>1. PICK j \in DOMAIN log : log[j].key = k /\ log[j].timestamp = v.effective_to
      BY <2>2, <1>5 DEF AsOfInv, EndsLogged
    <3>2. e.timestamp < v.effective_to /\ v.effective_to \in Nat
      BY <1>2, <1>5 DEF Covers
    <3>3. QED
      BY <3>1, <3>2, <1>4
  <2>3. QED
    BY <2>1, <2>2
<1>8. v \in AsOf(k, t)
  BY <1>2, <1>4, <1>5, <1>7 DEF AsOf, Covers
<1>9. ASSUME NEW u \in AsOf(k, t) PROVE u = v
  <2>1. u \in dim /\ u.key = k /\ u.effective_from <= t /\ t < u.effective_to
    BY DEF AsOf
  <2>2. ~(u.effective_to <= v.effective_from) /\ ~(v.effective_to <= u.effective_from)
    BY <2>1, <1>2, <1>7, <1>8 DEF AsOf
  <2>3. QED
    BY <2>1, <2>2, <1>5 DEF AsOfInv, Disjoint
<1>10. QED
  BY <1>6, <1>8, <1>9

\* With one job at a time: at an instant whose change was merged before the next one,
\* the join of the facts with the dimension finds one version, with the city of then.
THEOREM HistoryAsOf == ASSUME Serial PROVE HistorySpec => []AsOfAgrees
<1>1. TableInit /\ HistoryInit => ChainInv /\ OneCurrentVersion /\ AsOfInv
  BY ChainInit, OneCurrentInit, AsOfInit
<1>2. ChainInv /\ OneCurrentVersion /\ AsOfInv /\ [HistoryNext]_HistoryVars
        => (ChainInv /\ OneCurrentVersion /\ AsOfInv)'
  BY ChainStep, OneCurrentStep, AsOfStep DEF ChainInv
<1>3. ChainInv /\ OneCurrentVersion /\ AsOfInv => AsOfAgrees
  BY AsOfFollows DEF ChainInv
<1>4. HistorySpec => TableInit /\ HistoryInit /\ [][HistoryNext]_HistoryVars
  BY DEF HistorySpec, HistoryNext, HistoryVars
<1>5. QED
  BY <1>1, <1>2, <1>3, <1>4, PTL

-----------------------------------------------------------------------------
(* The change log.  The state after a few events is, of each key, the row  *)
(* of the last of them that is of this key: what the fold makes of the     *)
(* sorted events is found by a least counterexample.                       *)

LogNext ==
    \/ TableStep /\ UNCHANGED logVars
    \/ LogStep /\ UNCHANGED tableVars

LogSpec == TableInit /\ LogInit /\ [][LogNext]_<<tableVars, logVars>>

\* The log is in the order of its instants, and its last event of a key is its row.
LogIsTable ==
    /\ Len(log) <= MaxWrites
    /\ \A i, j \in DOMAIN log : i < j => log[i].timestamp < log[j].timestamp
    /\ \A i \in DOMAIN log : log[i].timestamp <= clock
                             /\ (log[i].op = "DELETE" => log[i].after = Absent)
    /\ \A k \in Keys : IF Of(k) = {} THEN customers[k].city = Absent
                       ELSE \E i \in Of(k) : /\ \A j \in Of(k) : j <= i
                                             /\ customers[k].city = log[i].after

\* A key that has not changed since the snapshot is in it as it is in the table.
SnapshotIsTable ==
    snapAt # NotTaken =>
        /\ snapAt <= Len(log)
        /\ \A k \in Keys : (\A i \in Of(k) : i <= snapAt) => snapshot[k] = customers[k].city

LogInv ==
    /\ TableTypeOK /\ LogTypeOK /\ LogIsTable /\ SnapshotIsTable
    /\ \A n \in DOMAIN received : received[n] \in DOMAIN log

LEMMA LogInvInit == TableInit /\ LogInit => LogInv
<1>1. TableInit => TableTypeOK
  BY TableAssumption DEF TableInit, TableTypeOK, Rows, NoRow, Undated
<1>2. LogInit => LogTypeOK
  <2>1. ASSUME LogInit PROVE snapshot \in [Keys -> Cities \cup {Absent}] /\ snapAt \in 0..NotTaken
    BY <2>1, TableAssumption DEF LogInit, NotTaken
  <2>2. ASSUME LogInit PROVE received \in Seq(1..MaxWrites)
    BY <2>2 DEF LogInit
  <2>3. ASSUME LogInit PROVE Len(received) = 0
    BY <2>3 DEF LogInit
  <2>4. QED
    BY <2>1, <2>2, <2>3, DeliveriesAssumption DEF LogTypeOK
<1>3. QED
  BY <1>1, <1>2, TableAssumption DEF TableInit, LogInit, LogInv, LogIsTable, SnapshotIsTable, Of, NoRow

\* A write is the newest event of its key, and newer than the snapshot.
LEMMA LogTableStep ==
  ASSUME LogInv, TableStep, UNCHANGED logVars PROVE LogInv'
<1> USE DEF LogInv
<1>1. TableTypeOK'
  BY TableTypesStep
<1>2. LogTypeOK'
  BY DEF LogTypeOK, logVars
<1>3. PICK k \in Keys, row \in Rows \cup {NoRow}, e \in Events :
        /\ clock' = clock + 1
        /\ customers' = [customers EXCEPT ![k] = row]
        /\ e.key = k /\ e.after = row.city /\ e.timestamp = clock + 1
        /\ e.op = "DELETE" => e.after = Absent
        /\ log' = Append(log, e)
  BY TableEvent
<1>4. clock \in Nat /\ log \in Seq(Events) /\ Len(log) \in Nat /\ MaxWrites \in Nat
  BY TableAssumption DEF TableTypeOK
<1>5. /\ DOMAIN log' = DOMAIN log \cup {Len(log) + 1} /\ Len(log) + 1 \notin DOMAIN log
      /\ \A i \in DOMAIN log : log'[i] = log[i] /\ i \in Nat /\ i <= Len(log)
      /\ log'[Len(log) + 1] = e /\ Len(log') = Len(log) + 1
  BY <1>3, <1>4, AppendGrows
<1>6. Len(log) < MaxWrites
  <2>1. \A op, j, r : Change(op, j, r) => Len(log) < MaxWrites
    BY DEF Change
  <2>2. QED
    BY <2>1 DEF TableStep, WriteCustomer, DeleteCustomer
<1>7. \A i \in DOMAIN log : log[i].timestamp \in Nat
  <2>1. \A i \in DOMAIN log : log[i] \in Events
    BY <1>4
  <2> HIDE DEF LogInv
  <2>2. QED
    BY <2>1, TableAssumption DEF Events
<1>8. /\ \A i, j \in DOMAIN log' : i < j => log'[i].timestamp < log'[j].timestamp
      /\ \A i \in DOMAIN log' : log'[i].timestamp <= clock'
                                /\ (log'[i].op = "DELETE" => log'[i].after = Absent)
  BY <1>3, <1>4, <1>5, <1>7 DEF LogIsTable
<1>9. /\ Of(k)' = Of(k) \cup {Len(log) + 1}
      /\ \A j \in Keys \ {k} : Of(j)' = Of(j)
  BY <1>3, <1>5 DEF Of
<1>10. /\ customers'[k].city = e.after
       /\ \A j \in Keys \ {k} : customers'[j] = customers[j]
  BY <1>3 DEF TableTypeOK
<1>11. \A j \in Keys : Of(j) \subseteq DOMAIN log
  BY DEF Of
<1>12. ASSUME NEW j \in Keys
       PROVE  IF Of(j)' = {} THEN customers'[j].city = Absent
              ELSE \E i \in Of(j)' : /\ \A h \in Of(j)' : h <= i
                                     /\ customers'[j].city = log'[i].after
  <2>1. CASE j = k
    <3>1. Of(j)' = Of(j) \cup {Len(log) + 1} /\ customers'[j].city = e.after
      BY <2>1, <1>9, <1>10
    <3>2. \A h \in Of(j) : h \in Nat /\ h <= Len(log)
      BY <1>5, <1>11
    <3>3. \A h \in Of(j)' : h <= Len(log) + 1
      BY <1>4, <3>1, <3>2
    <3> HIDE DEF LogInv
    <3>4. Len(log) + 1 \in Of(j)' /\ customers'[j].city = log'[Len(log) + 1].after
      BY <3>1, <1>5
    <3>5. QED
      BY <3>3, <3>4
  <2>2. CASE j # k
    <3>1. Of(j)' = Of(j) /\ customers'[j] = customers[j]
      BY <2>2, <1>9, <1>10
    <3>2. \A i \in Of(j) : log'[i] = log[i]
      BY <1>5, <1>11
    <3>3. IF Of(j) = {} THEN customers[j].city = Absent
          ELSE \E i \in Of(j) : /\ \A h \in Of(j) : h <= i
                                /\ customers[j].city = log[i].after
      BY DEF LogIsTable
    <3> HIDE DEF LogInv
    <3>4. QED
      BY <3>1, <3>2, <3>3
  <2>3. QED
    BY <2>1, <2>2
<1>13. LogIsTable'
  BY <1>4, <1>5, <1>6, <1>8, <1>12 DEF LogIsTable
<1>14. SnapshotIsTable'
  <2>1. snapAt' = snapAt /\ snapshot' = snapshot /\ snapAt \in Nat
    BY TableAssumption DEF logVars, LogTypeOK, NotTaken
  <2>2. SUFFICES ASSUME snapAt # NotTaken
                 PROVE  /\ snapAt <= Len(log')
                        /\ \A j \in Keys : (\A i \in Of(j)' : i <= snapAt)
                              => snapshot[j] = customers'[j].city
    BY <2>1 DEF SnapshotIsTable, NotTaken
  <2>3. snapAt <= Len(log)
    BY <2>2 DEF SnapshotIsTable
  <2>4. ~(\A i \in Of(k)' : i <= snapAt)
    <3>1. Len(log) + 1 \in Of(k)' /\ ~(Len(log) + 1 <= snapAt)
      BY <2>1, <2>3, <1>4, <1>9
    <3> HIDE DEF LogInv
    <3>2. QED
      BY <3>1
  <2>5. QED
    BY <2>1, <2>2, <2>3, <2>4, <1>4, <1>5, <1>9, <1>10 DEF SnapshotIsTable
<1>15. received' = received
  BY DEF logVars
<1>16. QED
  BY <1>1, <1>2, <1>5, <1>13, <1>14, <1>15

LEMMA LogReaderStep ==
  ASSUME LogInv, LogStep, UNCHANGED tableVars PROVE LogInv'
<1> USE DEF LogInv
<1>1. /\ TableTypeOK' /\ LogIsTable' /\ DOMAIN log' = DOMAIN log /\ log' = log
      /\ customers' = customers /\ \A k \in Keys : Of(k)' = Of(k)
  BY DEF tableVars, TableTypeOK, LogIsTable, Of
<1>2. log \in Seq(Events) /\ Len(log) \in Nat /\ MaxWrites \in Nat
  BY TableAssumption DEF TableTypeOK
<1>3. CASE TakeSnapshot
  <2>1. /\ snapshot' = [k \in Keys |-> customers[k].city] /\ snapAt' = Len(log)
        /\ received' = received
    BY <1>3 DEF TakeSnapshot
  <2>2. \A k \in Keys : customers[k].city \in Cities \cup {Absent}
    BY DEF TableTypeOK, Rows, NoRow
  <2>3. Len(log) \in 0..NotTaken
    BY <1>2 DEF LogIsTable, NotTaken
  <2>4. LogTypeOK'
    BY <2>1, <2>2, <2>3 DEF LogTypeOK, NotTaken
  <2>5. SnapshotIsTable'
    BY <1>1, <1>2, <2>1 DEF SnapshotIsTable
  <2>6. QED
    BY <1>1, <2>1, <2>4, <2>5
<1>4. CASE Deliver
  <2>1. PICK i \in DOMAIN log : received' = Append(received, i)
    BY <1>4 DEF Deliver
  <2>2. snapshot' = snapshot /\ snapAt' = snapAt /\ Len(received) < MaxDeliveries
    BY <1>4 DEF Deliver
  <2>3. i \in 1..MaxWrites /\ received \in Seq(1..MaxWrites)
    BY <1>2 DEF LogIsTable, LogTypeOK
  <2>4. /\ received' \in Seq(1..MaxWrites) /\ Len(received') = Len(received) + 1
        /\ \A n \in DOMAIN received' : received'[n] \in DOMAIN log
    BY <2>1, <2>3
  <2>5. LogTypeOK'
    BY <2>2, <2>3, <2>4, DeliveriesAssumption DEF LogTypeOK, NotTaken
  <2>6. SnapshotIsTable'
    BY <1>1, <2>2 DEF SnapshotIsTable, NotTaken
  <2>7. QED
    BY <1>1, <2>4, <2>5, <2>6
<1>5. QED
  BY <1>3, <1>4 DEF LogStep

-----------------------------------------------------------------------------
\* The sort: the places 1, 2, ... are taken, each by one event.

LEMMA LeastNumber ==
  ASSUME NEW nums, nums \subseteq Nat, nums # {}
  PROVE  \E x \in nums : \A y \in nums : x <= y
<1> DEFINE R == OpToRel(<, Nat)
<1>1. IsWellFoundedOn(R, Nat)
  BY NatLessThanWellFounded
<1>2. PICK x \in nums : \A y \in nums : <<y, x>> \notin R
  <2> HIDE DEF R
  <2>1. QED
    BY <1>1, WFMin
<1>3. \A y \in nums : ~(y < x)
  BY <1>2 DEF OpToRel
<1>4. QED
  BY <1>3

\* Events that arrived, of a log that is in order.
Arrived(events) ==
    /\ events \in Seq(DOMAIN log) /\ log \in Seq(Events)
    /\ \A i, j \in DOMAIN log : i < j => log[i].timestamp < log[j].timestamp

At(events, m) == log[events[m]].timestamp
Rank(events, n) == Cardinality(Ahead(events, n))

LEMMA ArrivedFacts ==
  ASSUME NEW events, Arrived(events)
  PROVE  /\ Len(events) \in Nat /\ DOMAIN events = 1..Len(events)
         /\ IsFiniteSet(DOMAIN events) /\ Cardinality(DOMAIN events) = Len(events)
         /\ \A i \in DOMAIN log : log[i].timestamp \in Nat
         /\ \A n \in DOMAIN events : events[n] \in DOMAIN log /\ At(events, n) \in Nat
<1>1. Len(events) \in Nat /\ DOMAIN events = 1..Len(events)
      /\ \A n \in DOMAIN events : events[n] \in DOMAIN log
  BY DEF Arrived
<1>2. \A i \in DOMAIN log : log[i].timestamp \in Nat
  <2>1. \A i \in DOMAIN log : log[i] \in Events
    BY DEF Arrived
  <2>2. QED
    BY <2>1, TableAssumption DEF Events
<1>3. QED
  BY <1>1, <1>2, FS_Interval DEF At

LEMMA AheadFacts ==
  ASSUME NEW events, Arrived(events), NEW n \in DOMAIN events
  PROVE  /\ Ahead(events, n) = {m \in DOMAIN events :
               At(events, m) < At(events, n) \/ (At(events, m) = At(events, n) /\ m < n)}
         /\ IsFiniteSet(Ahead(events, n)) /\ Rank(events, n) \in 0..(Len(events) - 1)
<1>1. Ahead(events, n) = {m \in DOMAIN events :
         At(events, m) < At(events, n) \/ (At(events, m) = At(events, n) /\ m < n)}
  BY DEF Ahead, At
<1>2. Ahead(events, n) \subseteq DOMAIN events \ {n}
  BY <1>1, ArrivedFacts
<1>3. IsFiniteSet(DOMAIN events \ {n}) /\ Cardinality(DOMAIN events \ {n}) = Len(events) - 1
  BY ArrivedFacts, FS_RemoveElement
<1>4. IsFiniteSet(Ahead(events, n)) /\ Rank(events, n) <= Len(events) - 1
  BY <1>2, <1>3, FS_Subset DEF Rank
<1>5. Rank(events, n) \in Nat
  BY <1>4, FS_CardinalityType DEF Rank
<1>6. QED
  BY <1>1, <1>4, <1>5, ArrivedFacts

\* Of two events the one that is ahead has the lower rank.
LEMMA RanksInOrder ==
  ASSUME NEW events, Arrived(events), NEW m \in DOMAIN events, NEW n \in DOMAIN events,
         m \in Ahead(events, n)
  PROVE  Rank(events, m) < Rank(events, n)
<1>1. /\ \A i \in DOMAIN events : i \in Nat /\ At(events, i) \in Nat
      /\ At(events, m) < At(events, n) \/ (At(events, m) = At(events, n) /\ m < n)
  BY ArrivedFacts, AheadFacts
<1>2. Ahead(events, m) \subseteq Ahead(events, n)
  <2>1. ASSUME NEW i \in DOMAIN events, At(events, i) < At(events, m)
                     \/ (At(events, i) = At(events, m) /\ i < m)
        PROVE  At(events, i) < At(events, n) \/ (At(events, i) = At(events, n) /\ i < n)
    BY <1>1, <2>1
  <2>2. QED
    BY <2>1, AheadFacts
<1>3. m \notin Ahead(events, m)
  BY <1>1, AheadFacts
<1>4. Rank(events, m) <= Rank(events, n) /\ Rank(events, m) # Rank(events, n)
  BY <1>2, <1>3, AheadFacts, FS_Subset DEF Rank
<1>5. Rank(events, m) \in Int /\ Rank(events, n) \in Int
  BY AheadFacts
<1>6. QED
  BY <1>4, <1>5

LEMMA RanksDiffer ==
  ASSUME NEW events, Arrived(events), NEW m \in DOMAIN events, NEW n \in DOMAIN events,
         Rank(events, m) = Rank(events, n)
  PROVE  m = n
<1>1. m \in Nat /\ n \in Nat /\ At(events, m) \in Nat /\ At(events, n) \in Nat
  BY ArrivedFacts
<1>2. m # n => m \in Ahead(events, n) \/ n \in Ahead(events, m)
  BY <1>1, AheadFacts
<1>3. Rank(events, m) \in Int /\ Rank(events, n) \in Int
  BY AheadFacts
<1>4. QED
  BY <1>2, <1>3, RanksInOrder

LEMMA RanksTaken ==
  ASSUME NEW events, Arrived(events), NEW p \in DOMAIN events
  PROVE  \E n \in DOMAIN events : Rank(events, n) = p - 1
<1> DEFINE places == 0..(Len(events) - 1)
           rank == [n \in DOMAIN events |-> Rank(events, n)]
<1>1. rank \in [DOMAIN events -> places]
  BY AheadFacts
<1>2. \A m, n \in DOMAIN events : rank[m] = rank[n] => m = n
  BY RanksDiffer
<1>3. p - 1 \in places /\ IsFiniteSet(places) /\ Cardinality(places) = Len(events)
  <2>1. p \in 1..Len(events) /\ Len(events) \in Nat
    BY ArrivedFacts
  <2>2. IsFiniteSet(places) /\ Cardinality(places) = (Len(events) - 1) - 0 + 1
    <3>1. \A b \in Int : IsFiniteSet(0..b) /\ Cardinality(0..b) = (IF 0 > b THEN 0 ELSE b - 0 + 1)
      BY FS_Interval
    <3>2. Len(events) - 1 \in Int /\ ~(0 > Len(events) - 1)
      BY <2>1
    <3>3. QED
      BY <3>1, <3>2
  <2>3. QED
    BY <2>1, <2>2
<1>4. rank \in Injection(DOMAIN events, places)
  <2> HIDE DEF rank, places
  <2>1. QED
    BY <1>1, <1>2 DEF Injection, IsInjective
<1>5. rank \in Surjection(DOMAIN events, places)
  <2> HIDE DEF rank, places
  <2>1. QED
    BY <1>3, <1>4, ArrivedFacts, FS_Injection
<1>6. \E n \in DOMAIN events : rank[n] = p - 1
  <2> HIDE DEF rank, places
  <2>1. QED
    BY <1>3, <1>5 DEF Surjection
<1>7. QED
  BY <1>6

\* The sorted events are those that arrived, in the order of the log.
LEMMA SortedEvents ==
  ASSUME NEW events, Arrived(events), NEW seq, seq = InTimestampOrder(events)
  PROVE  /\ DOMAIN seq = DOMAIN events
         /\ \A p \in DOMAIN seq : \E n \in DOMAIN events : seq[p] = events[n]
         /\ \A n \in DOMAIN events : \E p \in DOMAIN seq : seq[p] = events[n]
         /\ \A p, q \in DOMAIN seq : p <= q => seq[p] <= seq[q]
<1> DEFINE at(p) == CHOOSE n \in DOMAIN events : Rank(events, n) = p - 1
<1>1. DOMAIN seq = DOMAIN events /\ \A p \in DOMAIN events : seq[p] = events[at(p)]
  BY DEF InTimestampOrder, Rank
<1>2. \A p \in DOMAIN events : at(p) \in DOMAIN events /\ Rank(events, at(p)) = p - 1
  BY RanksTaken
<1> HIDE DEF at
<1>3. ASSUME NEW n \in DOMAIN events
      PROVE  \E p \in DOMAIN seq : seq[p] = events[n]
  <2> DEFINE p == Rank(events, n) + 1
  <2>1. p \in DOMAIN events /\ p - 1 = Rank(events, n)
    BY ArrivedFacts, AheadFacts
  <2> HIDE DEF p
  <2>2. at(p) = n
    BY <1>2, <2>1, RanksDiffer
  <2>3. QED
    BY <1>1, <2>1, <2>2
<1>4. ASSUME NEW p \in DOMAIN seq, NEW q \in DOMAIN seq, p <= q
      PROVE  seq[p] <= seq[q]
  <2>1. p \in Nat /\ q \in Nat /\ at(p) \in DOMAIN events /\ at(q) \in DOMAIN events
        /\ Rank(events, at(p)) <= Rank(events, at(q))
    BY <1>1, <1>2, <1>4, ArrivedFacts
  <2>2. at(q) \notin Ahead(events, at(p))
    <3>1. Rank(events, at(p)) \in Int /\ Rank(events, at(q)) \in Int
      BY <2>1, AheadFacts
    <3>2. QED
      BY <2>1, <3>1, RanksInOrder
  <2>3. ~(At(events, at(q)) < At(events, at(p)))
    BY <2>1, <2>2, AheadFacts
  <2>4. seq[p] \in DOMAIN log /\ seq[q] \in DOMAIN log
        /\ ~(log[seq[q]].timestamp < log[seq[p]].timestamp)
    BY <1>1, <2>1, <2>3, ArrivedFacts DEF At
  <2>5. DOMAIN log \subseteq Nat
    BY DEF Arrived
  <2>6. QED
    BY <2>4, <2>5 DEF Arrived
<1>5. QED
  BY <1>1, <1>2, <1>3, <1>4

-----------------------------------------------------------------------------
\* The fold: after the events at the places of a set, a key has the row of the last.

Latest(seq, places) ==
    [k \in Keys |-> LET mine == {x \in places : log[seq[x]].key = k} IN
                    IF mine = {} THEN snapshot[k] ELSE log[seq[Max(mine)]].after]

Replay(seq, it) ==
    [places \in SUBSET (DOMAIN seq) |->
        IF places = {} THEN snapshot
        ELSE ApplyEvent(it[places \ {Max(places)}], seq[Max(places)])]

Replayed(seq) == CHOOSE it : it = Replay(seq, it)

LEMMA ReconstructedIs == 
  ASSUME NEW seq, seq = InTimestampOrder(received)
  PROVE  Reconstructed = Replayed(seq)[DOMAIN seq]
BY DEF Reconstructed, FoldLeft, MapThenFoldSet, Replayed, Replay

\* The greatest of some places.
LEMMA MaxIs ==
  ASSUME NEW n \in Nat, NEW places \in SUBSET (1..n), places # {}
  PROVE  Max(places) \in places /\ \A x \in places : x <= Max(places)
<1> DEFINE gaps == {n - x : x \in places}
<1>1. gaps \subseteq Nat /\ gaps # {}
  <2>1. \A x \in places : n - x \in Nat
    OBVIOUS
  <2>2. PICK x \in places : TRUE
    OBVIOUS
  <2>3. n - x \in gaps
    OBVIOUS
  <2>4. QED
    BY <2>1, <2>3
<1>2. PICK g \in gaps : \A h \in gaps : g <= h
  <2> HIDE DEF gaps
  <2>1. QED
    BY <1>1, LeastNumber
<1>3. PICK x \in places : g = n - x
  BY <1>2
<1>4. ASSUME NEW y \in places
      PROVE  x >= y
  <2>1. n - y \in gaps /\ x \in Int /\ y \in Int
    OBVIOUS
  <2> HIDE DEF gaps
  <2>2. n - x <= n - y
    BY <1>2, <1>3, <2>1
  <2>3. QED
    BY <2>1, <2>2
<1>5. Max(places) \in places /\ \A y \in places : Max(places) >= y
  BY <1>4 DEF Max
<1>6. QED
  BY <1>5

LEMMA MaxIsOne ==
  ASSUME NEW n \in Nat, NEW places \in SUBSET (1..n), NEW x \in places,
         \A y \in places : y <= x
  PROVE  Max(places) = x
<1>1. Max(places) \in places /\ x <= Max(places) /\ Max(places) <= x
  BY MaxIs
<1>2. \A y, z \in 1..n : y <= z /\ z <= y => y = z
  OBVIOUS
<1>3. x \in 1..n /\ Max(places) \in 1..n
  BY <1>1
<1>4. QED
  BY <1>1, <1>2, <1>3, Zenon

\* One more event: it is the last one of its key.
LEMMA LatestOfOneMore ==
  ASSUME TableTypeOK, LogTypeOK, LogIsTable,
         NEW n \in Nat, NEW seq, DOMAIN seq = 1..n, \A x \in 1..n : seq[x] \in DOMAIN log,
         NEW places \in SUBSET (1..n), places # {}
  PROVE  Latest(seq, places)
            = ApplyEvent(Latest(seq, places \ {Max(places)}), seq[Max(places)])
<1> DEFINE x == Max(places)
           rest == places \ {x}
           Mine(set, k) == {y \in set : log[seq[y]].key = k}
<1>1. x \in places /\ \A y \in places : y <= x
  BY MaxIs
<1>2. /\ seq[x] \in DOMAIN log /\ log[seq[x]] \in Events
      /\ log[seq[x]].op = "DELETE" => log[seq[x]].after = Absent
  <2>1. seq[x] \in DOMAIN log
    BY <1>1
  <2>2. \A i \in DOMAIN log : log[i] \in Events
    BY DEF TableTypeOK
  <2> HIDE DEF x
  <2>3. QED
    BY <2>1, <2>2 DEF LogIsTable
<1>3. /\ log[seq[x]].key \in Keys
      /\ (IF log[seq[x]].op \in {"INSERT", "UPDATE"} THEN log[seq[x]].after ELSE Absent)
            = log[seq[x]].after
  BY <1>2 DEF Events
<1> HIDE DEF x
<1>4. ApplyEvent(Latest(seq, rest), seq[x])
         = [Latest(seq, rest) EXCEPT ![log[seq[x]].key] = log[seq[x]].after]
  BY <1>3 DEF ApplyEvent
<1>5. \A set : /\ DOMAIN Latest(seq, set) = Keys
               /\ Latest(seq, set) = [k \in Keys |-> Latest(seq, set)[k]]
               /\ \A k \in Keys : Latest(seq, set)[k] =
                     (IF Mine(set, k) = {} THEN snapshot[k]
                      ELSE log[seq[Max(Mine(set, k))]].after)
  BY DEF Latest
<1>6. ASSUME NEW k \in Keys
      PROVE  Latest(seq, places)[k]
               = (IF k = log[seq[x]].key THEN log[seq[x]].after ELSE Latest(seq, rest)[k])
  <2>1. CASE k = log[seq[x]].key
    <3>1. x \in Mine(places, k) /\ \A y \in Mine(places, k) : y <= x
      BY <1>1, <2>1
    <3>2. Mine(places, k) \in SUBSET (1..n)
      OBVIOUS
    <3> HIDE DEF Mine
    <3>3. Max(Mine(places, k)) = x
      BY <3>1, <3>2, MaxIsOne
    <3>4. QED
      BY <1>5, <2>1, <3>1, <3>3
  <2>2. CASE k # log[seq[x]].key
    <3>1. Mine(places, k) = Mine(rest, k)
      BY <2>2
    <3> HIDE DEF Mine
    <3>2. QED
      BY <1>5, <2>2, <3>1
  <2>3. QED
    BY <2>1, <2>2
<1>7. Latest(seq, places) = [Latest(seq, rest) EXCEPT ![log[seq[x]].key] = log[seq[x]].after]
  BY <1>3, <1>5, <1>6
<1>8. QED
  BY <1>4, <1>7 DEF x

LEMMA ReplayIsLatest ==
  ASSUME TableTypeOK, LogTypeOK, LogIsTable,
         NEW n \in Nat, NEW seq, DOMAIN seq = 1..n, \A x \in 1..n : seq[x] \in DOMAIN log
  PROVE  Replayed(seq)[DOMAIN seq] = Latest(seq, DOMAIN seq)
<1> DEFINE D == SUBSET (DOMAIN seq)
           it == Replayed(seq)
           explicit == [places \in D |-> Latest(seq, places)]
<1>1. Latest(seq, {}) = snapshot
  <2>1. snapshot = [k \in Keys |-> snapshot[k]]
    BY DEF LogTypeOK
  <2>2. QED
    BY <2>1 DEF Latest
<1>2. \A places \in D : places # {} =>
         Latest(seq, places)
            = ApplyEvent(Latest(seq, places \ {Max(places)}), seq[Max(places)])
  BY LatestOfOneMore
<1>3. explicit = Replay(seq, explicit)
  <2>1. \A places \in D : places \ {Max(places)} \in D
    OBVIOUS
  <2>2. \A places \in D :
           explicit[places] = (IF places = {} THEN snapshot
                               ELSE ApplyEvent(explicit[places \ {Max(places)}],
                                               seq[Max(places)]))
    BY <1>1, <1>2, <2>1
  <2> HIDE DEF explicit
  <2>3. Replay(seq, explicit) = [places \in D |-> explicit[places]]
    BY <2>2 DEF Replay
  <2>4. QED
    BY <2>3 DEF explicit
<1>4. it = Replay(seq, it)
  <2> HIDE DEF explicit
  <2>1. QED
    BY <1>3 DEF Replayed
<1> HIDE DEF it
<1>5. \A places \in D : it[places] =
         (IF places = {} THEN snapshot
          ELSE ApplyEvent(it[places \ {Max(places)}], seq[Max(places)]))
  BY <1>4 DEF Replay
<1> DEFINE wrong == {m \in 0..n : it[1..m] # Latest(seq, 1..m)}
<1>6. wrong = {}
  <2>1. SUFFICES ASSUME wrong # {} PROVE FALSE
    OBVIOUS
  <2>2. wrong \subseteq Nat
    OBVIOUS
  <2>3. PICK m \in wrong : \A l \in wrong : m <= l
    <3> HIDE DEF wrong
    <3>1. QED
      BY <2>1, <2>2, LeastNumber
  <2>4. m \in 0..n /\ it[1..m] # Latest(seq, 1..m) /\ 1..m \in D
    BY <2>3
  <2>5. CASE m = 0
    <3>1. 1..m = {}
      BY <2>5
    <3>2. QED
      BY <1>1, <1>5, <2>4, <3>1
  <2>6. CASE m # 0
    <3>1. m \in 1..n /\ 1..m \in SUBSET (1..n) /\ m \in 1..m /\ \A y \in 1..m : y <= m
      BY <2>4, <2>6
    <3>2. Max(1..m) = m /\ 1..m # {}
      BY <3>1, MaxIsOne
    <3>3. (1..m) \ {m} = 1..(m - 1) /\ m - 1 \in 0..n /\ ~(m <= m - 1)
      BY <3>1
    <3>4. m - 1 \notin wrong
      BY <2>3, <3>3
    <3>5. it[1..(m - 1)] = Latest(seq, 1..(m - 1))
      BY <3>3, <3>4
    <3>6. QED
      BY <1>2, <1>5, <2>4, <3>2, <3>3, <3>5
  <2>7. QED
    BY <2>5, <2>6
<1>7. it[1..n] = Latest(seq, 1..n)
  BY <1>6
<1>8. QED
  BY <1>7 DEF it

LEMMA LogFollows == LogInv => ReconstructsSource
<1> SUFFICES ASSUME LogInv, snapAt # NotTaken, NEW k \in Keys, Fresh(k)
             PROVE  Reconstructed[k] = customers[k].city
  BY DEF ReconstructsSource
<1> DEFINE seq == InTimestampOrder(received)
           mine == {x \in DOMAIN seq : log[seq[x]].key = k}
           n == Len(received)
<1>1. /\ TableTypeOK /\ LogTypeOK /\ LogIsTable /\ SnapshotIsTable
      /\ log \in Seq(Events) /\ n \in Nat /\ DOMAIN received = 1..n
      /\ \A m \in 1..n : received[m] \in DOMAIN log
  BY DEF LogInv, TableTypeOK, LogTypeOK
<1>2. Arrived(received)
  <2>1. received \in Seq(DOMAIN log)
    <3>1. received = [m \in 1..n |-> received[m]]
      BY <1>1 DEF LogTypeOK
    <3>2. QED
      BY <1>1, <3>1
  <2>2. QED
    BY <1>1, <2>1 DEF Arrived, LogIsTable
<1>3. /\ DOMAIN seq = 1..n
      /\ \A p \in 1..n : \E m \in 1..n : seq[p] = received[m]
      /\ \A m \in 1..n : \E p \in 1..n : seq[p] = received[m]
      /\ \A p, q \in 1..n : p <= q => seq[p] <= seq[q]
  <2>1. /\ DOMAIN seq = DOMAIN received
        /\ \A p \in DOMAIN seq : \E m \in DOMAIN received : seq[p] = received[m]
        /\ \A m \in DOMAIN received : \E p \in DOMAIN seq : seq[p] = received[m]
        /\ \A p, q \in DOMAIN seq : p <= q => seq[p] <= seq[q]
    BY <1>2, SortedEvents
  <2> HIDE DEF seq
  <2>2. QED
    BY <1>1, <2>1
<1>4. Reconstructed = Replayed(seq)[DOMAIN seq]
  BY ReconstructedIs
<1> HIDE DEF seq
<1>5. \A p \in 1..n : seq[p] \in DOMAIN log
  BY <1>1, <1>3
<1>6. Reconstructed[k] = (IF mine = {} THEN snapshot[k] ELSE log[seq[Max(mine)]].after)
  <2>1. Reconstructed = Latest(seq, DOMAIN seq)
    BY <1>1, <1>3, <1>4, <1>5, ReplayIsLatest
  <2>2. QED
    BY <2>1 DEF Latest
<1>7. Range(received) = {received[m] : m \in 1..n}
  BY <1>1 DEF Range
<1>8. mine \in SUBSET (1..n) /\ \A p \in mine : seq[p] \in Of(k)
  BY <1>3, <1>5 DEF Of
<1>9. Of(k) \in SUBSET (1..Len(log)) /\ Len(log) \in Nat
  BY <1>1 DEF Of
<1>10. CASE mine = {}
  <2>1. Of(k) \cap Range(received) = {}
    <3>1. ASSUME NEW m \in 1..n, received[m] \in Of(k)
          PROVE  FALSE
      <4>1. PICK p \in 1..n : seq[p] = received[m]
        BY <1>3
      <4>2. p \in mine
        BY <1>3, <3>1, <4>1 DEF Of
      <4>3. QED
        BY <1>10, <4>2
    <3>2. QED
      BY <1>7, <3>1
  <2>2. Of(k) # {} => Max(Of(k)) \in Of(k) /\ \A i \in Of(k) : i <= Max(Of(k))
    BY <1>9, MaxIs
  <2>3. \A i \in Of(k) : i <= snapAt
    <3>1. snapAt \in Nat
      BY <1>1, TableAssumption DEF LogTypeOK, NotTaken
    <3>2. Of(k) # {} => Max(Of(k)) <= snapAt
      BY <2>1, <2>2 DEF Fresh
    <3>3. \A i \in Of(k) : i \in Nat
      BY <1>9
    <3>4. QED
      BY <2>2, <3>1, <3>2, <3>3
  <2>4. QED
    BY <1>1, <1>6, <1>10, <2>3 DEF SnapshotIsTable
<1>11. CASE mine # {}
  <2>1. Max(mine) \in mine /\ \A p \in mine : p <= Max(mine)
    BY <1>1, <1>8, <1>11, MaxIs
  <2>2. seq[Max(mine)] \in Of(k) /\ \E m \in 1..n : seq[Max(mine)] = received[m]
    BY <1>3, <1>8, <2>1
  <2>3. PICK e \in Of(k) : /\ \A i \in Of(k) : i <= e
                           /\ customers[k].city = log[e].after
    BY <1>1, <2>2 DEF LogIsTable
  <2>4. Max(Of(k)) = e
    BY <1>9, <2>3, MaxIsOne
  <2>5. e \in Range(received)
    BY <1>7, <2>2, <2>4 DEF Fresh
  <2>6. PICK p \in 1..n : seq[p] = e
    <3>1. PICK m \in 1..n : e = received[m]
      BY <1>7, <2>5
    <3>2. QED
      BY <1>3, <3>1
  <2>7. p \in mine
    BY <1>3, <2>6 DEF Of
  <2>8. e <= seq[Max(mine)] /\ seq[Max(mine)] <= e
    BY <1>3, <1>8, <2>1, <2>2, <2>3, <2>6, <2>7
  <2>9. seq[Max(mine)] = e
    BY <1>9, <2>2, <2>3, <2>8
  <2>10. QED
    BY <1>6, <1>11, <2>3, <2>9
<1>12. QED
  BY <1>10, <1>11

\* reconstruct_latest_state() has each key whose last event is known as the source has
\* it, whatever arrived twice, late or not at all.
THEOREM LogReconstructs == LogSpec => []ReconstructsSource
<1>1. TableInit /\ LogInit => LogInv
  BY LogInvInit
<1>2. LogInv /\ [LogNext]_<<tableVars, logVars>> => LogInv'
  <2>1. SUFFICES ASSUME LogInv, [LogNext]_<<tableVars, logVars>>
                 PROVE  LogInv'
    OBVIOUS
  <2>2. CASE TableStep /\ UNCHANGED logVars
    BY <2>1, <2>2, LogTableStep
  <2>3. CASE LogStep /\ UNCHANGED tableVars
    BY <2>1, <2>3, LogReaderStep
  <2>4. CASE UNCHANGED <<tableVars, logVars>>
    BY <2>1, <2>4 DEF LogInv, tableVars, logVars, TableTypeOK, LogTypeOK, LogIsTable,
                      SnapshotIsTable, Of, NotTaken
  <2>5. QED
    BY <2>1, <2>2, <2>3, <2>4 DEF LogNext
<1>3. QED
  BY <1>1, <1>2, LogFollows, PTL DEF LogSpec
==============================================================================
