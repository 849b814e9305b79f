--------------------------- MODULE CustomerHistory ---------------------------
(***************************************************************************)
(* Slowly changing dimensions: the customers are extracted again and again *)
(* while the table is written, and what was extracted is merged into a     *)
(* Type 1 and a Type 2 dimension, now and then more than once.             *)
(***************************************************************************)
EXTENDS CustomerTable

CONSTANT Jobs               \* jobs that keep the dimensions up to date

VARIABLES
    batch,          \* local of a job: the rows it has extracted
    held,           \* local of a job: whether it has rows
    dim,            \* the Type 2 dimension
    dim1,           \* the Type 1 dimension: of each key its city, or Absent
    applied         \* history: the rows merged so far

historyVars == <<batch, held, dim, dim1, applied>>

\* 9999-12-31
HighDate == MaxTime + 1

Versions == [key : Keys, city : Cities, effective_from : 1..MaxTime,
             effective_to : 1..HighDate, is_current : BOOLEAN]

HistoryTypeOK ==
    /\ batch \in [Jobs -> [Keys -> Rows \cup {NoRow}]]
    /\ held \in [Jobs -> BOOLEAN]
    /\ dim \subseteq Versions
    /\ dim1 \in [Keys -> Cities \cup {Absent}]
    /\ applied \subseteq [key : Keys, stamp : 0..MaxTime]

HistoryInit ==
    /\ batch = [w \in Jobs |-> [k \in Keys |-> NoRow]]
    /\ held = [w \in Jobs |-> FALSE]
    /\ dim = {}
    /\ dim1 = [k \in Keys |-> Absent]
    /\ applied = {}

ExtractCustomers(w) ==
    /\ ~held[w]
    /\ batch' = [batch EXCEPT ![w] = customers]
    /\ held' = [held EXCEPT ![w] = TRUE]
    /\ UNCHANGED <<tableVars, dim, dim1, applied>>

-----------------------------------------------------------------------------
Incoming(rows) == {k \in Keys : rows[k].city # Absent}

Current(k) == {v \in dim : v.key = k /\ v.is_current}

\* Where a version starts: at its updated_at, or now.
EffFrom(row) == IF row.stamp = Undated THEN clock + 1 ELSE row.stamp

\* (Seeded mistake: only new keys are merged.)
ChangedIfNew(rows) == {k \in Incoming(rows) : Current(k) = {}}

\* (Seeded mistake: the tracked columns are not compared.)
ChangedAlways(rows) == Incoming(rows)

\* The keys that are new, or whose tracked columns differ from the current version.
Changed(rows) == {k \in Incoming(rows) : \A v \in Current(k) : v.city # rows[k].city}

\* (Seeded mistake: the expired version stays current.)
ExpiredStillCurrent(v, rows) == [v EXCEPT !.effective_to = EffFrom(rows[v.key])]

\* (Seeded mistake: the old version ends now, not where the new one starts.)
ExpiredNow(v, rows) == [v EXCEPT !.is_current = FALSE, !.effective_to = clock + 1]

Expired(v, rows) ==
    [v EXCEPT !.is_current = FALSE, !.effective_to = EffFrom(rows[v.key])]

NewVersion(k, rows) ==
    [key |-> k, city |-> rows[k].city, effective_from |-> EffFrom(rows[k]),
     effective_to |-> HighDate, is_current |-> TRUE]

\* scd_type_2()
MergeType2(rows) ==
    LET expiring == UNION {Current(k) : k \in Changed(rows)} IN
    dim' = (dim \ expiring)
             \cup {Expired(v, rows) : v \in expiring}
             \cup {NewVersion(k, rows) : k \in Changed(rows)}

\* scd_type_1()
MergeType1(rows) ==
    dim1' = [k \in Keys |-> IF k \in Incoming(rows) THEN rows[k].city ELSE dim1[k]]

\* A job that fails after the merge hands the same rows over again.
MergeCustomers(w) ==
    LET rows == batch[w] IN
    /\ held[w]
    /\ MergeType2(rows)
    /\ MergeType1(rows)
    /\ IF \E k \in Changed(rows) : rows[k].stamp = Undated
         THEN clock < MaxTime /\ clock' = clock + 1
         ELSE UNCHANGED clock
    /\ applied' = applied \cup {[key |-> k, stamp |-> rows[k].stamp] : k \in Incoming(rows)}
    /\ \E again \in BOOLEAN : held' = [held EXCEPT ![w] = again]
    /\ UNCHANGED <<batch, customers, log>>

JobStep(w) == ExtractCustomers(w) \/ MergeCustomers(w)

\* The dimensions of a table that is written all the while.
HistorySpec ==
    /\ TableInit /\ HistoryInit
    /\ [][\/ TableStep /\ UNCHANGED historyVars
          \/ \E w \in Jobs : JobStep(w)]_<<tableVars, historyVars>>

-----------------------------------------------------------------------------
\* A key of which every row merged so far had a stamp.  An undated row starts now,
\* which may be after the stamp of a change that is extracted later.
AlwaysDated(k) == [key |-> k, stamp |-> Undated] \notin applied

\* A key has one current version, once it has any, and the Type 1 dimension has its
\* city.
OneCurrentVersion ==
    \A k \in Keys :
        IF \E v \in dim : v.key = k
          THEN \E v \in dim : Current(k) = {v} /\ v.effective_to = HighDate /\ dim1[k] = v.city
          ELSE dim1[k] = Absent

\* scd.py: "Each change creates a new versioned row": a version that is not current
\* ends, after it has begun, where one with another city begins.
VersionsChain ==
    \A v \in dim :
        ~v.is_current /\ AlwaysDated(v.key) =>
            /\ v.effective_from < v.effective_to
            /\ \E u \in dim : /\ u.key = v.key /\ u.city # v.city
                              /\ u.effective_from = v.effective_to

\* The versions that scd.sql's temporal join finds.
AsOf(k, t) == {v \in dim : v.key = k /\ v.effective_from <= t /\ t < v.effective_to}

\* The last change of a key at or before an instant.
LastChange(k, t) ==
    {e \in {log[i] : i \in DOMAIN log} :
        /\ e.key = k /\ e.timestamp <= t
        /\ \A i \in DOMAIN log :
              log[i].key = k /\ log[i].timestamp <= t => log[i].timestamp <= e.timestamp}

\* data-model.md: "where did the customer live at the time": at any instant at which
\* the source's state was extracted before it changed again, and has been merged,
\* the dimension has one version, and the city that the source had then.
AsOfAgrees ==
    \A k \in Keys, t \in 1..clock :
        \A e \in LastChange(k, t) :
            /\ AlwaysDated(k)
            /\ e.op # "DELETE" /\ [key |-> k, stamp |-> e.timestamp] \in applied
            => \E v \in dim : AsOf(k, t) = {v} /\ v.city = e.after

\* Once the table is quiet, the current versions have the cities it has.
HistoryCatchesUp ==
    <>[](\A k \in Keys : Present(k) => \E v \in Current(k) : v.city = customers[k].city)
==============================================================================
