--------------------------- MODULE TransformsAgree ---------------------------
(***************************************************************************)
(* The transforms of the two engines, the window functions, the quality    *)
(* rules and the star schema, side by side on one frame, which grows row   *)
(* by row.                                                                 *)
(***************************************************************************)
EXTENDS Frames

CONSTANTS
    FrameRows,      \* the rows a frame may hold
    MaxFrame,       \* bound: rows of a frame
    AccountRows,    \* the accounts table
    CustomerRows,   \* the customers table
    ValidCurrencies, ValidStatus    \* of the configuration

ASSUME AgreeAssumption ==
    /\ \A r \in FrameRows : RawRow(r)
    /\ \A a \in AccountRows : a.account # Null
    /\ Null \notin ValidStatus

\* The keys of the tables are unique (the tests of dbt/models/staging/_sources.yml).
ASSUME KeyAssumption ==
    /\ \A a, b \in AccountRows : a.account = b.account => a = b
    /\ \A c, d \in CustomerRows : c.customer = d.customer => c = d

VARIABLE frame

P == INSTANCE PandasTransforms
W == INSTANCE WindowFunctions
S == INSTANCE SparkTransforms
Q == INSTANCE QualityRules
D == INSTANCE StarSchema

\* Null is no row, no pair of rows, and no key.
ASSUME NullAssumption ==
    LET rows == P!CastTypes(FrameRows) IN
    /\ Null \notin rows \cup AccountRows \cup CustomerRows
    /\ Null \notin (rows \cup {Null}) \X (AccountRows \cup {Null})
    /\ Null \notin D!BuildDimAccount(AccountRows)
    /\ \A day \in 0..EndOfTime : Null # [text |-> day]

FrameInit == frame = {}

\* Each row has a place of its own.
AddRow ==
    /\ Cardinality(frame) < MaxFrame
    /\ \E r \in FrameRows :
          /\ \A s \in frame : s.at # r.at
          /\ frame' = frame \cup {r}

FrameSpec == FrameInit /\ [][AddRow]_frame

-----------------------------------------------------------------------------
\* Properties

typed == P!CastTypes(frame)

\* The rows of the row's account can be put in one order by time.
Ordered(r) ==
    LET rows == S!Account(typed, r) IN
    /\ r.account # Null
    /\ \A s \in rows : s.ts # Null
    /\ \A s, t \in rows : s.ts = t.ts => s = t

\* spark_transforms.py: "the two engines stay behaviour-compatible".  They do as far
\* as the code goes without nulls and ties; each conjunct says what it takes.
EnginesAgree ==
    /\ S!CastTypes(frame) = typed
    /\ S!FilterValidTransactions(typed) =
          {r \in P!FilterValidTransactions(typed) : r.status # Null}
    /\ (\A r \in typed : r.updated # Null) => S!Deduplicate(typed) = P!Deduplicate(typed)
    /\ S!Deduplicate(typed) = W!LatestCustomerRecord(typed)
    /\ S!Join(typed, AccountRows, "left_semi") = P!SemiJoin(typed, AccountRows)
    /\ S!Join(typed, AccountRows, "left_anti") = P!AntiJoin(typed, AccountRows)
    /\ \A r \in typed : r.account # Null /\ r.amount # Null =>
          S!RankTransactions(typed)[r] = W!RankTransactions(typed)[r]
    /\ \A r \in typed : Ordered(r) =>
          /\ S!LagLead(typed)[r].prev_amount = W!PreviousTransaction(typed)[r]
          /\ S!LagLead(typed)[r].next_amount = W!NextTransaction(typed)[r]
          /\ r.amount # Null => S!RunningBalance(typed)[r] = W!RunningBalance(typed)[r]
    /\ LET s == S!AggregateDaily(typed)
           p == P!AggregateDailyTransactions(typed)
       IN  /\ DOMAIN p = {k \in DOMAIN s : k[1] # Null /\ k[2] # Null}
           /\ \A k \in DOMAIN p :
                 p[k] = [s[k] EXCEPT !.total_amount = IF @ = Null THEN 0 ELSE @]

\* pandas_transforms.py: "inner/left/right/outer join semantics": a join keeps every
\* row of the sides it names, a transaction once, and the inner join is the
\* semi-join of what has a customer.
JoinsReconcile ==
    LET Joined(how) == P!JoinTransactionsCustomers(typed, AccountRows, CustomerRows, how)
        Txns(how) == {p[1][1] : p \in {q \in Joined(how) : q[1] # Null}} \ {Null}
        known == {a \in AccountRows : \E c \in CustomerRows : a.customer = c.customer}
    IN  /\ P!SemiJoin(typed, AccountRows) \cup P!AntiJoin(typed, AccountRows) = typed
        /\ Txns("inner") = P!SemiJoin(typed, known)
        /\ Txns("left") = typed /\ Txns("outer") = typed
        /\ Cardinality(Joined("left")) = Cardinality(typed)
        /\ \A how \in {"right", "outer"} :
              {p[2] : p \in Joined(how)} \ {Null} = CustomerRows

\* The last row with an amount that has left the 7-day window when r comes.
Left(r) ==
    {q \in Priced(W!Account(typed, r)) : q.ts # Null /\ q.ts <= r.ts - Week}

\* window_functions.py: the columns tell one story: the sum of the last seven days is
\* the difference of two running sums, the running sum begins with the first value
\* and ends with the spend, LEAD undoes LAG, a rank counts the rows above it, and the
\* places of the percentile are shared out without rest.
WindowsReconcile ==
    LET running == W!RunningBalance(typed)
        rolling == W!Rolling7dAmount(typed)
        ends    == W!FirstLastValue(typed)
        spend   == W!SpendingPercentile(typed)
        rank    == W!RankTransactions(typed)
        known   == {r \in Priced(typed) : r.account # Null}
    IN  /\ \A r \in known :
              /\ r.ts # Null =>
                    rolling[r] = running[r] - (IF Left(r) = {} THEN 0
                                               ELSE running[W!LastOf(Left(r), W!Before)])
              /\ \E q \in known :
                    /\ q.account = r.account
                    /\ running[q] = q.amount /\ ends[r].first_amount = q.amount
              /\ \E q \in known :
                    /\ q.account = r.account /\ ends[r].last_amount = q.amount
                    /\ running[q] = spend[r.account].total_spend
              /\ Cardinality({q \in known : /\ q.account = r.account
                                            /\ rank[q].amount_rank < rank[r].amount_rank})
                    = rank[r].amount_rank - 1
              /\ rank[r].amount_dense_rank <= rank[r].amount_rank
        /\ \A r, q \in typed : r.account = q.account /\ r.account # Null /\ W!Before(q, r)
              => \/ /\ W!PreviousTransaction(typed)[r] = q.amount
                    /\ W!NextTransaction(typed)[q] = r.amount
                 \/ \E s \in W!Account(typed, r) : W!Before(q, s) /\ W!Before(s, r)
        /\ LET n == Cardinality(DOMAIN spend)
           IN  MapThenSumSet(LAMBDA a : spend[a].places, DOMAIN spend) = n * (n + 1)

\* star_schema.py: "fact_transaction grain = one row per transaction", and the keys of
\* the facts are in the dimensions, but for those that the two referential checks
\* report; the profile and the freshness of a frame are those of its daily summary.
StarReconciles ==
    LET facts  == D!BuildFactTransaction(typed, D!BuildDimAccount(AccountRows))
        orphan == Q!Orphaned(typed, AccountRows)
        daily  == S!AggregateDaily(typed)
        days   == {k[1] : k \in DOMAIN daily} \ {Null}
        amount == Q!ProfileAmount(typed)
        Ends(measure) == {daily[k][measure] : k \in DOMAIN daily} \ {Null}
    IN  /\ {f.txn : f \in facts} = typed /\ Cardinality(facts) = Cardinality(typed)
        /\ {f.txn : f \in {g \in facts : g.account_sk = Null}}
              = orphan \cup {r \in typed : r.account = Null}
        /\ Q!AccountExists(typed, AccountRows) = {r \in typed \ orphan : r.account # Null}
        /\ {f.date_sk.text : f \in {g \in facts : g.date_sk # Null}}
              = days \cap D!BuildDimDate(typed)
        /\ days # {} => D!BuildDimDate(typed) = Min(days)..Max(days)
        /\ Ends("min_amount") # {} => /\ amount.min = Min(Ends("min_amount"))
                                      /\ amount.max = Max(Ends("max_amount"))
        /\ \A now \in Instants, age \in 0..2 :
              LET Since(d) == \E day \in days : day >= now \div Day - d IN
              /\ Since(age) => Q!Freshness(typed, now, age)
              /\ Q!Freshness(typed, now, age) => Since(age + 1)

FramesReconcile == JoinsReconcile /\ WindowsReconcile /\ StarReconciles

\* data_quality/rules.py beside filter_valid_transactions: what the batch pipeline lets
\* pass and what the Spark filter does differ by the rows named here, and where a frame
\* has none of these the two make one silver; a row is rejected for a reason, before or
\* after the cast alike; and when the suite passes only a warning rejects rows, and
\* the deduplication has nothing to do.
RulesAgree ==
    LET valid == S!FilterValidTransactions(typed) IN
    \A now \in Instants :
        LET checks  == Q!RowChecks(frame, now)
            bad     == Q!RowFailureMask(frame, checks)
            good    == P!CastTypes(frame \ bad)
            reasons == Q!ReasonForRows(frame, checks)
            passed  == Q!Passed(Q!RunExpectations(frame, checks, Q!TableChecks(frame)))
            onlyValid == {r \in typed : r.amount = 0 \/ r.status = "REVERSED"}
            onlyGood  == {r \in typed : \/ r.ts = Null \/ r.ts > now
                                       \/ r.currency \notin ValidCurrencies
                                       \/ r.status \notin ValidStatus}
        IN  /\ good \ onlyValid = valid \ onlyGood
            /\ (onlyValid \cup onlyGood = {} /\ \A r \in typed : r.updated # Null)
                  => P!Deduplicate(good) = S!Deduplicate(valid)
            /\ P!CastTypes(bad) = Q!RowFailureMask(typed, Q!RowChecks(typed, now))
            /\ bad = {r \in frame : reasons[r] # {}}
            /\ passed => /\ \A r \in bad : reasons[r] = {"status_valid"}
                         /\ P!Deduplicate(typed) = {typed}
            /\ ~passed => bad # {} \/ typed \notin P!Deduplicate(typed)
==============================================================================
