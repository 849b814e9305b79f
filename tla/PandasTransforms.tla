-------------------------- MODULE PandasTransforms --------------------------
\* pandas_transforms.py: the transforms of a frame in pandas, nulls as pandas has
\* them (a comparison with NaN is false, groupby drops null keys, NaT sorts last).
EXTENDS Frames

\* status != "REVERSED" is true of a null status.
FilterValidTransactions(df) ==
    {r \in df : r.account # Null /\ r.amount # Null /\ r.amount > 0
                /\ r.status # "REVERSED"}

CastTypes(df) ==
    {[r EXCEPT !.amount = Coerced(@), !.ts = Coerced(@)] : r \in df}

\* sort_values puts NaT last and keep="last" keeps it; of rows that tie the sort may
\* leave either last.
Deduplicate(df) ==
    OnePerKey({r \in df : \A s \in df :
                  s.id = r.id => NullsLast(s.updated) <= NullsLast(r.updated)})

\* merge(how=...): the pairs that match, and what one side has alone.
Merge(left, right, Match(_, _), how) ==
         {p \in left \X right : Match(p[1], p[2])}
    \cup {<<l, Null>> : l \in {l \in left : /\ how \in {"left", "outer"}
                                            /\ ~\E r \in right : Match(l, r)}}
    \cup {<<Null, r>> : r \in {r \in right : /\ how \in {"right", "outer"}
                                             /\ ~\E l \in left : Match(l, r)}}

\* transactions -> accounts -> customers.
JoinTransactionsCustomers(transactions, accounts, customers, how) ==
    Merge(Merge(transactions, accounts, LAMBDA t, a : t.account = a.account, how),
          customers,
          LAMBDA p, c : p[2] # Null /\ p[2].customer = c.customer, how)

AntiJoin(left, right) == {l \in left : \A r \in right : r.account # l.account}
SemiJoin(left, right) == {l \in left : l.account \in {r.account : r \in right}}

AggregateDailyTransactions(df) ==
    LET dated == {r \in df : r.ts # Null /\ r.currency # Null}
        Key(r) == <<DateOf(r), r.currency>>
    IN  [k \in {Key(r) : r \in dated} |-> Measures({r \in dated : Key(r) = k})]
==============================================================================
