--------------------------- MODULE SparkTransforms ---------------------------
\* spark_transforms.py: the same transforms in Spark, nulls as SQL has them (a
\* comparison with NULL is not true, null keys are a group, NULL sorts first).
EXTENDS Frames

FilterValidTransactions(df) ==
    {r \in df : r.account # Null /\ r.amount # Null /\ r.amount > 0
                /\ r.status # Null /\ r.status # "REVERSED"}

CastTypes(df) ==
    {[r EXCEPT !.amount = Coerced(@), !.ts = Coerced(@)] : r \in df}

\* (Seeded mistake: the window is ordered ascending.)
DeduplicateAscending(df) ==
    OnePerKey({r \in df : \A s \in df :
                  s.id = r.id => NullsFirst(r.updated) <= NullsFirst(s.updated)})

\* ROW_NUMBER() by updated_at descending, nulls last; of ties either is first.
Deduplicate(df) ==
    OnePerKey({r \in df : \A s \in df :
                  s.id = r.id => NullsFirst(s.updated) <= NullsFirst(r.updated)})

\* A null key matches nothing.  left_semi and left_anti give rows of the left side,
\* left its pairs.
Join(left, right, how) ==
    LET Matches(l) == {r \in right : l.account # Null /\ l.account = r.account}
        matched == {l \in left : Matches(l) # {}}
    IN  CASE how = "left_semi" -> matched
          [] how = "left_anti" -> left \ matched
          [] how = "left" -> (UNION {{<<l, r>> : r \in Matches(l)} : l \in matched})
                             \cup {<<l, Null>> : l \in left \ matched}

Account(df, r) == {s \in df : s.account = r.account}

\* Of rows at one instant any may come first; the frame's order is taken.
Before(r, s) ==
    \/ NullsFirst(r.ts) < NullsFirst(s.ts)
    \/ NullsFirst(r.ts) = NullsFirst(s.ts) /\ r.at < s.at

\* RANK and DENSE_RANK by amount descending, nulls last.
RankTransactions(df) ==
    LET Above(r) == {s \in Priced(Account(df, r)) :
                        r.amount = Null \/ s.amount > r.amount} IN
    [r \in df |-> [amount_rank       |-> 1 + Cardinality(Above(r)),
                   amount_dense_rank |-> 1 + Cardinality({s.amount : s \in Above(r)})]]

RunningBalance(df) ==
    [r \in df |-> LET rows == {s \in Account(df, r) : s = r \/ Before(s, r)}
                  IN  IF Priced(rows) = {} THEN Null ELSE Total(rows)]

LagLead(df) ==
    [r \in df |->
        LET earlier == {s \in Account(df, r) : Before(s, r)}
            later   == {s \in Account(df, r) : Before(r, s)}
        IN  [prev_amount |-> IF earlier = {} THEN Null ELSE LastOf(earlier, Before).amount,
             next_amount |-> IF later = {} THEN Null ELSE FirstOf(later, Before).amount]]

\* (Seeded mistake: groups with a null key are dropped.)
AggregateDatedOnly(df) ==
    LET dated == {r \in df : r.ts # Null /\ r.currency # Null}
        Key(r) == <<DateOf(r), r.currency>>
    IN  [k \in {Key(r) : r \in dated} |-> Measures({r \in dated : Key(r) = k})]

\* The sum of no amounts is NULL.
AggregateDaily(df) ==
    LET Key(r) == <<DateOf(r), r.currency>> IN
    [k \in {Key(r) : r \in df} |->
        LET rows == {r \in df : Key(r) = k} IN
        IF Priced(rows) = {} THEN [Measures(rows) EXCEPT !.total_amount = Null]
        ELSE Measures(rows)]
==============================================================================
