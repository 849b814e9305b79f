--------------------------- MODULE WindowFunctions ---------------------------
\* window_functions.py: analytic columns in pandas.  A row whose account is null is
\* in no group: its new column is null.
EXTENDS Frames

Account(df, r) == {s \in df : s.account = r.account /\ r.account # Null}

\* sort_values(["account_id", "transaction_timestamp"]) is stable.
Before(r, s) ==
    \/ NullsLast(r.ts) < NullsLast(s.ts)
    \/ NullsLast(r.ts) = NullsLast(s.ts) /\ r.at < s.at

\* sort_values(ascending=False) puts NaT last here, and cumcount() counts from it.
LatestCustomerRecord(df) ==
    OnePerKey({r \in df : \A s \in df :
                  s.id = r.id => NullsFirst(s.updated) <= NullsFirst(r.updated)})

\* rank(method="min") and rank(method="dense"), descending; NaN has none.
RankTransactions(df) ==
    LET Above(r) == {s \in Priced(Account(df, r)) : s.amount > r.amount} IN
    [r \in df |->
        IF r.account = Null \/ r.amount = Null
          THEN [amount_rank |-> Null, amount_dense_rank |-> Null]
          ELSE [amount_rank       |-> 1 + Cardinality(Above(r)),
                amount_dense_rank |-> 1 + Cardinality({s.amount : s \in Above(r)})]]

PreviousTransaction(df) ==
    [r \in df |-> LET earlier == {s \in Account(df, r) : Before(s, r)}
                  IN  IF earlier = {} THEN Null ELSE LastOf(earlier, Before).amount]

NextTransaction(df) ==
    [r \in df |-> LET later == {s \in Account(df, r) : Before(r, s)}
                  IN  IF later = {} THEN Null ELSE FirstOf(later, Before).amount]

\* cumsum() skips NaN and leaves it in place.
RunningBalance(df) ==
    [r \in df |->
        IF r.account = Null \/ r.amount = Null THEN Null
        ELSE Total({s \in Account(df, r) : s = r \/ Before(s, r)})]

\* (Seeded mistake: the window is closed on both sides, as SQL's RANGE is.)
Rolling7dAmountClosed(df) ==
    [r \in {r \in df : r.ts # Null} |->
        LET window == {s \in Account(df, r) : /\ s = r \/ Before(s, r)
                                              /\ s.ts >= r.ts - Week}
        IN  IF Priced(window) = {} THEN Null ELSE Total(window)]

\* rolling("7D") is open on the left and ends at the row itself.  (The column is
\* aligned by timestamp alone, so that a row with no account takes the sum of a row
\* of any account at its instant, or raises; it is Null here.)
Rolling7dAmount(df) ==
    [r \in {r \in df : r.ts # Null} |->
        LET window == {s \in Account(df, r) : /\ s = r \/ Before(s, r)
                                              /\ s.ts # Null /\ s.ts > r.ts - Week}
        IN  IF Priced(window) = {} THEN Null ELSE Total(window)]

\* rank(pct=True) of each account's spend: the mean of the places it shares, over the
\* number of accounts.  Twice that mean is kept.
SpendingPercentile(df) ==
    LET accounts == {r.account : r \in df} \ {Null}
        Spend(a) == Total({r \in df : r.account = a})
    IN  [a \in accounts |->
            [total_spend |-> Spend(a),
             places      |-> 2 * Cardinality({b \in accounts : Spend(b) < Spend(a)})
                             + Cardinality({b \in accounts : Spend(b) = Spend(a)}) + 1,
             of          |-> Cardinality(accounts)]]

\* transform("first") and ("last") pass over NaN.
FirstLastValue(df) ==
    [r \in df |-> LET rows == Priced(Account(df, r)) IN
        IF rows = {} THEN [first_amount |-> Null, last_amount |-> Null]
        ELSE [first_amount |-> FirstOf(rows, Before).amount,
              last_amount  |-> LastOf(rows, Before).amount]]
==============================================================================
