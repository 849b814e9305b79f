----------------------------- MODULE StarSchema -----------------------------
\* star_schema.py: dimensions and the fact table from a frame of transactions.  The
\* surrogate key of an account is the hash of its id, which is kept in its place; the
\* other dimensions are built as that of the accounts is, or have no other column.
EXTENDS Frames

BuildDimAccount(accounts) ==
    {[account_sk |-> a.account, account |-> a.account, customer |-> a.customer] :
        a \in accounts}

\* Every day from the first to the last; a key is the date as a number.
BuildDimDate(df) ==
    LET dates == {DateOf(r) : r \in df} \ {Null} IN
    IF dates = {} THEN {} ELSE Min(dates)..Max(dates)

\* Two left joins, of which the one with the merchants goes like this one: a fact for
\* each row of the dimension that matches, or one with no key.  The key of the date is
\* the date as a text, which the dimension's number only equals once it is read as one.
BuildFactTransaction(df, dimAccount) ==
    LET DateSk(r) == IF r.ts = Null THEN Null ELSE [text |-> DateOf(r)]
        Fact(r, d) == [txn |-> r, account_sk |-> IF d = Null THEN Null ELSE d.account_sk,
                       of |-> d, date_sk |-> DateSk(r)]
        Matches(r) == {d \in dimAccount : d.account = r.account}
    IN  UNION {{Fact(r, d) : d \in IF Matches(r) = {} THEN {Null} ELSE Matches(r)}
               : r \in df}
==============================================================================
