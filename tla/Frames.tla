------------------------------- MODULE Frames -------------------------------
(***************************************************************************)
(* What the column transforms of both engines work on: a frame is a set of *)
(* rows, a new column a function of its rows.  A row has its place in the  *)
(* frame (at), its key (id), an account, an amount, a currency, a status,  *)
(* the times ts (transaction_timestamp) and updated (updated_at), and a    *)
(* fraud flag; any of them but at and id may be Null.                      *)
(***************************************************************************)
EXTENDS Integers, FiniteSetsExt

CONSTANTS
    Null,           \* None, NaN, NaT or NULL
    Bad,            \* a raw value that its column's type does not take
    Day, Week,      \* of time units
    Instants,       \* the times that now() may give
    EndOfTime       \* bound: the last timestamp

ASSUME FrameAssumption ==
    /\ Null # Bad /\ Null \notin Int /\ Bad \notin Int
    /\ Day \in Nat \ {0} /\ Week \in Nat \ {0} /\ EndOfTime \in Nat
    /\ Instants \subseteq 0..EndOfTime

Columns ==
    {"at", "id", "account", "amount", "currency", "status", "ts", "updated", "flag"}

\* A row as it lands: cast_types() takes the amount and the time that it can.
RawRow(r) ==
    /\ r = [c \in Columns |-> r[c]]
    /\ r.at \in Nat
    /\ r.amount \in Int \cup {Null, Bad}
    /\ r.ts \in (0..EndOfTime) \cup {Null, Bad}
    /\ r.updated \in (0..EndOfTime) \cup {Null}

\* Where an engine sorts a null time.
NullsFirst(t) == IF t = Null THEN 0 ELSE t
NullsLast(t)  == IF t = Null THEN EndOfTime + 1 ELSE t

Coerced(v) == IF v = Bad THEN Null ELSE v

\* The rows that have an amount, and the sum of their amounts.
Priced(rows) == {r \in rows : r.amount # Null}
Total(rows) == MapThenSumSet(LAMBDA r : r.amount, Priced(rows))

DateOf(r) == IF r.ts = Null THEN Null ELSE r.ts \div Day

\* The ways to keep one row of each key.
OnePerKey(df) ==
    {out \in SUBSET df : \A r \in df : Cardinality({s \in out : s.id = r.id}) = 1}

\* The row of rows that comes last, or first, under before.
LastOf(rows, before(_, _)) ==
    CHOOSE r \in rows : \A s \in rows : s = r \/ before(s, r)
FirstOf(rows, before(_, _)) ==
    CHOOSE r \in rows : \A s \in rows : s = r \/ before(r, s)

\* COUNT, COUNT DISTINCT, SUM, MIN, MAX and the sum of the flags of a group; AVG is
\* total over the rows that have an amount.
Measures(rows) ==
    LET amounts == {r.amount : r \in Priced(rows)} IN
    [ txn_count         |-> Cardinality(rows),
      distinct_accounts |-> Cardinality({r.account : r \in rows} \ {Null}),
      total_amount      |-> Total(rows),
      min_amount        |-> IF amounts = {} THEN Null ELSE Min(amounts),
      max_amount        |-> IF amounts = {} THEN Null ELSE Max(amounts),
      fraud_count       |-> Cardinality({r \in rows : r.flag = 1}) ]
==============================================================================
