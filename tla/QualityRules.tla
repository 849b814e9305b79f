---------------------------- MODULE QualityRules ----------------------------
(***************************************************************************)
(* data_quality: the expectation engine, the rules for transactions and    *)
(* the custom checks, of a frame of raw transactions.  An expectation is   *)
(* named for its rule; a row check is the set of the rows that pass it,    *)
(* since what cannot be evaluated counts as failed.                        *)
(***************************************************************************)
EXTENDS Frames

CONSTANTS
    ValidCurrencies,    \* data_quality.valid_currencies
    ValidStatus         \* data_quality.valid_txn_status

Severity(name) == IF name = "status_valid" THEN "warn" ELSE "critical"

\* (Seeded mistake: a date that does not parse passes, as NaT > now is false too.)
RowChecksNotAfter(df, now) ==
    [ account_id_not_null  |-> {r \in df : r.account # Null},
      amount_non_negative  |-> {r \in df : r.amount \notin {Null, Bad} /\ r.amount >= 0},
      currency_valid       |-> {r \in df : r.currency \in ValidCurrencies},
      timestamp_not_future |-> {r \in df : ~(Coerced(r.ts) # Null /\ r.ts > now)},
      status_valid         |-> {r \in df : r.status \in ValidStatus} ]

RowChecks(df, now) ==
    [ account_id_not_null  |-> {r \in df : r.account # Null},
      amount_non_negative  |-> {r \in df : r.amount \notin {Null, Bad} /\ r.amount >= 0},
      currency_valid       |-> {r \in df : r.currency \in ValidCurrencies},
      timestamp_not_future |-> {r \in df : Coerced(r.ts) # Null /\ r.ts <= now},
      status_valid         |-> {r \in df : r.status \in ValidStatus} ]

TableChecks(df) ==
    [ transaction_id_unique |-> \A r, s \in df : r.id = s.id => r = s ]

\* A rule that looks into the accounts; no rule set has it.
AccountExists(df, accounts) == {r \in df : r.account \in {a.account : a \in accounts}}

\* The checks' failed_rows: of a table check all rows or none.
RunExpectations(df, rowChecks, tableChecks) ==
    [name \in DOMAIN rowChecks \cup DOMAIN tableChecks |->
        IF name \in DOMAIN rowChecks THEN Cardinality(df \ rowChecks[name])
        ELSE IF tableChecks[name] THEN 0 ELSE Cardinality(df)]

Passed(failedRows) ==
    \A name \in DOMAIN failedRows :
        Severity(name) = "critical" => failedRows[name] = 0

\* The rows that fail any row check, of whatever severity, and each one's reasons.
RowFailureMask(df, rowChecks) ==
    UNION {df \ rowChecks[name] : name \in DOMAIN rowChecks}
ReasonForRows(df, rowChecks) ==
    [r \in df |-> {name \in DOMAIN rowChecks : r \notin rowChecks[name]}]

-----------------------------------------------------------------------------
\* Custom checks

ProfileAmount(df) ==
    LET amounts == {r.amount : r \in Priced(df)} IN
    [ nulls    |-> Cardinality(df \ Priced(df)),
      distinct |-> Cardinality(amounts),
      min      |-> IF amounts = {} THEN Null ELSE Min(amounts),
      max      |-> IF amounts = {} THEN Null ELSE Max(amounts) ]

Orphaned(child, parent) ==
    {r \in child : r.account # Null /\ r.account \notin {p.account : p \in parent} \ {Null}}

\* The age is in whole days, rounded down.
Freshness(df, now, maxAgeDays) ==
    LET stamps == {r.ts : r \in df} \ {Null} IN
    stamps # {} /\ (now - Max(stamps)) \div Day <= maxAgeDays
==============================================================================
