------------------------------ MODULE GlueJobs ------------------------------
(***************************************************************************)
(* The two Glue jobs on transactions, bronze to silver and silver to gold, *)
(* as their workflow runs them, one after the other, again and again.  A   *)
(* job reads its input's files when it starts and writes one table after   *)
(* the other; an overwrite first takes away what is there, so that a job   *)
(* that ends in between leaves a table absent.                             *)
(***************************************************************************)
EXTENDS SparkTransforms, Sequences

CONSTANTS
    RawRows,        \* the rows that may land in the bronze zone
    Accounts,       \* the rows that may be in silver/accounts
    MaxRows,        \* bound: rows that land
    MaxFaults       \* bound: jobs that end early

ASSUME GlueAssumption == (\A r \in RawRows : RawRow(r)) /\ Null \notin Accounts

VARIABLES
    bronze,         \* bronze/transactions
    accounts,       \* silver/accounts, which another job writes
    now,            \* current_timestamp()
    silver,         \* silver/transactions; no rows leave no files
    quarantine,     \* quarantine/transactions
    gold,           \* the gold tables, Null while absent
    at, table,      \* where the workflow is, and the gold table at hand
    txn, accs,      \* local: the rows of the files the job has listed
    faults,
    input,          \* history: the typed rows behind silver and quarantine
    whole           \* history: the gold tables are those of one run of the job

zones == <<silver, quarantine, gold, input, whole>>
job   == <<at, table, txn, accs>>
glueVars == <<bronze, accounts, now, zones, job, faults>>

GoldOrder == <<"dim_account", "fact_transaction", "daily_transaction_summary">>

GlueInit ==
    /\ bronze = {} /\ now \in Instants
    /\ \E a \in Accounts : accounts = {a}
    /\ silver = {} /\ quarantine = {}
    /\ gold = [d \in {GoldOrder[i] : i \in DOMAIN GoldOrder} |-> Null]
    /\ at = "idle" /\ table = 1 /\ txn = {} /\ accs = {}
    /\ faults = 0
    /\ input = {} /\ whole = FALSE

-----------------------------------------------------------------------------
\* What happens beside the jobs.

Land(r) ==
    /\ Cardinality(bronze) < MaxRows
    /\ bronze' = bronze \cup {r}
    /\ UNCHANGED <<accounts, now, zones, job, faults>>

WriteAccount(a) ==
    /\ accounts' = accounts \cup {a}
    /\ UNCHANGED <<bronze, now, zones, job, faults>>

TimePasses ==
    /\ now' \in {t \in Instants : t > now}
    /\ UNCHANGED <<bronze, accounts, zones, job, faults>>

-----------------------------------------------------------------------------
\* transactions_bronze_to_silver.

Goto(step) == at' = step
Read(rows, dims) == txn' = rows /\ accs' = dims /\ table' = 1
EndJob == Goto("idle") /\ Read({}, {})

\* (Seeded mistake: a job bookmark, under an overwrite, reads what is new only.)
StartBookmarked ==
    /\ at = "idle" /\ CastTypes(bronze) \ input # {}
    /\ Goto("clearSilver")
    /\ Read(CastTypes(bronze) \ input, {})
    /\ UNCHANGED <<bronze, accounts, now, zones, faults>>

\* Reading a directory without files raises.
Start ==
    /\ at = "idle" /\ bronze # {}
    /\ Goto("clearSilver")
    /\ Read(CastTypes(bronze), {})
    /\ UNCHANGED <<bronze, accounts, now, zones, faults>>

\* (Seeded mistake: an amount of zero passes.)
FailingBelowZero(df) ==
    {r \in df : \/ r.account = Null
                \/ r.amount # Null /\ r.amount < 0
                \/ r.currency = "XXX"
                \/ r.ts # Null /\ r.ts > now}

Failing(df) ==
    {r \in df : \/ r.account = Null
                \/ r.amount # Null /\ r.amount <= 0
                \/ r.currency = "XXX"
                \/ r.ts # Null /\ r.ts > now}

ClearSilver ==
    /\ at = "clearSilver" /\ Goto("writeSilver")
    /\ silver' = {} /\ input' = {}
    /\ UNCHANGED <<bronze, accounts, now, quarantine, gold, whole, table, txn, accs, faults>>

WriteSilver ==
    /\ at = "writeSilver" /\ Goto("quarantine")
    /\ silver' \in Deduplicate(FilterValidTransactions(txn))
    /\ UNCHANGED <<bronze, accounts, now, quarantine, gold, input, whole, table, txn,
                   accs, faults>>

\* mode("append"); a frame is evaluated when it is written, and the time then taken.
WriteQuarantine ==
    /\ at = "quarantine" /\ Goto("readSilver")
    /\ quarantine' = quarantine \cup Failing(txn)
    /\ input' = txn
    /\ Read({}, {})
    /\ UNCHANGED <<bronze, accounts, now, silver, gold, whole, faults>>

-----------------------------------------------------------------------------
\* transactions_silver_to_gold, which the workflow starts when the first has ended.

ReadSilver ==
    /\ at = "readSilver"
    /\ IF silver = {} THEN EndJob ELSE Goto("clearGold") /\ Read(silver, accounts)
    /\ UNCHANGED <<bronze, accounts, now, zones, faults>>

GoldFrame ==
    CASE GoldOrder[table] = "dim_account" -> {a.account : a \in accs}
      [] GoldOrder[table] = "fact_transaction" ->
            {[txn |-> p[1], account_sk |-> IF p[2] = Null THEN Null ELSE p[2].account] :
                p \in Join(txn, accs, "left")}
      [] GoldOrder[table] = "daily_transaction_summary" -> AggregateDaily(txn)

ClearGold ==
    /\ at = "clearGold" /\ Goto("writeGold")
    /\ gold' = [gold EXCEPT ![GoldOrder[table]] = Null]
    /\ whole' = FALSE
    /\ UNCHANGED <<bronze, accounts, now, silver, quarantine, input, table, txn, accs,
                   faults>>

WriteGold ==
    /\ at = "writeGold"
    /\ gold' = [gold EXCEPT ![GoldOrder[table]] = GoldFrame]
    /\ IF table < Len(GoldOrder)
         THEN Goto("clearGold") /\ table' = table + 1 /\ UNCHANGED <<whole, txn, accs>>
         ELSE EndJob /\ whole' = TRUE
    /\ UNCHANGED <<bronze, accounts, now, silver, quarantine, input, faults>>

\* A job is killed or raises; the workflow goes no further.
JobEnds ==
    /\ at # "idle" /\ faults < MaxFaults
    /\ faults' = faults + 1
    /\ EndJob
    /\ UNCHANGED <<bronze, accounts, now, zones>>

WorkflowStep ==
    \/ Start
    \/ ClearSilver
    \/ WriteSilver
    \/ WriteQuarantine
    \/ ReadSilver
    \/ ClearGold
    \/ WriteGold

GlueNext ==
    \/ \E r \in RawRows \ bronze : Land(r)
    \/ \E a \in Accounts \ accounts : WriteAccount(a)
    \/ TimePasses
    \/ WorkflowStep
    \/ JobEnds

GlueSpec == GlueInit /\ [][GlueNext]_glueVars

-----------------------------------------------------------------------------
\* Properties

\* transactions_bronze_to_silver.py: "quarantines bad records": once both tables are
\* written each row of bronze is in quarantine, or silver has it or a version that is
\* not older, but for those that the two tests leave out: reversed ones, and those
\* whose amount or status is null.
BronzeAccountedFor ==
    \A r \in input :
        \/ r \in quarantine
        \/ \E s \in silver :
              s.id = r.id /\ NullsFirst(r.updated) <= NullsFirst(s.updated)
        \/ r.amount = Null \/ r.status \in {Null, "REVERSED"}

\* transactions_silver_to_gold.py: the star schema holds together.  Whenever both can
\* be read, also after a job that ended early, a fact's account is in the dimension;
\* and after a whole run each transaction is there once and the daily summary counts
\* the facts and adds up their amounts.
GoldReconciles ==
    LET daily == gold.daily_transaction_summary
        facts == gold.fact_transaction
    IN  /\ facts # Null /\ gold.dim_account # Null =>
              \A f \in facts : f.account_sk # Null => f.account_sk \in gold.dim_account
        /\ whole =>
              /\ \A f, g \in facts : f.txn.id = g.txn.id => f = g
              /\ MapThenSumSet(LAMBDA k : daily[k].txn_count, DOMAIN daily)
                    = Cardinality(facts)
              /\ MapThenSumSet(LAMBDA k : daily[k].total_amount, DOMAIN daily)
                    = Total({f.txn : f \in facts})

\* Whatever ended early: the gold facts are, again and again, the valid transactions
\* of bronze in their newest version, and what fails the rules stays in quarantine.
GlueCatchesUp ==
    /\ []<>(\/ gold.fact_transaction # Null
               /\ {f.txn : f \in gold.fact_transaction} \in
                     Deduplicate(FilterValidTransactions(CastTypes(bronze)))
            \/ FilterValidTransactions(CastTypes(bronze)) = {})
    /\ <>[](Failing(CastTypes(bronze)) \subseteq quarantine)
==============================================================================
