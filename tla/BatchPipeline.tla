---------------------------- MODULE BatchPipeline ----------------------------
(***************************************************************************)
(* The local batch pipeline: full extraction of the source tables, the     *)
(* data-quality split, deduplication, and the bronze, silver, gold and     *)
(* quarantine zones of the lake.  The tables are read one after the other  *)
(* while the source is written, the zones are written one after the other, *)
(* and a run may end between or in the middle of any two of these.         *)
(*                                                                         *)
(* customers, merchants and branches go the way of accounts and are left   *)
(* out.  A transaction row is what its updated_at and its flaw tell apart. *)
(***************************************************************************)
EXTENDS Naturals, Sequences, RunStore

CONSTANTS
    Rows,           \* rows that the transactions table may come to have
    TxnOf,          \* the transaction_id of each row
    AccountOf,      \* the account_id of each row: an account, or Null, or
                    \* "dangling", which no account has
    Accounts,       \* accounts that may be opened
    Flaws,          \* what may be wrong with a row's other columns, or "none"
    MaxTs,          \* bound: updated_at stamps are 1..MaxTs
    MaxFaults,      \* bound: how many runs may fail or be killed
    MaxCopies       \* bound: this many copies of a row stand for more

Null == "null"

ASSUME BatchAssumption ==
    /\ Null \notin Accounts /\ "dangling" \notin Accounts
    /\ AccountOf \in [Rows -> Accounts \cup {Null, "dangling"}]
    \* an unknown status, a negative amount, no timestamp
    /\ "none" \in Flaws /\ Flaws \subseteq {"none", "status", "amount", "undated"}
    /\ MaxTs \in Nat /\ MaxFaults \in Nat /\ MaxCopies \in Nat \ {0}

VARIABLES
    src,            \* source: the transactions table
    opened,         \* source: the accounts table
    tables,         \* local of a run: the tables it has extracted
    silverTxn,      \* local of a run: the deduplicated good transactions
    bronze,         \* part-000.parquet of each table
    quarantine,     \* part-000.parquet of the rejected transactions
    silver,         \* how many times each row version is in silver/transactions
    silverAccounts, \* part-000.parquet
    gold,           \* part-000.parquet of each dimension, fact and mart
    torn,           \* parts that an interrupted write left unreadable
    pc, at,         \* the step of each run, and its place in that step's loop
    faults          \* failed and killed runs so far

sourceVars == <<src, opened>>
lake == <<bronze, quarantine, silver, silverAccounts, gold, torn>>
locals == <<tables, silverTxn>>
control == <<pc, at, runRow>>
vars == <<sourceVars, lake, locals, control, faults>>

Versions == [row : Rows, stamp : 1..MaxTs, flaw : Flaws]
Facts == [version : Versions, accountSk : Accounts \cup {Null}]

Txn(v) == TxnOf[v.row]
Account(v) == AccountOf[v.row]

\* (Seeded mistake: the dimensions are extracted before the facts.)
ExtractDimensionsFirst == <<"accounts", "transactions">>

\* The order in which run() extracts the tables.
ExtractOrder == <<"transactions", "accounts">>

\* The order in which run() writes the gold zone.
GoldOrder == <<"dim_account", "fact_transaction", "daily_summary">>

Steps == {"idle", "extract", "land", "split", "cleanse", "conform", "gold", "written"}
Parts == {"transactions", "accounts", "quarantine", "silver", "silverAccounts",
          "dim_account", "fact_transaction", "daily_summary"}

NoTables == [transactions |-> {}, accounts |-> {}]

TypeOK ==
    /\ src \subseteq Versions
    /\ opened \subseteq Accounts
    /\ tables \in [Runs -> [transactions : SUBSET Versions, accounts : SUBSET Accounts]]
    /\ silverTxn \in [Runs -> SUBSET Versions]
    /\ bronze \in [transactions : SUBSET Versions, accounts : SUBSET Accounts]
    /\ quarantine \subseteq Versions
    /\ silver \in [Versions -> 0..MaxCopies]
    /\ silverAccounts \subseteq Accounts
    /\ gold \in [dim_account : SUBSET Accounts, fact_transaction : SUBSET Facts,
                 daily_summary : SUBSET Versions]
    /\ torn \subseteq Parts
    /\ pc \in [Runs -> Steps] /\ at \in [Runs -> 1..3]
    /\ runRow \in [Runs -> RunStatus]
    /\ faults \in 0..MaxFaults

Init ==
    /\ src = {} /\ opened = {}
    /\ tables = [w \in Runs |-> NoTables]
    /\ silverTxn = [w \in Runs |-> {}]
    /\ bronze = NoTables
    /\ quarantine = {}
    /\ silver = [v \in Versions |-> 0]
    /\ silverAccounts = {}
    /\ gold = [dim_account |-> {}, fact_transaction |-> {}, daily_summary |-> {}]
    /\ torn = {}
    /\ pc = [w \in Runs |-> "idle"] /\ at = [w \in Runs |-> 1]
    /\ RunInit
    /\ faults = 0

-----------------------------------------------------------------------------
\* The source: accounts are opened, and transactions written on open accounts.
\* Neither is removed.

OpenAccount(a) ==
    /\ a \notin opened
    /\ opened' = opened \cup {a}
    /\ UNCHANGED <<src, lake, locals, control, faults>>

\* An INSERT, or an UPDATE under a later stamp.
WriteTransaction(r) ==
    /\ AccountOf[r] \in Accounts => AccountOf[r] \in opened
    /\ \E v \in Versions :
        /\ v.row = r
        /\ \A old \in src : old.row = r => old.stamp < v.stamp
        /\ src' = {old \in src : old.row # r} \cup {v}
    /\ UNCHANGED <<opened, lake, locals, control, faults>>

SourceNext ==
    \/ \E a \in Accounts : OpenAccount(a)
    \/ \E r \in Rows : WriteTransaction(r)

-----------------------------------------------------------------------------
\* The computations of a run.

\* (Seeded mistake: a check that cannot be evaluated lets the row pass.)
FailsLenientRule(v) == Account(v) = Null \/ v.flaw \in {"status", "amount"}

\* row_failure_mask(): the row fails one of the row rules, of whatever severity.
FailsRule(v) == Account(v) = Null \/ v.flaw # "none"

Bad(w)  == {v \in tables[w].transactions : FailsRule(v)}
Good(w) == tables[w].transactions \ Bad(w)

OnePerTxn(frame) == \A u, v \in frame : Txn(u) = Txn(v) => u = v

\* (Seeded mistake: the first by updated_at is kept.)
KeepsFirst(frame, of) ==
    /\ frame \subseteq of /\ OnePerTxn(frame)
    /\ \A v \in of : \E u \in frame : Txn(u) = Txn(v) /\ u.stamp <= v.stamp

\* deduplicate(): of the rows of a transaction the last by updated_at; the sort
\* leaves open which, when stamps tie.
IsDeduplicated(frame, of) ==
    /\ frame \subseteq of /\ OnePerTxn(frame)
    /\ \A v \in of : \E u \in frame : Txn(u) = Txn(v) /\ v.stamp <= u.stamp

\* _with_partitions(): rows whose timestamp gives no year and month are dropped;
\* so does the grouping of the daily summary.
Dated(frame) == {v \in frame : v.flaw # "undated"}

\* build_fact_transaction(): a left join with the account dimension.
BuildFacts(frame, dim) ==
    {[version |-> v, accountSk |-> IF Account(v) \in dim THEN Account(v) ELSE Null]
        : v \in frame}

\* A partitioned write adds files beside those that are there.
AddFiles(frame) ==
    silver' = [v \in Versions |->
                  IF v \in frame /\ silver[v] < MaxCopies THEN silver[v] + 1 ELSE silver[v]]

\* What the steps that write a single part replace it with.
Extracted(w) == tables[w][ExtractOrder[at[w]]]

GoldFrame(w) ==
    [dim_account      |-> tables[w].accounts,
     fact_transaction |-> BuildFacts(silverTxn[w], tables[w].accounts),
     daily_summary    |-> Dated(silverTxn[w])][GoldOrder[at[w]]]

Goto(w, step) == pc' = [pc EXCEPT ![w] = step]

\* The next round of a loop over order, or the step after it.
NextRound(w, order, again, after) ==
    IF at[w] = Len(order)
      THEN Goto(w, after) /\ at' = [at EXCEPT ![w] = 1]
      ELSE Goto(w, again) /\ at' = [at EXCEPT ![w] = @ + 1]

EndProcess(w) ==
    /\ Goto(w, "idle")
    /\ at' = [at EXCEPT ![w] = 1]
    /\ tables' = [tables EXCEPT ![w] = NoTables]
    /\ silverTxn' = [silverTxn EXCEPT ![w] = {}]

-----------------------------------------------------------------------------
\* The steps of run().

StartRun(w) ==
    /\ pc[w] = "idle"
    /\ Goto(w, "extract")
    /\ BeginRun(w)
    /\ UNCHANGED <<sourceVars, lake, locals, at, faults>>

Extract(w) ==
    /\ pc[w] = "extract"
    /\ LET name == ExtractOrder[at[w]] IN
        tables' = [tables EXCEPT ![w][name] =
                      IF name = "transactions" THEN src ELSE opened]
    /\ Goto(w, "land")
    /\ UNCHANGED <<sourceVars, lake, silverTxn, at, runRow, faults>>

LandBronze(w) ==
    /\ pc[w] = "land"
    /\ bronze' = [bronze EXCEPT ![ExtractOrder[at[w]]] = Extracted(w)]
    /\ torn' = torn \ {ExtractOrder[at[w]]}
    /\ NextRound(w, ExtractOrder, "extract", "split")
    /\ UNCHANGED <<sourceVars, quarantine, silver, silverAccounts, gold, locals,
                   runRow, faults>>

\* (Seeded mistake: a run that rejects rows ends there.)
QuarantineStopsRun(w) ==
    /\ pc[w] = "split"
    /\ IF Bad(w) = {}
         THEN Goto(w, "cleanse") /\ UNCHANGED <<quarantine, torn, locals, at, runRow>>
         ELSE /\ quarantine' = Bad(w) /\ torn' = torn \ {"quarantine"}
              /\ FinishRun(w, "FAILED") /\ EndProcess(w)
    /\ UNCHANGED <<sourceVars, bronze, silver, silverAccounts, gold, faults>>

\* The rejected rows replace those of the run before; with none to reject, the
\* old ones stay.
Quarantine(w) ==
    /\ pc[w] = "split"
    /\ IF Bad(w) = {}
         THEN UNCHANGED <<quarantine, torn>>
         ELSE quarantine' = Bad(w) /\ torn' = torn \ {"quarantine"}
    /\ Goto(w, "cleanse")
    /\ UNCHANGED <<sourceVars, bronze, silver, silverAccounts, gold, locals, at,
                   runRow, faults>>

WriteSilver(w) ==
    /\ pc[w] = "cleanse"
    /\ \E frame \in SUBSET Good(w) :
        /\ IsDeduplicated(frame, Good(w))
        /\ silverTxn' = [silverTxn EXCEPT ![w] = frame]
        /\ AddFiles(Dated(frame))
    /\ Goto(w, "conform")
    /\ UNCHANGED <<sourceVars, bronze, quarantine, silverAccounts, gold, torn, tables,
                   at, runRow, faults>>

ConformAccounts(w) ==
    /\ pc[w] = "conform"
    /\ silverAccounts' = tables[w].accounts
    /\ torn' = torn \ {"silverAccounts"}
    /\ Goto(w, "gold")
    /\ UNCHANGED <<sourceVars, bronze, quarantine, silver, gold, locals, at, runRow,
                   faults>>

WriteGold(w) ==
    /\ pc[w] = "gold"
    /\ gold' = [gold EXCEPT ![GoldOrder[at[w]]] = GoldFrame(w)]
    /\ torn' = torn \ {GoldOrder[at[w]]}
    /\ NextRound(w, GoldOrder, "gold", "written")
    /\ UNCHANGED <<sourceVars, bronze, quarantine, silver, silverAccounts, locals,
                   runRow, faults>>

Succeed(w) ==
    /\ pc[w] = "written"
    /\ FinishRun(w, "SUCCESS")
    /\ EndProcess(w)
    /\ UNCHANGED <<sourceVars, lake, faults>>

\* The part that the next step of the run writes.
PartAtHand(w) ==
    CASE pc[w] = "land"    -> {ExtractOrder[at[w]]}
      [] pc[w] = "split"   -> {"quarantine"}
      [] pc[w] = "cleanse" -> {"silver"}
      [] pc[w] = "conform" -> {"silverAccounts"}
      [] pc[w] = "gold"    -> {GoldOrder[at[w]]}
      [] OTHER             -> {}

\* A run may end in the middle of a write.  Of the silver files any may have been
\* written by then, and one cut short.
CutShort(w) ==
    /\ torn' \in {torn, torn \cup PartAtHand(w)}
    /\ IF pc[w] = "cleanse"
         THEN \E frame \in SUBSET Good(w) : OnePerTxn(frame) /\ AddFiles(Dated(frame))
         ELSE UNCHANGED silver
    /\ UNCHANGED <<bronze, quarantine, silverAccounts, gold>>

\* An exception: the row is marked FAILED.
Fail(w) ==
    /\ faults < MaxFaults /\ faults' = faults + 1
    /\ pc[w] \notin {"idle", "written"}
    /\ FinishRun(w, "FAILED")
    /\ CutShort(w)
    /\ EndProcess(w)
    /\ UNCHANGED sourceVars

\* The process is killed, or _finish_run itself raises: the row stays RUNNING.
Crash(w) ==
    /\ faults < MaxFaults /\ faults' = faults + 1
    /\ pc[w] # "idle"
    /\ CutShort(w)
    /\ EndProcess(w)
    /\ UNCHANGED <<sourceVars, runRow>>

Proceed(w) ==
    \/ StartRun(w)
    \/ Extract(w)
    \/ LandBronze(w)
    \/ Quarantine(w)
    \/ WriteSilver(w)
    \/ ConformAccounts(w)
    \/ WriteGold(w)
    \/ Succeed(w)

Next ==
    \/ SourceNext
    \/ \E w \in Runs : Proceed(w) \/ Fail(w) \/ Crash(w)

Spec == Init /\ [][Next]_vars

\* The schedule starts runs again and again, and a run that is neither killed nor
\* failed goes on to its next statement.
FairSpec == Spec /\ \A w \in Runs : WF_vars(Proceed(w))

-----------------------------------------------------------------------------
\* Properties

\* The last run of every slot has ended well and none has begun since.
Complete == \A w \in Runs : pc[w] = "idle" /\ runRow[w] = "SUCCESS"

\* local_batch_pipeline.py: "Bad rows are split out to the quarantine zone": after
\* a run each extracted transaction is there with its row, or the fact table has
\* it in a version that is not older.
RowsAccountedFor ==
    Complete => \A v \in bronze.transactions :
                    \/ v \in quarantine
                    \/ \E f \in gold.fact_transaction :
                          Txn(f.version) = Txn(v) /\ v.stamp <= f.version.stamp

\* test_pipeline.py:18: fact_transaction has as many rows as the silver frame: what
\* the partitioning and the daily summary's grouping would drop without a trace
\* was rejected before, so each fact is in silver and in the summary.
NothingDroppedAfterSilver ==
    Complete => \A f \in gold.fact_transaction :
                    silver[f.version] > 0 /\ f.version \in gold.daily_summary

\* generators.py: "transactions reference accounts": a fact's account key is null
\* only where the source's reference dangles, and whenever both parts can be read,
\* also between two writes of the gold zone and after an interrupted run, the
\* account is in the account dimension.
FactsResolve ==
    {"dim_account", "fact_transaction"} \cap torn = {} =>
        \A f \in gold.fact_transaction :
            Account(f.version) \in Accounts =>
                /\ f.accountSk = Account(f.version)
                /\ f.accountSk \in gold.dim_account

\* Once the source is quiet and the last fault is over, gold holds every clean
\* transaction of the source in its newest clean version, killed runs or not.
GoldCatchesUp ==
    <>[](\A v \in Versions :
            v \in src /\ ~FailsRule(v) =>
                \E f \in gold.fact_transaction :
                    /\ Txn(f.version) = Txn(v) /\ f.version \in src
                    /\ v.stamp <= f.version.stamp)

\* docs/architecture.md: silver is "cleansed, deduplicated": a transaction is there
\* once.
SilverDeduplicated ==
    \A u, v \in Versions :
        silver[u] > 0 /\ silver[v] > 0 /\ Txn(u) = Txn(v) => u = v /\ silver[v] = 1
==============================================================================
