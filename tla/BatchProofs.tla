----------------------------- MODULE BatchProofs -----------------------------
(***************************************************************************)
(* Proofs about BatchPipeline, for every source, every interleaving of its *)
(* writers with the run, and every interruption.                           *)
(***************************************************************************)
EXTENDS BatchPipeline, TLAPS

\* At most one run is alive at a time.
Serial == \A v, w \in Runs : v = w

\* The account of a transaction, where it does not dangle, is among accs.
Resolves(frame, accs) == \A v \in frame : Account(v) \in Accounts => Account(v) \in accs

\* The source only ever holds transactions on open accounts.
SourceResolves == Resolves(src, opened)

\* Where a run is in its loops.
AtInv ==
    \A w \in Runs :
        /\ pc[w] \in {"extract", "land"} => at[w] \in 1..2
        /\ pc[w] \notin {"extract", "land", "gold"} => at[w] = 1

\* What a run holds is part of what the source holds by now.
HeldInv ==
    \A w \in Runs :
        /\ Resolves(tables[w].transactions, opened)
        /\ tables[w].accounts \subseteq opened
        /\ silverTxn[w] \subseteq tables[w].transactions

\* The facts in the gold zone resolve, to accounts that were open.
FactsInv ==
    \A f \in gold.fact_transaction :
        Account(f.version) \in Accounts =>
            /\ f.accountSk = Account(f.version)
            /\ f.accountSk \in gold.dim_account
            /\ f.accountSk \in opened

\* The run has its accounts.
AccountsTaken(w) ==
    \/ pc[w] = "land" /\ at[w] = 2
    \/ pc[w] \in {"split", "cleanse", "conform", "gold", "written"}

\* Since the accounts are taken last, they cover the run's transactions and all
\* that the gold zone has from the runs before it.
CoverInv ==
    \A w \in Runs :
        AccountsTaken(w) =>
            /\ Resolves(tables[w].transactions, tables[w].accounts)
            /\ gold.dim_account \subseteq tables[w].accounts

\* The facts are written after the dimension they refer to.
DimensionFirst ==
    \A w \in Runs :
        pc[w] = "gold" /\ at[w] > 1 => gold.dim_account = tables[w].accounts

\* The parts of the gold zone hold open accounts only.
GoldOpened == gold.dim_account \subseteq opened

\* A run has no silver frame before it has made one.
NoSilverYet ==
    \A w \in Runs : pc[w] \in {"idle", "extract", "land"} => silverTxn[w] = {}

BatchInv ==
    /\ TypeOK /\ NoSilverYet
    /\ SourceResolves /\ AtInv /\ HeldInv /\ FactsInv /\ CoverInv
    /\ DimensionFirst /\ GoldOpened

-----------------------------------------------------------------------------
LEMMA BatchInit == Init => BatchInv
BY BatchAssumption
DEF Init, RunInit, BatchInv, TypeOK, NoTables, Steps, RunStatus, Versions, Facts, Parts,
    SourceResolves, Resolves, AtInv, HeldInv, FactsInv, CoverInv, AccountsTaken,
    DimensionFirst, GoldOpened, NoSilverYet

\* The two loops.
LEMMA Orders ==
    /\ Len(ExtractOrder) = 2 /\ ExtractOrder[1] = "transactions" /\ ExtractOrder[2] = "accounts"
    /\ Len(GoldOrder) = 3 /\ GoldOrder[1] = "dim_account"
    /\ GoldOrder[2] = "fact_transaction" /\ GoldOrder[3] = "daily_summary"
BY DEF ExtractOrder, GoldOrder

\* A partitioned write keeps the count of copies within its bound.
LEMMA AddFilesType ==
  ASSUME silver \in [Versions -> 0..MaxCopies], NEW frame, AddFiles(frame)
  PROVE  silver' \in [Versions -> 0..MaxCopies]
BY BatchAssumption DEF AddFiles

\* The writes of the source: an account that is open stays open.
LEMMA SourceKeeps == BatchInv /\ SourceNext => BatchInv'
<1> SUFFICES ASSUME BatchInv, SourceNext PROVE BatchInv'
  OBVIOUS
<1> USE BatchAssumption DEF BatchInv, lake, locals, control
<1>1. CASE \E a \in Accounts : OpenAccount(a)
  <2>1. opened \subseteq opened' /\ opened' \subseteq Accounts
        /\ UNCHANGED <<src, lake, locals, control, faults>>
    BY <1>1 DEF OpenAccount, TypeOK
  <2>2. QED
    BY <2>1 DEF TypeOK, SourceResolves, Resolves, AtInv, HeldInv, FactsInv, CoverInv,
                AccountsTaken, DimensionFirst, GoldOpened, NoSilverYet
<1>2. CASE \E r \in Rows : WriteTransaction(r)
  <2>1. PICK r \in Rows : WriteTransaction(r)
    BY <1>2
  <2>2. UNCHANGED <<opened, lake, locals, control, faults>>
    BY <2>1 DEF WriteTransaction
  <2>3. src' \subseteq Versions /\ SourceResolves'
    BY <2>1, <2>2 DEF WriteTransaction, SourceResolves, Resolves, Account, TypeOK
  <2>4. QED
    BY <2>2, <2>3 DEF TypeOK, SourceResolves, Resolves, AtInv, HeldInv, FactsInv, CoverInv,
                AccountsTaken, DimensionFirst, GoldOpened, NoSilverYet
<1>3. QED
  BY <1>1, <1>2 DEF SourceNext

\* The end of a process, whatever it came from: its locals are gone and the zones
\* hold what they held, save that silver may have grown.
LEMMA EndKeeps ==
  ASSUME BatchInv, NEW w \in Runs, EndProcess(w),
         UNCHANGED <<src, opened, bronze, quarantine, silverAccounts, gold>>,
         silver' \in [Versions -> 0..MaxCopies], torn' \subseteq Parts,
         runRow' \in [Runs -> RunStatus], faults' \in 0..MaxFaults
  PROVE  BatchInv'
<1> USE DEF BatchInv, EndProcess, Goto, NoTables
<1>1. /\ pc' = [pc EXCEPT ![w] = "idle"] /\ at' = [at EXCEPT ![w] = 1]
      /\ tables' = [tables EXCEPT ![w] = NoTables]
      /\ silverTxn' = [silverTxn EXCEPT ![w] = {}]
  OBVIOUS
<1>2. TypeOK'
  <2>1. NoTables \in [transactions : SUBSET Versions, accounts : SUBSET Accounts]
    OBVIOUS
  <2>2. tables' \in [Runs -> [transactions : SUBSET Versions, accounts : SUBSET Accounts]]
    BY <1>1, <2>1 DEF TypeOK
  <2>3. /\ silverTxn' \in [Runs -> SUBSET Versions]
        /\ pc' \in [Runs -> Steps] /\ at' \in [Runs -> 1..3]
    BY <1>1 DEF TypeOK, Steps
  <2>4. QED
    BY <2>2, <2>3 DEF TypeOK
<1>3. SourceResolves' /\ FactsInv' /\ GoldOpened'
  BY DEF SourceResolves, Resolves, FactsInv, GoldOpened
<1>4. AtInv'
  BY <1>1 DEF AtInv, TypeOK
<1>5. HeldInv'
  BY <1>1 DEF HeldInv, Resolves, TypeOK
<1>6. CoverInv' /\ DimensionFirst'
  BY <1>1 DEF CoverInv, DimensionFirst, AccountsTaken, TypeOK
<1>7. NoSilverYet'
  BY <1>1 DEF NoSilverYet, TypeOK
<1>8. QED
  BY <1>2, <1>3, <1>4, <1>5, <1>6, <1>7

\* What an interrupted write leaves.
LEMMA CutShortLeaves ==
  ASSUME BatchInv, NEW w \in Runs, CutShort(w)
  PROVE  /\ silver' \in [Versions -> 0..MaxCopies] /\ torn' \subseteq Parts
         /\ UNCHANGED <<bronze, quarantine, silverAccounts, gold>>
<1>1. PartAtHand(w) \subseteq Parts
  BY Orders DEF PartAtHand, Parts, BatchInv, AtInv, TypeOK
<1>2. silver' \in [Versions -> 0..MaxCopies]
  BY AddFilesType DEF CutShort, BatchInv, TypeOK
<1>3. QED
  BY <1>1, <1>2 DEF CutShort, BatchInv, TypeOK

-----------------------------------------------------------------------------
\* The steps of a run.

LEMMA StartKeeps ==
  ASSUME BatchInv, NEW w \in Runs, StartRun(w) PROVE BatchInv'
<1> USE DEF BatchInv, StartRun, Goto, lake, locals, sourceVars
<1>1. TypeOK'
  BY DEF TypeOK, BeginRun, Steps, RunStatus
<1>2. AtInv' /\ CoverInv' /\ DimensionFirst'
  BY DEF AtInv, CoverInv, DimensionFirst, AccountsTaken, TypeOK, Resolves
<1>3. QED
  BY <1>1, <1>2 DEF SourceResolves, Resolves, HeldInv, FactsInv, GoldOpened, NoSilverYet,
                    TypeOK

\* The accounts come last: they are all that are open, and cover what was taken
\* and written before.
LEMMA ExtractKeeps ==
  ASSUME BatchInv, NEW w \in Runs, Extract(w) PROVE BatchInv'
<1> USE DEF BatchInv
<1>1. /\ pc[w] = "extract" /\ pc' = [pc EXCEPT ![w] = "land"]
      /\ UNCHANGED <<sourceVars, lake, silverTxn, at, runRow, faults>>
  BY DEF Extract, Goto
<1>2. at[w] \in 1..2
  BY <1>1 DEF AtInv
<1>3. tables[w] \in [transactions : SUBSET Versions, accounts : SUBSET Accounts]
  BY DEF TypeOK
<1>4. \E held \in [transactions : SUBSET Versions, accounts : SUBSET Accounts] :
        /\ tables' = [tables EXCEPT ![w] = held]
        /\ \/ /\ at[w] = 1
              /\ held = [transactions |-> src, accounts |-> tables[w].accounts]
           \/ /\ at[w] = 2
              /\ held = [transactions |-> tables[w].transactions, accounts |-> opened]
  <2>1. CASE at[w] = 1
    <3> DEFINE held == [transactions |-> src, accounts |-> tables[w].accounts]
    <3>1. tables' = [tables EXCEPT ![w] = [@ EXCEPT !["transactions"] = src]]
      BY <2>1, Orders DEF Extract
    <3>2. /\ held = [tables[w] EXCEPT !["transactions"] = src]
          /\ held \in [transactions : SUBSET Versions, accounts : SUBSET Accounts]
      <4> HIDE DEF BatchInv
      <4>1. src \in SUBSET Versions /\ opened \in SUBSET Accounts
        BY DEF BatchInv, TypeOK
      <4>2. PICK t \in SUBSET Versions, a \in SUBSET Accounts :
               tables[w] = [transactions |-> t, accounts |-> a]
        BY <1>3
      <4>3. QED
        BY <4>1, <4>2
    <3>3. tables' = [tables EXCEPT ![w] = held]
      BY <3>1, <3>2
    <3>4. QED
      BY <2>1, <3>2, <3>3
  <2>2. CASE at[w] = 2
    <3> DEFINE held == [transactions |-> tables[w].transactions, accounts |-> opened]
    <3>1. tables' = [tables EXCEPT ![w] = [@ EXCEPT !["accounts"] = opened]]
      BY <2>2, Orders DEF Extract
    <3>2. /\ held = [tables[w] EXCEPT !["accounts"] = opened]
          /\ held \in [transactions : SUBSET Versions, accounts : SUBSET Accounts]
      <4> HIDE DEF BatchInv
      <4>1. src \in SUBSET Versions /\ opened \in SUBSET Accounts
        BY DEF BatchInv, TypeOK
      <4>2. PICK t \in SUBSET Versions, a \in SUBSET Accounts :
               tables[w] = [transactions |-> t, accounts |-> a]
        BY <1>3
      <4>3. QED
        BY <4>1, <4>2
    <3>3. tables' = [tables EXCEPT ![w] = held]
      BY <3>1, <3>2
    <3>4. QED
      BY <2>2, <3>2, <3>3
  <2>3. QED
    BY <2>1, <2>2, <1>2
<1>5. TypeOK'
  BY <1>1, <1>4 DEF TypeOK, Steps, sourceVars, lake
<1>6. AtInv' /\ DimensionFirst'
  BY <1>1, <1>2, <1>4 DEF AtInv, DimensionFirst, TypeOK, lake
<1>7. HeldInv'
  <2> SUFFICES ASSUME NEW u \in Runs
               PROVE  /\ Resolves(tables'[u].transactions, opened)
                      /\ tables'[u].accounts \subseteq opened
                      /\ silverTxn[u] \subseteq tables'[u].transactions
    BY <1>1 DEF HeldInv, sourceVars, Resolves
  <2>1. CASE u # w
    BY <2>1, <1>4 DEF HeldInv, TypeOK
  <2>2. CASE u = w
    BY <2>2, <1>1, <1>4 DEF HeldInv, TypeOK, SourceResolves, NoSilverYet
  <2>3. QED
    BY <2>1, <2>2
<1>8. CoverInv'
  <2> SUFFICES ASSUME NEW u \in Runs, AccountsTaken(u)'
               PROVE  /\ Resolves(tables'[u].transactions, tables'[u].accounts)
                      /\ gold.dim_account \subseteq tables'[u].accounts
    BY <1>1 DEF CoverInv, lake, Resolves
  <2>1. CASE u # w
    BY <2>1, <1>1, <1>4 DEF CoverInv, AccountsTaken, TypeOK
  <2>2. CASE u = w
    BY <2>2, <1>1, <1>4 DEF HeldInv, GoldOpened, AccountsTaken, TypeOK
  <2>3. QED
    BY <2>1, <2>2
<1>9. NoSilverYet'
  BY <1>1 DEF NoSilverYet, TypeOK
<1>10. QED
  BY <1>1, <1>5, <1>6, <1>7, <1>8, <1>9
  DEF SourceResolves, Resolves, FactsInv, GoldOpened, sourceVars, lake

\* A step that changes neither the tables a run holds nor the gold zone.
LEMMA OtherZoneKeeps ==
  ASSUME BatchInv, NEW w \in Runs, NEW step \in Steps \ {"idle"},
         pc' = [pc EXCEPT ![w] = step], TypeOK', AtInv', NoSilverYet',
         AccountsTaken(w)' => AccountsTaken(w),
         step = "gold" => at'[w] = 1,
         \A u \in Runs : u # w => at'[u] = at[u],
         UNCHANGED <<src, opened, gold, tables>>,
         \A u \in Runs : silverTxn'[u] \subseteq tables[u].transactions
  PROVE  BatchInv'
<1> USE DEF BatchInv
<1>1. SourceResolves' /\ FactsInv' /\ GoldOpened'
  BY DEF SourceResolves, Resolves, FactsInv, GoldOpened
<1>2. HeldInv'
  BY DEF HeldInv, Resolves
<1>3. CoverInv'
  <2> SUFFICES ASSUME NEW u \in Runs, AccountsTaken(u)' PROVE AccountsTaken(u)
    BY DEF CoverInv, Resolves
  <2>1. CASE u # w
    BY <2>1 DEF AccountsTaken, TypeOK
  <2>2. QED
    BY <2>1
<1>4. DimensionFirst'
  BY DEF DimensionFirst, TypeOK
<1>5. QED
  BY <1>1, <1>2, <1>3, <1>4

LEMMA LandKeeps ==
  ASSUME BatchInv, NEW w \in Runs, LandBronze(w) PROVE BatchInv'
<1> USE DEF BatchInv
<1>1. at[w] \in 1..2 /\ pc[w] = "land"
  BY DEF LandBronze, AtInv
<1>2. \/ at[w] = 1 /\ pc' = [pc EXCEPT ![w] = "extract"] /\ at' = [at EXCEPT ![w] = 2]
      \/ at[w] = 2 /\ pc' = [pc EXCEPT ![w] = "split"] /\ at' = [at EXCEPT ![w] = 1]
  BY <1>1, Orders DEF LandBronze, NextRound, Goto, TypeOK
<1>3. bronze' \in [transactions : SUBSET Versions, accounts : SUBSET Accounts]
  <2>1. tables[w] \in [transactions : SUBSET Versions, accounts : SUBSET Accounts]
    BY DEF TypeOK
  <2>2. CASE at[w] = 1
    BY <2>1, <2>2, Orders DEF LandBronze, Extracted, TypeOK
  <2>3. CASE at[w] = 2
    BY <2>1, <2>3, Orders DEF LandBronze, Extracted, TypeOK
  <2>4. QED
    BY <1>1, <2>2, <2>3
<1>4. TypeOK'
  <2>1. pc' \in [Runs -> Steps] /\ at' \in [Runs -> 1..3]
    BY <1>2 DEF TypeOK, Steps
  <2>2. torn' \subseteq Parts
    BY DEF LandBronze, TypeOK
  <2>3. QED
    BY <1>3, <2>1, <2>2 DEF LandBronze, TypeOK, sourceVars, locals
<1>5. AtInv' /\ NoSilverYet'
  <2>1. silverTxn' = silverTxn
    BY DEF LandBronze, locals
  <2>2. AtInv'
    BY <1>1, <1>2 DEF AtInv, TypeOK
  <2>3. NoSilverYet'
    BY <1>1, <1>2, <2>1 DEF NoSilverYet, TypeOK
  <2>4. QED
    BY <2>2, <2>3
<1>6. \A u \in Runs : silverTxn'[u] \subseteq tables[u].transactions
  BY DEF LandBronze, locals, HeldInv
<1>7. CASE at[w] = 1
  BY <1>1, <1>2, <1>4, <1>5, <1>6, <1>7, OtherZoneKeeps
  DEF LandBronze, sourceVars, locals, TypeOK, AccountsTaken, Steps
<1>8. CASE at[w] = 2
  BY <1>1, <1>2, <1>4, <1>5, <1>6, <1>8, OtherZoneKeeps
  DEF LandBronze, sourceVars, locals, TypeOK, AccountsTaken, Steps
<1>9. QED
  BY <1>1, <1>7, <1>8

LEMMA QuarantineKeeps ==
  ASSUME BatchInv, NEW w \in Runs, Quarantine(w) PROVE BatchInv'
<1> USE DEF BatchInv
<1>1. /\ pc[w] = "split" /\ pc' = [pc EXCEPT ![w] = "cleanse"]
      /\ UNCHANGED <<sourceVars, bronze, silver, silverAccounts, gold, locals, at,
                     runRow, faults>>
  BY DEF Quarantine, Goto
<1>2. quarantine' \subseteq Versions /\ torn' \subseteq Parts
  BY DEF Quarantine, Bad, TypeOK
<1>3. TypeOK'
  BY <1>1, <1>2 DEF TypeOK, Steps, sourceVars, locals
<1>4. AtInv' /\ NoSilverYet'
  BY <1>1 DEF AtInv, NoSilverYet, TypeOK, locals
<1>5. QED
  BY <1>1, <1>3, <1>4, OtherZoneKeeps
  DEF AccountsTaken, Steps, sourceVars, locals, HeldInv, TypeOK

LEMMA SilverKeeps ==
  ASSUME BatchInv, NEW w \in Runs, WriteSilver(w) PROVE BatchInv'
<1> USE DEF BatchInv
<1>1. PICK frame \in SUBSET Good(w) :
        /\ silverTxn' = [silverTxn EXCEPT ![w] = frame]
        /\ AddFiles(Dated(frame))
  BY DEF WriteSilver
<1>2. /\ pc[w] = "cleanse" /\ pc' = [pc EXCEPT ![w] = "conform"]
      /\ UNCHANGED <<sourceVars, bronze, quarantine, silverAccounts, gold, torn, tables,
                     at, runRow, faults>>
  BY DEF WriteSilver, Goto
<1>3. frame \subseteq tables[w].transactions /\ tables[w].transactions \subseteq Versions
  BY DEF Good, TypeOK
<1>4. silver' \in [Versions -> 0..MaxCopies]
  BY <1>1, AddFilesType DEF TypeOK
<1>5. TypeOK'
  BY <1>1, <1>2, <1>3, <1>4 DEF TypeOK, Steps, sourceVars
<1>6. AtInv' /\ NoSilverYet'
  BY <1>1, <1>2 DEF AtInv, NoSilverYet, TypeOK
<1>7. \A u \in Runs : silverTxn'[u] \subseteq tables[u].transactions
  BY <1>1, <1>3 DEF HeldInv, TypeOK
<1>8. QED
  BY <1>2, <1>5, <1>6, <1>7, OtherZoneKeeps DEF AccountsTaken, Steps, sourceVars, TypeOK

LEMMA ConformKeeps ==
  ASSUME BatchInv, NEW w \in Runs, ConformAccounts(w) PROVE BatchInv'
<1> USE DEF BatchInv
<1>1. /\ pc[w] = "conform" /\ pc' = [pc EXCEPT ![w] = "gold"]
      /\ UNCHANGED <<sourceVars, bronze, quarantine, silver, gold, locals, at, runRow,
                     faults>>
  BY DEF ConformAccounts, Goto
<1>2. silverAccounts' \subseteq Accounts /\ torn' \subseteq Parts
  BY DEF ConformAccounts, TypeOK
<1>3. TypeOK'
  BY <1>1, <1>2 DEF TypeOK, Steps, sourceVars, locals
<1>4. AtInv' /\ NoSilverYet' /\ at[w] = 1
  BY <1>1 DEF AtInv, NoSilverYet, TypeOK, locals
<1>5. QED
  BY <1>1, <1>3, <1>4, OtherZoneKeeps
  DEF AccountsTaken, Steps, sourceVars, locals, HeldInv, TypeOK

-----------------------------------------------------------------------------
\* The gold zone, of a run that is alone.

\* What each of its three writes replaces.
LEMMA GoldWrites ==
  ASSUME BatchInv, NEW w \in Runs, WriteGold(w)
  PROVE  /\ gold' \in [dim_account : SUBSET Accounts, fact_transaction : SUBSET Facts,
                       daily_summary : SUBSET Versions]
         /\ at[w] \in 1..3
         /\ at[w] = 1 => /\ gold'.dim_account = tables[w].accounts
                         /\ gold'.fact_transaction = gold.fact_transaction
         /\ at[w] = 2 => /\ gold'.dim_account = gold.dim_account
                         /\ gold'.fact_transaction
                              = BuildFacts(silverTxn[w], tables[w].accounts)
         /\ at[w] = 3 => /\ gold'.dim_account = gold.dim_account
                         /\ gold'.fact_transaction = gold.fact_transaction
<1>1. /\ gold \in [dim_account : SUBSET Accounts, fact_transaction : SUBSET Facts,
                   daily_summary : SUBSET Versions]
      /\ at[w] \in 1..3
      /\ tables[w].accounts \subseteq Accounts /\ silverTxn[w] \subseteq Versions
  BY DEF BatchInv, TypeOK
<1>2. Dated(silverTxn[w]) \subseteq Versions
  BY <1>1 DEF Dated
<1>3. BuildFacts(silverTxn[w], tables[w].accounts) \subseteq Facts
  BY <1>1 DEF BuildFacts, Facts
<1>4. gold' = [gold EXCEPT ![GoldOrder[at[w]]] = GoldFrame(w)]
  BY DEF WriteGold
<1>5. CASE at[w] = 1
  <2>1. gold' = [gold EXCEPT !["dim_account"] = tables[w].accounts]
    BY <1>4, <1>5, Orders DEF GoldFrame
  <2>2. QED
    BY <1>1, <1>5, <2>1
<1>6. CASE at[w] = 2
  <2>1. gold' = [gold EXCEPT !["fact_transaction"] =
                               BuildFacts(silverTxn[w], tables[w].accounts)]
    BY <1>4, <1>6, Orders DEF GoldFrame
  <2>2. QED
    BY <1>1, <1>3, <1>6, <2>1
<1>7. CASE at[w] = 3
  <2>1. gold' = [gold EXCEPT !["daily_summary"] = Dated(silverTxn[w])]
    BY <1>4, <1>7, Orders DEF GoldFrame
  <2>2. QED
    BY <1>1, <1>2, <1>7, <2>1
<1>8. QED
  BY <1>1, <1>5, <1>6, <1>7

LEMMA GoldKeeps ==
  ASSUME Serial, BatchInv, NEW w \in Runs, WriteGold(w) PROVE BatchInv'
<1> USE DEF BatchInv
<1>1. /\ pc[w] = "gold"
      /\ UNCHANGED <<src, opened, bronze, quarantine, silver, silverAccounts, tables,
                     silverTxn, runRow, faults>>
  BY DEF WriteGold, sourceVars, locals
<1>2. \/ /\ at[w] < 3
         /\ pc' = [pc EXCEPT ![w] = "gold"] /\ at' = [at EXCEPT ![w] = at[w] + 1]
      \/ /\ at[w] = 3
         /\ pc' = [pc EXCEPT ![w] = "written"] /\ at' = [at EXCEPT ![w] = 1]
  <2> HIDE DEF BatchInv
  <2>1. at[w] \in 1..3 /\ Len(GoldOrder) = 3
    BY GoldWrites, Orders
  <2>2. NextRound(w, GoldOrder, "gold", "written")
    BY DEF WriteGold
  <2>3. CASE at[w] = 3
    BY <2>1, <2>2, <2>3 DEF NextRound, Goto
  <2>4. CASE at[w] # 3
    BY <2>1, <2>2, <2>4 DEF NextRound, Goto
  <2>5. QED
    BY <2>3, <2>4
<1>3. /\ AccountsTaken(w)
      /\ Resolves(tables[w].transactions, tables[w].accounts)
      /\ gold.dim_account \subseteq tables[w].accounts
  BY <1>1 DEF AccountsTaken, CoverInv
<1>4. /\ tables[w].accounts \subseteq opened
      /\ silverTxn[w] \subseteq tables[w].transactions
  BY DEF HeldInv
<1>5. TypeOK'
  <2>1. pc' \in [Runs -> Steps] /\ at' \in [Runs -> 1..3]
    BY <1>2, GoldWrites DEF TypeOK, Steps
  <2>2. torn' \subseteq Parts
    BY DEF WriteGold, TypeOK
  <2>3. QED
    BY <1>1, <2>1, <2>2, GoldWrites DEF TypeOK
<1>6. SourceResolves' /\ HeldInv'
  BY <1>1 DEF SourceResolves, HeldInv, Resolves
<1>7. AtInv' /\ NoSilverYet'
  BY <1>1, <1>2 DEF AtInv, NoSilverYet, TypeOK
<1>8. GoldOpened'
  BY <1>1, <1>4, GoldWrites DEF GoldOpened
<1>9. CoverInv'
  BY <1>1, <1>3, GoldWrites DEF Serial, CoverInv, Resolves
<1>10. DimensionFirst'
  <2>1. at[w] > 1 => gold.dim_account = tables[w].accounts
    BY <1>1 DEF DimensionFirst
  <2>2. gold'.dim_account = tables[w].accounts
    BY <2>1, GoldWrites
  <2>3. QED
    BY <1>1, <2>2 DEF Serial, DimensionFirst
<1>11. FactsInv'
  <2> SUFFICES ASSUME NEW f \in gold'.fact_transaction, Account(f.version) \in Accounts
               PROVE  /\ f.accountSk = Account(f.version)
                      /\ f.accountSk \in gold'.dim_account
                      /\ f.accountSk \in opened
    BY <1>1 DEF FactsInv
  <2>1. CASE at[w] = 2
    <3>1. PICK v \in silverTxn[w] :
            f = [version |-> v,
                 accountSk |-> IF Account(v) \in tables[w].accounts THEN Account(v)
                                                                    ELSE Null]
      BY <2>1, GoldWrites DEF BuildFacts
    <3>2. f.version = v
      BY <3>1
    <3>3. Account(v) \in tables[w].accounts
      BY <3>2, <1>3, <1>4 DEF Resolves
    <3>4. f.accountSk = Account(v)
      BY <3>1, <3>3
    <3>5. gold'.dim_account = tables[w].accounts
      BY <1>1, <2>1, GoldWrites DEF DimensionFirst
    <3>6. QED
      BY <3>2, <3>3, <3>4, <3>5, <1>4
  <2>2. CASE at[w] # 2
    BY <2>2, <1>3, GoldWrites DEF FactsInv
  <2>3. QED
    BY <2>1, <2>2
<1>12. QED
  BY <1>5, <1>6, <1>7, <1>8, <1>9, <1>10, <1>11

-----------------------------------------------------------------------------
LEMMA EndingsKeep ==
  ASSUME BatchInv, NEW w \in Runs, Succeed(w) \/ Fail(w) \/ Crash(w) PROVE BatchInv'
<1>1. EndProcess(w) /\ UNCHANGED <<src, opened>>
  BY DEF Succeed, Fail, Crash, sourceVars
<1>2. /\ UNCHANGED <<bronze, quarantine, silverAccounts, gold>>
      /\ silver' \in [Versions -> 0..MaxCopies] /\ torn' \subseteq Parts
  <2>1. CASE Succeed(w)
    BY <2>1 DEF Succeed, lake, BatchInv, TypeOK
  <2>2. CASE Fail(w) \/ Crash(w)
    BY <2>2, CutShortLeaves DEF Fail, Crash
  <2>3. QED
    BY <2>1, <2>2
<1>3. runRow' \in [Runs -> RunStatus] /\ faults' \in 0..MaxFaults
  BY BatchAssumption DEF Succeed, Fail, Crash, FinishRun, RunStatus, BatchInv, TypeOK
<1>4. QED
  BY <1>1, <1>2, <1>3, EndKeeps

LEMMA BatchStep ==
  ASSUME Serial PROVE BatchInv /\ [Next]_vars => BatchInv'
<1> SUFFICES ASSUME BatchInv, [Next]_vars PROVE BatchInv'
  OBVIOUS
<1>1. CASE SourceNext
  BY <1>1, SourceKeeps
<1>2. ASSUME NEW w \in Runs, Proceed(w) \/ Fail(w) \/ Crash(w)
      PROVE  BatchInv'
  <2>1. CASE StartRun(w)
    BY <2>1, StartKeeps
  <2>2. CASE Extract(w)
    BY <2>2, ExtractKeeps
  <2>3. CASE LandBronze(w)
    BY <2>3, LandKeeps
  <2>4. CASE Quarantine(w)
    BY <2>4, QuarantineKeeps
  <2>5. CASE WriteSilver(w)
    BY <2>5, SilverKeeps
  <2>6. CASE ConformAccounts(w)
    BY <2>6, ConformKeeps
  <2>7. CASE WriteGold(w)
    BY <2>7, GoldKeeps
  <2>8. CASE Succeed(w) \/ Fail(w) \/ Crash(w)
    BY <2>8, EndingsKeep
  <2>9. QED
    BY <1>2, <2>1, <2>2, <2>3, <2>4, <2>5, <2>6, <2>7, <2>8 DEF Proceed
<1>3. CASE UNCHANGED vars
  BY <1>3 DEF vars, sourceVars, lake, locals, control, BatchInv, TypeOK, NoSilverYet,
              SourceResolves, Resolves, AtInv, HeldInv, FactsInv, CoverInv,
              AccountsTaken, DimensionFirst, GoldOpened
<1>4. QED
  BY <1>1, <1>2, <1>3 DEF Next

-----------------------------------------------------------------------------
\* What a run has written so far, and what it will be held against once it is over.

\* A live run's row is open.
RowOpen == \A w \in Runs : pc[w] # "idle" => runRow[w] = "RUNNING"

\* From the first landing on, bronze has the transactions that the run works on.
LandedInv ==
    \A w \in Runs :
        \/ pc[w] \in {"extract", "land"} /\ at[w] = 2
        \/ pc[w] \in {"split", "cleanse", "conform", "gold", "written"}
        => bronze.transactions = tables[w].transactions

\* From the split on, quarantine has its bad rows.
RejectedInv ==
    \A w \in Runs :
        pc[w] \in {"cleanse", "conform", "gold", "written"} => Bad(w) \subseteq quarantine

\* From the deduplication on, its frame stands for its good rows, and is in silver.
SilverInv ==
    \A w \in Runs :
        pc[w] \in {"conform", "gold", "written"} =>
            /\ IsDeduplicated(silverTxn[w], Good(w))
            /\ \A v \in silverTxn[w] : silver[v] > 0

\* The fact table is made from that frame, and the summary after it.
FactsWritten ==
    \A w \in Runs :
        (pc[w] = "gold" /\ at[w] = 3) \/ pc[w] = "written" =>
            gold.fact_transaction = BuildFacts(silverTxn[w], tables[w].accounts)

SummaryWritten ==
    \A w \in Runs : pc[w] = "written" => gold.daily_summary = Dated(silverTxn[w])

WrittenInv ==
    /\ RowOpen /\ LandedInv /\ RejectedInv /\ SilverInv /\ FactsWritten /\ SummaryWritten
    /\ RowsAccountedFor /\ NothingDroppedAfterSilver

LEMMA WrittenInit == Init => WrittenInv
BY DEF Init, RunInit, NoTables, WrittenInv, RowOpen, LandedInv, RejectedInv, SilverInv,
       FactsWritten, SummaryWritten, RowsAccountedFor, NothingDroppedAfterSilver

\* While the one run is alive nothing is held against it.
LEMMA NotYetHeld ==
  ASSUME Serial, NEW w \in Runs, pc'[w] # "idle" \/ runRow'[w] # "SUCCESS"
  PROVE  RowsAccountedFor' /\ NothingDroppedAfterSilver'
BY DEF RowsAccountedFor, NothingDroppedAfterSilver, Complete

\* Writing a set of rows adds them and takes none away.
LEMMA SilverGrows ==
  ASSUME silver \in [Versions -> 0..MaxCopies], NEW frame, AddFiles(frame)
  PROVE  \A v \in Versions :
            /\ silver[v] > 0 => silver'[v] > 0
            /\ v \in frame => silver'[v] > 0
BY BatchAssumption DEF AddFiles

\* The rules reject every row whose timestamp gives no year and month.
LEMMA GoodIsDated == \A w \in Runs : \A frame \in SUBSET Good(w) : Dated(frame) = frame
BY DEF Good, Bad, FailsRule, Dated

LEMMA SourceKeepsWritten == WrittenInv /\ SourceNext => WrittenInv'
<1> SUFFICES ASSUME WrittenInv, SourceNext PROVE WrittenInv'
  OBVIOUS
<1>1. UNCHANGED <<lake, locals, control>>
  BY DEF SourceNext, OpenAccount, WriteTransaction, control
<1>2. UNCHANGED <<bronze, quarantine, silver, gold, tables, silverTxn, pc, at, runRow>>
  BY <1>1 DEF lake, locals, control
<1>3. QED
  BY <1>2 DEF WrittenInv, RowOpen, LandedInv, RejectedInv, SilverInv, FactsWritten,
              SummaryWritten, RowsAccountedFor, NothingDroppedAfterSilver, Complete, Bad, Good

LEMMA StartKeepsWritten ==
  ASSUME Serial, BatchInv, WrittenInv, NEW w \in Runs, StartRun(w) PROVE WrittenInv'
<1>1. /\ pc'[w] = "extract" /\ at'[w] = 1 /\ runRow'[w] = "RUNNING"
  BY DEF StartRun, Goto, BeginRun, BatchInv, TypeOK, AtInv
<1>2. RowsAccountedFor' /\ NothingDroppedAfterSilver'
  BY <1>1, NotYetHeld
<1>3. QED
  BY <1>1, <1>2 DEF Serial, WrittenInv, RowOpen, LandedInv, RejectedInv, SilverInv,
                    FactsWritten, SummaryWritten

LEMMA ExtractKeepsWritten ==
  ASSUME Serial, BatchInv, WrittenInv, NEW w \in Runs, Extract(w) PROVE WrittenInv'
<1>1. /\ pc[w] = "extract" /\ pc'[w] = "land" /\ at'[w] = at[w] /\ at[w] \in 1..2
      /\ runRow'[w] = "RUNNING" /\ bronze' = bronze
  BY DEF Extract, Goto, BatchInv, TypeOK, AtInv, lake, WrittenInv, RowOpen
<1>2. at[w] = 2 => tables'[w].transactions = tables[w].transactions
  BY Orders DEF Extract, BatchInv, TypeOK
<1>3. RowsAccountedFor' /\ NothingDroppedAfterSilver'
  BY <1>1, NotYetHeld
<1>4. LandedInv'
  BY <1>1, <1>2 DEF Serial, WrittenInv, LandedInv
<1>5. QED
  BY <1>1, <1>3, <1>4 DEF Serial, WrittenInv, RowOpen, RejectedInv, SilverInv,
                    FactsWritten, SummaryWritten

LEMMA LandKeepsWritten ==
  ASSUME Serial, BatchInv, WrittenInv, NEW w \in Runs, LandBronze(w) PROVE WrittenInv'
<1>1. /\ pc[w] = "land" /\ at[w] \in 1..2 /\ runRow'[w] = "RUNNING" /\ tables' = tables
  BY DEF LandBronze, BatchInv, TypeOK, AtInv, locals, WrittenInv, RowOpen
<1>2. \/ at[w] = 1 /\ pc'[w] = "extract" /\ at'[w] = 2
      \/ at[w] = 2 /\ pc'[w] = "split" /\ at'[w] = 1
  BY <1>1, Orders DEF LandBronze, NextRound, Goto, BatchInv, TypeOK
<1>3. bronze'.transactions = tables[w].transactions
  <2>1. bronze \in [transactions : SUBSET Versions, accounts : SUBSET Accounts]
    BY DEF BatchInv, TypeOK
  <2>2. CASE at[w] = 1
    BY <2>1, <2>2, Orders DEF LandBronze, Extracted
  <2>3. CASE at[w] = 2
    BY <1>1, <2>1, <2>3, Orders DEF LandBronze, Extracted, WrittenInv, LandedInv
  <2>4. QED
    BY <1>1, <2>2, <2>3
<1>4. RowsAccountedFor' /\ NothingDroppedAfterSilver'
  BY <1>2, NotYetHeld
<1>5. QED
  BY <1>1, <1>2, <1>3, <1>4 DEF Serial, WrittenInv, RowOpen, LandedInv, RejectedInv,
                    SilverInv, FactsWritten, SummaryWritten

LEMMA QuarantineKeepsWritten ==
  ASSUME Serial, BatchInv, WrittenInv, NEW w \in Runs, Quarantine(w) PROVE WrittenInv'
<1>1. /\ pc[w] = "split" /\ pc'[w] = "cleanse" /\ runRow'[w] = "RUNNING"
      /\ UNCHANGED <<bronze, tables>>
  BY DEF Quarantine, Goto, BatchInv, TypeOK, locals, WrittenInv, RowOpen
<1>2. Bad(w) \subseteq quarantine'
  BY DEF Quarantine
<1>3. RowsAccountedFor' /\ NothingDroppedAfterSilver'
  BY <1>1, NotYetHeld
<1>4. LandedInv' /\ RejectedInv'
  BY <1>1, <1>2 DEF Serial, WrittenInv, LandedInv, RejectedInv, Bad
<1>5. QED
  BY <1>1, <1>3, <1>4 DEF Serial, WrittenInv, RowOpen, SilverInv, FactsWritten,
                          SummaryWritten

LEMMA SilverKeepsWritten ==
  ASSUME Serial, BatchInv, WrittenInv, NEW w \in Runs, WriteSilver(w) PROVE WrittenInv'
<1>1. PICK frame \in SUBSET Good(w) :
        /\ IsDeduplicated(frame, Good(w))
        /\ silverTxn' = [silverTxn EXCEPT ![w] = frame]
        /\ AddFiles(Dated(frame))
  BY DEF WriteSilver
<1>2. /\ pc[w] = "cleanse" /\ pc'[w] = "conform" /\ runRow'[w] = "RUNNING"
      /\ UNCHANGED <<bronze, quarantine, tables>>
  BY DEF WriteSilver, Goto, BatchInv, TypeOK, WrittenInv, RowOpen
<1>3. frame \subseteq Versions /\ silverTxn'[w] = frame
  BY <1>1 DEF Good, BatchInv, TypeOK
<1>4. \A v \in frame : silver'[v] > 0
  BY <1>1, <1>3, GoodIsDated, SilverGrows DEF BatchInv, TypeOK
<1>5. SilverInv'
  <2>1. Good(w)' = Good(w)
    BY <1>2 DEF Good, Bad
  <2>2. IsDeduplicated(silverTxn'[w], Good(w)')
    BY <1>1, <1>3, <2>1
  <2>3. QED
    BY <1>3, <1>4, <2>2 DEF Serial, SilverInv, IsDeduplicated, OnePerTxn, Good, Bad
<1>6. LandedInv' /\ RejectedInv'
  BY <1>2 DEF Serial, WrittenInv, LandedInv, RejectedInv, Bad
<1>7. RowsAccountedFor' /\ NothingDroppedAfterSilver'
  BY <1>2, NotYetHeld
<1>8. QED
  BY <1>2, <1>5, <1>6, <1>7 DEF Serial, WrittenInv, RowOpen, FactsWritten, SummaryWritten

\* A later step leaves bronze, quarantine, silver and the run's frames as they are.
LEMMA LaterKeeps ==
  ASSUME Serial, WrittenInv, NEW w \in Runs, pc[w] \in {"conform", "gold"},
         pc'[w] \in {"gold", "written"},
         UNCHANGED <<bronze, quarantine, silver, tables, silverTxn, runRow>>
  PROVE  /\ RowOpen' /\ LandedInv' /\ RejectedInv' /\ SilverInv'
         /\ RowsAccountedFor' /\ NothingDroppedAfterSilver'
<1>1. RowOpen'
  BY DEF Serial, WrittenInv, RowOpen
<1>2. RowsAccountedFor' /\ NothingDroppedAfterSilver'
  BY NotYetHeld
<1>3. LandedInv' /\ RejectedInv'
  BY DEF Serial, WrittenInv, LandedInv, RejectedInv, Bad
<1>4. SilverInv'
  BY DEF Serial, WrittenInv, SilverInv, IsDeduplicated, OnePerTxn, Good, Bad
<1>5. QED
  BY <1>1, <1>2, <1>3, <1>4

LEMMA ConformKeepsWritten ==
  ASSUME Serial, BatchInv, WrittenInv, NEW w \in Runs, ConformAccounts(w) PROVE WrittenInv'
<1>1. /\ pc[w] = "conform" /\ pc'[w] = "gold" /\ at'[w] = 1
      /\ UNCHANGED <<bronze, quarantine, silver, tables, silverTxn, runRow>>
  BY DEF ConformAccounts, Goto, BatchInv, TypeOK, AtInv, locals
<1>2. QED
  BY <1>1, LaterKeeps DEF Serial, WrittenInv, FactsWritten, SummaryWritten

LEMMA GoldKeepsWritten ==
  ASSUME Serial, BatchInv, WrittenInv, NEW w \in Runs, WriteGold(w) PROVE WrittenInv'
<1>1. /\ pc[w] = "gold" /\ at[w] \in 1..3
      /\ UNCHANGED <<bronze, quarantine, silver, tables, silverTxn, runRow>>
  BY DEF WriteGold, BatchInv, TypeOK, locals
<1>2. \/ at[w] < 3 /\ pc'[w] = "gold" /\ at'[w] = at[w] + 1
      \/ at[w] = 3 /\ pc'[w] = "written" /\ at'[w] = 1
  BY <1>1, Orders DEF WriteGold, NextRound, Goto, BatchInv, TypeOK
<1>3. pc'[w] \in {"gold", "written"}
  BY <1>2
<1>4. FactsWritten'
  <2>1. CASE at[w] = 1
    BY <1>2, <2>1 DEF Serial, FactsWritten
  <2>2. CASE at[w] = 2
    BY <1>1, <1>2, <2>2, GoldWrites DEF Serial, FactsWritten, BuildFacts
  <2>3. CASE at[w] = 3
    BY <1>1, <1>2, <2>3, GoldWrites DEF Serial, WrittenInv, FactsWritten, BuildFacts
  <2>4. QED
    BY <1>1, <2>1, <2>2, <2>3
<1>5. SummaryWritten'
  <2>1. CASE at[w] = 3
    <3>1. gold' = [gold EXCEPT !["daily_summary"] = Dated(silverTxn[w])]
      BY <2>1, Orders DEF WriteGold, GoldFrame
    <3>2. gold'.daily_summary = Dated(silverTxn[w])
      BY <3>1 DEF BatchInv, TypeOK
    <3>3. QED
      BY <1>1, <3>2 DEF Serial, SummaryWritten, Dated
  <2>2. CASE at[w] # 3
    BY <1>2, <2>2 DEF Serial, SummaryWritten
  <2>3. QED
    BY <2>1, <2>2
<1>6. QED
  BY <1>1, <1>3, <1>4, <1>5, LaterKeeps DEF WrittenInv

\* What a finished run has written is what it is held against.
LEMMA SucceedKeepsWritten ==
  ASSUME Serial, BatchInv, WrittenInv, NEW w \in Runs, Succeed(w) PROVE WrittenInv'
<1>1. /\ pc[w] = "written" /\ pc'[w] = "idle" /\ at'[w] = 1 /\ runRow'[w] = "SUCCESS"
      /\ UNCHANGED <<bronze, quarantine, silver, gold>>
  BY DEF Succeed, EndProcess, Goto, FinishRun, lake, BatchInv, TypeOK
<1>2. RowOpen' /\ LandedInv' /\ RejectedInv' /\ SilverInv' /\ FactsWritten' /\ SummaryWritten'
  BY <1>1 DEF Serial, RowOpen, LandedInv, RejectedInv, SilverInv, FactsWritten,
              SummaryWritten
<1>3. /\ bronze.transactions = tables[w].transactions
      /\ Bad(w) \subseteq quarantine
      /\ IsDeduplicated(silverTxn[w], Good(w))
      /\ \A v \in silverTxn[w] : silver[v] > 0
      /\ gold.fact_transaction = BuildFacts(silverTxn[w], tables[w].accounts)
      /\ gold.daily_summary = Dated(silverTxn[w])
  BY <1>1 DEF WrittenInv, LandedInv, RejectedInv, SilverInv, FactsWritten, SummaryWritten
<1>4. RowsAccountedFor'
  <2> SUFFICES ASSUME NEW v \in bronze.transactions, v \notin quarantine
               PROVE  \E f \in gold.fact_transaction :
                         Txn(f.version) = Txn(v) /\ v.stamp <= f.version.stamp
    BY <1>1 DEF RowsAccountedFor
  <2>1. v \in Good(w)
    BY <1>3 DEF Good
  <2>2. PICK u \in silverTxn[w] : Txn(u) = Txn(v) /\ v.stamp <= u.stamp
    BY <1>3, <2>1 DEF IsDeduplicated
  <2>3. PICK f \in gold.fact_transaction : f.version = u
    <3> DEFINE f == [version |-> u,
                     accountSk |-> IF Account(u) \in tables[w].accounts THEN Account(u)
                                                                        ELSE Null]
    <3>1. f \in gold.fact_transaction
      BY <1>3 DEF BuildFacts
    <3>2. f.version = u
      OBVIOUS
    <3>3. QED
      BY <3>1, <3>2
  <2>4. QED
    BY <2>2, <2>3
<1>5. NothingDroppedAfterSilver'
  <2> SUFFICES ASSUME NEW f \in gold.fact_transaction
               PROVE  silver[f.version] > 0 /\ f.version \in gold.daily_summary
    BY <1>1 DEF NothingDroppedAfterSilver
  <2>1. f.version \in silverTxn[w]
    BY <1>3 DEF BuildFacts
  <2>2. Dated(silverTxn[w]) = silverTxn[w]
    BY <1>3, GoodIsDated DEF IsDeduplicated
  <2>3. QED
    BY <1>3, <2>1, <2>2
<1>6. QED
  BY <1>2, <1>4, <1>5 DEF WrittenInv

LEMMA InterruptionKeepsWritten ==
  ASSUME Serial, BatchInv, WrittenInv, NEW w \in Runs, Fail(w) \/ Crash(w) PROVE WrittenInv'
<1>1. pc'[w] = "idle" /\ at'[w] = 1 /\ runRow'[w] # "SUCCESS"
  BY DEF Fail, Crash, EndProcess, Goto, FinishRun, BatchInv, TypeOK, WrittenInv, RowOpen
<1>2. RowsAccountedFor' /\ NothingDroppedAfterSilver'
  BY <1>1, NotYetHeld
<1>3. QED
  BY <1>1, <1>2 DEF Serial, WrittenInv, RowOpen, LandedInv, RejectedInv, SilverInv,
                    FactsWritten, SummaryWritten

LEMMA WrittenStep ==
  ASSUME Serial PROVE BatchInv /\ WrittenInv /\ [Next]_vars => WrittenInv'
<1> SUFFICES ASSUME BatchInv, WrittenInv, [Next]_vars PROVE WrittenInv'
  OBVIOUS
<1>1. CASE SourceNext
  BY <1>1, SourceKeepsWritten
<1>2. ASSUME NEW w \in Runs, Proceed(w) \/ Fail(w) \/ Crash(w)
      PROVE  WrittenInv'
  <2>1. CASE StartRun(w)
    BY <2>1, StartKeepsWritten
  <2>2. CASE Extract(w)
    BY <2>2, ExtractKeepsWritten
  <2>3. CASE LandBronze(w)
    BY <2>3, LandKeepsWritten
  <2>4. CASE Quarantine(w)
    BY <2>4, QuarantineKeepsWritten
  <2>5. CASE WriteSilver(w)
    BY <2>5, SilverKeepsWritten
  <2>6. CASE ConformAccounts(w)
    BY <2>6, ConformKeepsWritten
  <2>7. CASE WriteGold(w)
    BY <2>7, GoldKeepsWritten
  <2>8. CASE Succeed(w)
    BY <2>8, SucceedKeepsWritten
  <2>9. CASE Fail(w) \/ Crash(w)
    BY <2>9, InterruptionKeepsWritten
  <2>10. QED
    BY <1>2, <2>1, <2>2, <2>3, <2>4, <2>5, <2>6, <2>7, <2>8, <2>9 DEF Proceed
<1>3. CASE UNCHANGED vars
  <2>1. UNCHANGED <<bronze, quarantine, silver, gold, tables, silverTxn, pc, at, runRow>>
    BY <1>3 DEF vars, lake, locals, control
  <2>2. QED
    BY <2>1 DEF WrittenInv, RowOpen, LandedInv, RejectedInv, SilverInv, FactsWritten,
              SummaryWritten, RowsAccountedFor, NothingDroppedAfterSilver, Complete, Bad, Good
<1>4. QED
  BY <1>1, <1>2, <1>3 DEF Next

-----------------------------------------------------------------------------
LEMMA BatchInvariant == ASSUME Serial PROVE Spec => []BatchInv
<1>1. BatchInv /\ [Next]_vars => BatchInv'
  BY BatchStep
<1>2. QED
  BY BatchInit, <1>1, PTL DEF Spec

\* Every reachable state of the batch pipeline is well typed, however its runs end.
THEOREM BatchTypeCorrect == ASSUME Serial PROVE Spec => []TypeOK
<1>1. BatchInv => TypeOK
  BY DEF BatchInv
<1>2. QED
  BY <1>1, BatchInvariant, PTL

\* local_batch_pipeline.py's extraction order, facts first, and its writing order,
\* dimensions first, give referential integrity: whatever the source's writers do
\* meanwhile and wherever a run ends, a fact's account is in the dimension.
THEOREM BatchFactsResolve == ASSUME Serial PROVE Spec => []FactsResolve
<1>1. BatchInv => FactsResolve
  BY DEF BatchInv, FactsInv, FactsResolve
<1>2. QED
  BY <1>1, BatchInvariant, PTL

LEMMA WrittenInvariant == ASSUME Serial PROVE Spec => []WrittenInv
<1>1. BatchInv /\ WrittenInv /\ [Next]_vars => WrittenInv'
  BY WrittenStep
<1>2. QED
  BY WrittenInit, <1>1, BatchInvariant, PTL DEF Spec

\* local_batch_pipeline.py's "Bad rows are split out to the quarantine zone": when a
\* run has ended well, every transaction it landed in bronze is in quarantine with its
\* row, or in the fact table in a version that is not older, whatever was interrupted
\* before it and whatever the source did meanwhile.
THEOREM BatchRowsAccountedFor == ASSUME Serial PROVE Spec => []RowsAccountedFor
<1>1. WrittenInv => RowsAccountedFor
  BY DEF WrittenInv
<1>2. QED
  BY <1>1, WrittenInvariant, PTL

\* test_pipeline.py:18's count of facts and silver rows: the partitioning of silver and
\* the grouping of the daily summary drop no row that the quality rules let through.
THEOREM BatchNothingDropped == ASSUME Serial PROVE Spec => []NothingDroppedAfterSilver
<1>1. WrittenInv => NothingDroppedAfterSilver
  BY DEF WrittenInv
<1>2. QED
  BY <1>1, WrittenInvariant, PTL
==============================================================================
