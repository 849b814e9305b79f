------------------------ MODULE IncrementalPipeline ------------------------
(***************************************************************************)
(* The incremental pipeline: watermark extract, transform, MERGE, commit.  *)
(* Each run of run() is a process that touches three databases (control    *)
(* store, source, warehouse) in separate transactions, so other runs, the  *)
(* source's writers and a crash may come between any two of its steps.     *)
(* Nothing in the code keeps two runs apart: Runs bounds how many overlap. *)
(*                                                                         *)
(* A version of a transaction is represented by its updated_at stamp.      *)
(***************************************************************************)
EXTENDS SourceTable, ControlStore

CONSTANT MaxFaults  \* bound: how many runs may fail or be killed

ASSUME FaultAssumption == MaxFaults \in Nat

VARIABLES
    fact,           \* fact_transaction_incr: the version of each transaction
    pc,             \* how far the run in each slot has got
    lastSuccess,    \* local of the run: the watermark it read
    df,             \* local of the run: the rows it extracted, with their stamps
    newWm,          \* local of the run: the watermark it means to advance to
    faults          \* failed and killed runs so far

localVars == <<lastSuccess, df, newWm>>
vars == <<sourceVars, controlVars, fact, pc, localVars, faults>>

Marks == {None, Empty} \cup Stamps
NoRows == [q \in Rows |-> Absent]

PC == {"idle", "started", "gotWatermark", "extracted", "begun", "merged",
       "committed"}

TypeOK ==
    /\ SourceTypeOK
    /\ wm \in [last : Marks, current : Marks, status : WatermarkStatus]
    /\ runRow \in [Runs -> RunStatus]
    /\ fact \in [Txns -> {Absent} \cup Stamps]
    /\ pc \in [Runs -> PC]
    /\ lastSuccess \in [Runs -> Marks]
    /\ df \in [Runs -> [Rows -> {Absent} \cup Stamps]]
    /\ newWm \in [Runs -> Marks]
    /\ faults \in 0..MaxFaults

Init ==
    /\ SourceInit
    /\ ControlInit
    /\ fact = [t \in Txns |-> Absent]
    /\ pc = [w \in Runs |-> "idle"]
    /\ lastSuccess = [w \in Runs |-> None]
    /\ df = [w \in Runs |-> NoRows]
    /\ newWm = [w \in Runs |-> None]
    /\ faults = 0

-----------------------------------------------------------------------------
Goto(w, from, to) == pc[w] = from /\ pc' = [pc EXCEPT ![w] = to]

IsMax(m, S) == m \in S /\ \A x \in S : x <= m

\* (Seeded mistake: the comparison is off by one.)
SelectedAfterNext(last) ==
    {r \in Rows : src[r] # Absent /\ (last = None \/ src[r] > last + 1)}

\* The rows of the SELECT: all of them on the first run, then those stamped
\* strictly after the watermark.
Selected(last) ==
    {r \in Rows : src[r] # Absent /\ (last = None \/ src[r] > last)}

\* (Seeded mistake: an empty extraction forgets the watermark.)
IsNewWatermarkOrEmpty(m, rows, last) ==
    IF rows = {} THEN m = Empty ELSE IsMax(m, {src[r] : r \in rows})

\* The watermark to advance to: the newest stamp extracted, or where we were.
IsNewWatermark(m, rows, last) ==
    IF rows = {}
      THEN m = IF last = None THEN Empty ELSE last
      ELSE IsMax(m, {src[r] : r \in rows})

\* (Seeded mistake: rows without an account are kept.)
UncleanStamps(d, t) == {d[r] : r \in {q \in Rows : TxnOf[q] = t /\ d[q] # Absent}}

\* The stamps of transaction t among the extracted rows that have an account.
CleanStamps(d, t) == {d[r] : r \in {q \in Valid : TxnOf[q] = t /\ d[q] # Absent}}

\* (Seeded mistake: the run row is used as a lock nobody breaks.)
StartRunUnlessRunning(w) ==
    /\ runRow[w] # "RUNNING"
    /\ Goto(w, "idle", "started")
    /\ BeginRun(w)
    /\ UNCHANGED <<sourceVars, wm, fact, localVars, faults>>

\* A run is scheduled: the pipeline is registered and its row is inserted.
StartRun(w) ==
    /\ Goto(w, "idle", "started")
    /\ BeginRun(w)
    /\ UNCHANGED <<sourceVars, wm, fact, localVars, faults>>

GetWatermark(w) ==
    /\ Goto(w, "started", "gotWatermark")
    /\ lastSuccess' = [lastSuccess EXCEPT ![w] = LastSuccess]
    /\ UNCHANGED <<sourceVars, controlVars, fact, df, newWm, faults>>

\* The SELECT, and the watermark computed from its result.
Extract(w) ==
    /\ Goto(w, "gotWatermark", "extracted")
    /\ LET rows == Selected(lastSuccess[w]) IN
        /\ df' = [df EXCEPT ![w] =
                    [r \in Rows |-> IF r \in rows THEN src[r] ELSE Absent]]
        /\ \E m \in Marks :
            /\ IsNewWatermark(m, rows, lastSuccess[w])
            /\ newWm' = [newWm EXCEPT ![w] = m]
    /\ UNCHANGED <<sourceVars, controlVars, fact, lastSuccess, faults>>

RecordWatermark(w) ==
    /\ Goto(w, "extracted", "begun")
    /\ BeginWatermark(newWm[w])
    /\ UNCHANGED <<sourceVars, runRow, fact, localVars, faults>>

\* (Seeded mistake: of a duplicated transaction any row is kept.)
MergeAnyDuplicate(w) ==
    /\ df[w] # NoRows
    /\ Goto(w, "begun", "merged")
    /\ \E f \in [Txns -> {Absent} \cup Stamps] :
        /\ \A t \in Txns : IF CleanStamps(df[w], t) = {}
                             THEN f[t] = fact[t]
                             ELSE f[t] \in CleanStamps(df[w], t)
        /\ fact' = f
    /\ UNCHANGED <<sourceVars, controlVars, localVars, faults>>

\* Drop rows without an account, keep the newest of each transaction, upsert
\* every one of them and commit, whatever version the fact table holds.
Merge(w) ==
    /\ df[w] # NoRows
    /\ Goto(w, "begun", "merged")
    /\ \E f \in [Txns -> {Absent} \cup Stamps] :
        /\ \A t \in Txns : IF CleanStamps(df[w], t) = {}
                             THEN f[t] = fact[t]
                             ELSE IsMax(f[t], CleanStamps(df[w], t))
        /\ fact' = f
    /\ UNCHANGED <<sourceVars, controlVars, localVars, faults>>

\* if not df.empty: an empty extraction goes straight to the commit.
SkipMerge(w) ==
    /\ df[w] = NoRows
    /\ Goto(w, "begun", "merged")
    /\ UNCHANGED <<sourceVars, controlVars, fact, localVars, faults>>

PromoteWatermark(w) ==
    /\ Goto(w, "merged", "committed")
    /\ CommitWatermark
    /\ UNCHANGED <<sourceVars, runRow, fact, localVars, faults>>

\* The run's process ends, and its locals with it.
EndProcess(w) ==
    /\ pc' = [pc EXCEPT ![w] = "idle"]
    /\ lastSuccess' = [lastSuccess EXCEPT ![w] = None]
    /\ df' = [df EXCEPT ![w] = NoRows]
    /\ newWm' = [newWm EXCEPT ![w] = None]

Succeed(w) ==
    /\ pc[w] = "committed"
    /\ FinishRun(w, "SUCCESS")
    /\ EndProcess(w)
    /\ UNCHANGED <<sourceVars, wm, fact, faults>>

\* An exception in the body (source missing, database locked, MERGE rolled
\* back ...): the row is marked FAILED and the exception leaves run().
Fail(w) ==
    /\ faults < MaxFaults
    /\ faults' = faults + 1
    /\ pc[w] \in PC \ {"idle", "committed"}
    /\ FinishRun(w, "FAILED")
    /\ EndProcess(w)
    /\ UNCHANGED <<sourceVars, wm, fact>>

\* The process is killed, or _finish_run itself raises: the row stays RUNNING.
Crash(w) ==
    /\ faults < MaxFaults
    /\ faults' = faults + 1
    /\ pc[w] # "idle"
    /\ EndProcess(w)
    /\ UNCHANGED <<sourceVars, controlVars, fact>>

\* The steps a run takes when nothing goes wrong.
Proceed(w) ==
    \/ StartRun(w)
    \/ GetWatermark(w)
    \/ Extract(w)
    \/ RecordWatermark(w)
    \/ Merge(w)
    \/ SkipMerge(w)
    \/ PromoteWatermark(w)
    \/ Succeed(w)

SourceStep ==
    /\ SourceNext
    /\ UNCHANGED <<controlVars, fact, pc, localVars, faults>>

Next ==
    \/ SourceStep
    \/ \E w \in Runs : Proceed(w) \/ Fail(w) \/ Crash(w)

Spec == Init /\ [][Next]_vars

\* The schedule starts runs again and again, and a started run that is neither
\* killed nor failed goes on to its next statement.
Fairness == \A w \in Runs : WF_vars(Proceed(w))

FairSpec == Spec /\ Fairness
-----------------------------------------------------------------------------
\* Properties

\* metadata.py and incremental_pipeline.py: the watermark advances only after
\* the load, so a row stamped in order at or below the last successful
\* watermark is in the fact table, at that version or a newer one.  Otherwise
\* it is lost: no later extraction selects it.
NoLostRow ==
    \A r \in Valid \ late :
        src[r] # Absent /\ src[r] <= wm.last => fact[TxnOf[r]] >= src[r]

\* The transform step keeps rows without an account out of the fact table, and
\* the MERGE loads source versions only: what the table holds of a transaction
\* is a version that one of its valid rows had, and that this row still has
\* unless it was updated since.
FactBacked ==
    \A t \in Txns :
        fact[t] # Absent =>
            \E r \in Valid : TxnOf[r] = t /\ src[r] >= fact[t]

\* metadata.py, docs/ingestion-patterns.md: "a failed run leaves the watermark
\* untouched so the next run reprocesses the same window".
FailedRunRepeatsWindow ==
    [][\A w \in Runs :
          pc[w] \notin {"idle", "started"} /\ runRow'[w] = "FAILED"
              => wm'.last = lastSuccess[w]]_vars

\* The same promise as it must hold between runs, however the runs before it
\* overlapped: with no run alive, no row below the watermark is missing.
NoRowForgotten == (\A w \in Runs : pc[w] = "idle") => NoLostRow

\* The MERGE is blind to the version it overwrites (no updated_at comparison in
\* its DO UPDATE), yet a reprocessed window never takes a transaction back to
\* an older version.
FactNeverRegresses == [][\A t \in Txns : fact'[t] >= fact[t]]_vars

\* commit_watermark copies whatever value begin_watermark last recorded, yet
\* the last successful watermark never moves back.
WatermarkNeverRegresses == [][wm'.last >= wm.last]_vars

\* What an incremental load promises.
Replica == INSTANCE WatermarkReplica WITH mark <- wm.last

ReplicaSpec == Replica!Spec

\* Once the source stops changing, the runs bring every row stamped in order
\* into the fact table, whatever failed before.
CatchesUp ==
    <>[](\A r \in Valid \ late : fact[TxnOf[r]] >= src[r])
-----------------------------------------------------------------------------
\* Why no row is lost when runs do not overlap, and why the fact table does not
\* regress when stamps are handed out in order.

Serial == \A v, w \in Runs : v = w

StampBound == \A r \in Rows : src[r] <= clock

ClockBound == wm.last <= clock /\ StampBound

\* The row of a live run says so.
RunRowRunning == \A w \in Runs : pc[w] # "idle" => runRow[w] = "RUNNING"

\* Nobody moved the watermark since the run read it.
WatermarkHeld ==
    \A w \in Runs :
        pc[w] \in {"gotWatermark", "extracted", "begun", "merged"}
            => lastSuccess[w] = wm.last

\* The extraction holds the current version of every row stamped in order
\* between the watermark it started from and the one it will commit.
WindowComplete ==
    \A w \in Runs :
        pc[w] \in {"extracted", "begun", "merged"} =>
            /\ lastSuccess[w] <= newWm[w] /\ newWm[w] <= clock
            /\ \A r \in Rows : df[w][r] # Absent => df[w][r] > lastSuccess[w]
            /\ \A r \in Rows \ late :
                  lastSuccess[w] < src[r] /\ src[r] <= newWm[w]
                      => df[w][r] = src[r]

WatermarkRecorded ==
    \A w \in Runs :
        pc[w] \in {"begun", "merged"}
            => wm.current = newWm[w] /\ wm.status # "ABSENT"

WindowLoaded ==
    \A w \in Runs :
        pc[w] = "merged" =>
            \A r \in Valid : df[w][r] # Absent => fact[TxnOf[r]] >= df[w][r]

SerialInv ==
    /\ TypeOK
    /\ ClockBound
    /\ RunRowRunning
    /\ WatermarkHeld
    /\ WindowComplete
    /\ WatermarkRecorded
    /\ WindowLoaded
    /\ NoLostRow

\* A row's stamp only grows, so an extracted version is never ahead of it.
ExtractedBehindSource == \A w \in Runs : \A r \in Rows : df[w][r] <= src[r]

InOrderInv ==
    /\ TypeOK
    /\ StampBound
    /\ ExtractedBehindSource
    /\ FactBacked

\* What a run is about to merge of a transaction is not older than what the
\* fact table holds, even when the table was loaded by a run that then failed.
MergeNotOlder ==
    \A w \in Runs :
        pc[w] \in {"extracted", "begun"} =>
            \A r \in Valid :
                df[w][r] # Absent =>
                    \E q \in Valid :
                        /\ TxnOf[q] = TxnOf[r]
                        /\ df[w][q] # Absent
                        /\ df[w][q] >= fact[TxnOf[r]]
==============================================================================
