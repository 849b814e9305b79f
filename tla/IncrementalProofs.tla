-------------------------- MODULE IncrementalProofs --------------------------
(***************************************************************************)
(* Proofs about IncrementalPipeline, for every source table, every number  *)
(* of runs and of faults.                                                  *)
(***************************************************************************)
EXTENDS IncrementalPipeline, TLAPS

\* Every step keeps the types: in particular the watermark a run computes is
\* always one that the control store can hold.
LEMMA TypeStep == TypeOK /\ [Next]_vars => TypeOK'
<1> SUFFICES ASSUME TypeOK, [Next]_vars PROVE TypeOK'
  OBVIOUS
<1> USE RowsAssumption, StampAssumption, FaultAssumption
    DEF TypeOK, SourceTypeOK, sourceVars, controlVars, localVars, Marks, NoRows,
        PC, Absent, None, Empty, WatermarkStatus, RunStatus
<1>1. CASE SourceStep
  <2>1. SourceTypeOK'
    BY <1>1 DEF SourceStep, SourceNext, Write, Stamps
  <2>2. QED
    BY <1>1, <2>1 DEF SourceStep
<1>2. ASSUME NEW w \in Runs, StartRun(w) PROVE TypeOK'
  BY <1>2 DEF StartRun, Goto, BeginRun
<1>3. ASSUME NEW w \in Runs, GetWatermark(w) PROVE TypeOK'
  BY <1>3 DEF GetWatermark, Goto, LastSuccess
<1>4. ASSUME NEW w \in Runs, Extract(w) PROVE TypeOK'
  <2>1. df' \in [Runs -> [Rows -> {Absent} \cup Stamps]]
    BY <1>4 DEF Extract
  <2>2. newWm' \in [Runs -> Marks]
    BY <1>4 DEF Extract
  <2>3. QED
    BY <1>4, <2>1, <2>2 DEF Extract, Goto
<1>5. ASSUME NEW w \in Runs, RecordWatermark(w) PROVE TypeOK'
  BY <1>5 DEF RecordWatermark, Goto, BeginWatermark
<1>6. ASSUME NEW w \in Runs, Merge(w) PROVE TypeOK'
  BY <1>6 DEF Merge, Goto
<1>7. ASSUME NEW w \in Runs, SkipMerge(w) PROVE TypeOK'
  BY <1>7 DEF SkipMerge, Goto
<1>8. ASSUME NEW w \in Runs, PromoteWatermark(w) PROVE TypeOK'
  BY <1>8 DEF PromoteWatermark, Goto, CommitWatermark
<1>9. ASSUME NEW w \in Runs, Succeed(w) PROVE TypeOK'
  BY <1>9 DEF Succeed, EndProcess, FinishRun
<1>10. ASSUME NEW w \in Runs, Fail(w) PROVE TypeOK'
  BY <1>10 DEF Fail, EndProcess, FinishRun
<1>11. ASSUME NEW w \in Runs, Crash(w) PROVE TypeOK'
  BY <1>11 DEF Crash, EndProcess
<1>12. CASE UNCHANGED vars
  BY <1>12 DEF vars
<1>13. QED
  BY <1>1, <1>2, <1>3, <1>4, <1>5, <1>6, <1>7, <1>8, <1>9, <1>10, <1>11, <1>12
  DEF Next, Proceed

LEMMA TypeInit == Init => TypeOK
BY RowsAssumption, StampAssumption, FaultAssumption
DEF Init, SourceInit, ControlInit, RunInit, WatermarkInit, TypeOK, SourceTypeOK, Marks, NoRows, PC,
    Absent, None, Empty, WatermarkStatus, RunStatus

\* Type correctness of the pipeline and of the three databases it touches.
THEOREM TypeCorrect == Spec => []TypeOK
BY TypeInit, TypeStep, PTL DEF Spec

-----------------------------------------------------------------------------
\* No row is lost.  Everything a run relies on (the watermark it read is still
\* the committed one, its extraction is complete up to the watermark it will
\* commit) holds because no other run is alive: Serial is used in each step in
\* which a run changes what another could be relying on.

LEMMA SerialInit == Init => SerialInv
BY TypeInit
DEF Init, SourceInit, ControlInit, RunInit, WatermarkInit, SerialInv, ClockBound, StampBound, RunRowRunning,
    WatermarkHeld,
    WindowComplete, WatermarkRecorded, WindowLoaded, NoLostRow, Absent, None, Valid

\* A write in order is stamped above everything extracted or committed so far;
\* a write out of order is no longer promised anything.
LEMMA SerialWrite == SerialInv /\ SourceStep => SerialInv'
<1> SUFFICES ASSUME SerialInv, SourceStep PROVE SerialInv'
  OBVIOUS
<1> USE RowsAssumption, StampAssumption DEF SerialInv
<1>1. TypeOK'
  BY TypeStep DEF Next
<1>2. PICK r0 \in Rows : Write(r0)
  BY DEF SourceStep, SourceNext
<1>3. PICK s \in Stamps :
        /\ s <= clock + 1
        /\ src' = [src EXCEPT ![r0] = s]
        /\ clock' = IF s > clock THEN s ELSE clock
        /\ late' = IF s > clock THEN late \ {r0} ELSE late \cup {r0}
  BY <1>2 DEF Write
<1> USE DEF TypeOK, SourceTypeOK, Stamps, Absent, Marks, None, Empty, SourceStep,
        controlVars, localVars
<1>4. clock <= clock' /\ clock' \in Int /\ s \in Int /\ s <= clock'
  BY <1>3
<1>5. ClockBound'
  BY <1>3, <1>4 DEF ClockBound, StampBound
<1>6. WatermarkHeld'
  BY DEF WatermarkHeld
<1>7. \A r \in Rows \ late' : r = r0 \/ (r \in Rows \ late /\ src'[r] = src[r])
  BY <1>3
<1>8. r0 \in Rows \ late' => src'[r0] > clock
  BY <1>3
<1>9. WindowComplete'
  <2> SUFFICES ASSUME NEW w \in Runs, pc[w] \in {"extracted", "begun", "merged"}
               PROVE  /\ newWm[w] <= clock'
                      /\ \A r \in Rows \ late' :
                            lastSuccess[w] < src'[r] /\ src'[r] <= newWm[w]
                                => df[w][r] = src'[r]
    BY DEF WindowComplete
  <2>1. newWm[w] \in Int /\ newWm[w] <= clock
    BY DEF WindowComplete
  <2>2. ASSUME NEW r \in Rows \ late', src'[r] <= newWm[w] PROVE r \in Rows \ late /\ src'[r] = src[r]
    <3>1. CASE r = r0
      <4>1. src'[r] > clock /\ src'[r] \in Int /\ clock \in Int
        BY <1>3, <1>8, <3>1
      <4>2. QED
        BY <2>1, <2>2, <4>1
    <3>2. QED
      BY <1>7, <3>1
  <2>3. QED
    BY <1>4, <2>1, <2>2 DEF WindowComplete
<1>10. WatermarkRecorded' /\ WindowLoaded' /\ RunRowRunning'
  BY DEF WatermarkRecorded, WindowLoaded, RunRowRunning
<1>11. NoLostRow'
  <2>1. ASSUME NEW r \in Valid \ late', src'[r] <= wm.last
        PROVE  r \in Valid \ late /\ src'[r] = src[r]
    <3>1. r \in Rows
      BY DEF Valid
    <3>2. CASE r = r0
      <4>1. src'[r] > clock /\ src'[r] \in Int /\ clock \in Int /\ wm.last \in Int
        BY <1>3, <1>8, <3>1, <3>2
      <4>2. QED
        BY <2>1, <4>1 DEF ClockBound, StampBound
    <3>3. QED
      BY <1>7, <3>1, <3>2
  <2>2. QED
    BY <2>1 DEF NoLostRow
<1>12. QED
  BY <1>1, <1>5, <1>6, <1>9, <1>10, <1>11

LEMMA SerialExtract ==
  ASSUME Serial, SerialInv, NEW w \in Runs, Extract(w)
  PROVE  SerialInv'
<1> USE RowsAssumption, StampAssumption DEF SerialInv
<1>1. TypeOK'
  BY TypeStep DEF Next, Proceed
<1> USE DEF TypeOK, SourceTypeOK, Stamps, Absent, Marks, None, Empty,
        sourceVars, controlVars, localVars
<1>2. /\ pc[w] = "gotWatermark" /\ pc' = [pc EXCEPT ![w] = "extracted"]
      /\ UNCHANGED <<src, clock, late, wm, runRow, fact, lastSuccess>>
  BY DEF Extract, Goto
<1>3. \A v \in Runs : v = w
  BY DEF Serial
<1>4. \A r \in Rows :
        df'[w][r] = IF r \in Selected(lastSuccess[w]) THEN src[r] ELSE Absent
  BY DEF Extract
<1>5. newWm'[w] \in Marks /\
      (IF Selected(lastSuccess[w]) = {}
         THEN newWm'[w] = IF lastSuccess[w] = None THEN Empty ELSE lastSuccess[w]
         ELSE IsMax(newWm'[w], {src[r] : r \in Selected(lastSuccess[w])}))
  BY DEF Extract, IsNewWatermark
<1>6. lastSuccess[w] = wm.last
  BY <1>2 DEF WatermarkHeld
<1>7. \A r \in Selected(lastSuccess[w]) :
        r \in Rows /\ src[r] > lastSuccess[w] /\ src[r] <= newWm'[w]
  BY <1>5 DEF Selected, IsMax
<1>8. lastSuccess[w] <= newWm'[w] /\ newWm'[w] <= clock
  <2>1. CASE Selected(lastSuccess[w]) = {}
    BY <1>5, <1>6, <2>1 DEF ClockBound, StampBound
  <2>2. CASE Selected(lastSuccess[w]) # {}
    BY <1>5, <1>7, <2>2 DEF IsMax, ClockBound, StampBound
  <2>3. QED
    BY <2>1, <2>2
<1>9. WindowComplete'
  <2>1. \A r \in Rows : df'[w][r] # Absent => df'[w][r] > lastSuccess[w]
    BY <1>4, <1>7
  <2>2. \A r \in Rows : lastSuccess[w] < src[r] /\ src[r] <= newWm'[w]
                            => df'[w][r] = src[r]
    BY <1>4 DEF Selected
  <2>3. QED
    BY <1>2, <1>3, <1>8, <2>1, <2>2 DEF WindowComplete
<1>10. ClockBound' /\ WatermarkHeld' /\ NoLostRow'
  BY <1>2, <1>6, <1>3 DEF ClockBound, StampBound, WatermarkHeld, NoLostRow, Valid
<1>11. WatermarkRecorded' /\ WindowLoaded' /\ RunRowRunning'
  BY <1>2, <1>3 DEF WatermarkRecorded, WindowLoaded, RunRowRunning
<1>12. QED
  BY <1>1, <1>9, <1>10, <1>11

\* The MERGE writes only versions above the watermark, so a row at or below it
\* that was loaded stays loaded.
LEMMA SerialMerge ==
  ASSUME Serial, SerialInv, NEW w \in Runs, Merge(w)
  PROVE  SerialInv'
<1> USE RowsAssumption, StampAssumption DEF SerialInv
<1>1. TypeOK'
  BY TypeStep DEF Next, Proceed
<1> USE DEF TypeOK, SourceTypeOK, Stamps, Absent, Marks, None, Empty,
        sourceVars, controlVars, localVars
<1>2. /\ pc[w] = "begun" /\ pc' = [pc EXCEPT ![w] = "merged"]
      /\ UNCHANGED <<src, clock, late, wm, runRow, lastSuccess, df, newWm>>
  BY DEF Merge, Goto
<1>3. \A v \in Runs : v = w
  BY DEF Serial
<1>4. \A t \in Txns : IF CleanStamps(df[w], t) = {}
                        THEN fact'[t] = fact[t]
                        ELSE IsMax(fact'[t], CleanStamps(df[w], t))
  BY DEF Merge
<1>5. WindowLoaded'
  <2>1. ASSUME NEW r \in Valid, df[w][r] # Absent
        PROVE  fact'[TxnOf[r]] >= df[w][r]
    <3>1. TxnOf[r] \in Txns /\ df[w][r] \in CleanStamps(df[w], TxnOf[r])
      BY <2>1 DEF CleanStamps, Valid
    <3>2. IsMax(fact'[TxnOf[r]], CleanStamps(df[w], TxnOf[r]))
      BY <1>4, <3>1
    <3>3. df[w][r] <= fact'[TxnOf[r]]
      BY <3>1, <3>2 DEF IsMax
    <3>4. df[w][r] \in Int /\ fact'[TxnOf[r]] \in Int
      BY <1>1, <3>1 DEF Valid
    <3>5. QED
      BY <3>3, <3>4
  <2>2. QED
    BY <1>2, <1>3, <2>1 DEF WindowLoaded
<1>6. NoLostRow'
  <2>1. ASSUME NEW r \in Valid \ late, src[r] # Absent, src[r] <= wm.last
        PROVE  fact'[TxnOf[r]] >= src[r]
    <3>1. TxnOf[r] \in Txns /\ fact[TxnOf[r]] >= src[r]
      BY <2>1 DEF NoLostRow, Valid
    <3>2. CASE CleanStamps(df[w], TxnOf[r]) = {}
      BY <1>4, <3>1, <3>2
    <3>3. CASE CleanStamps(df[w], TxnOf[r]) # {}
      <4>1. fact'[TxnOf[r]] \in CleanStamps(df[w], TxnOf[r])
        BY <1>4, <3>1, <3>3 DEF IsMax
      <4>2. PICK q \in Valid : df[w][q] # Absent /\ fact'[TxnOf[r]] = df[w][q]
        BY <4>1 DEF CleanStamps
      <4>3. df[w][q] > wm.last
        BY <1>2, <4>2 DEF WindowComplete, WatermarkHeld, Valid
      <4>4. QED
        BY <2>1, <4>2, <4>3 DEF Valid
    <3>4. QED
      BY <3>2, <3>3
  <2>2. QED
    BY <1>2, <2>1 DEF NoLostRow
<1>7. /\ ClockBound' /\ WatermarkHeld' /\ WindowComplete' /\ WatermarkRecorded'
      /\ RunRowRunning'
  BY <1>2, <1>3
  DEF ClockBound, StampBound, WatermarkHeld, WindowComplete, WatermarkRecorded, RunRowRunning
<1>8. QED
  BY <1>1, <1>5, <1>6, <1>7

\* What is promoted is the watermark this run recorded, and up to it every row
\* is either below the old watermark or was extracted and merged.
LEMMA SerialPromote ==
  ASSUME Serial, SerialInv, NEW w \in Runs, PromoteWatermark(w)
  PROVE  SerialInv' /\ wm'.last = newWm[w] /\ wm'.last >= wm.last
<1> USE RowsAssumption, StampAssumption DEF SerialInv
<1>1. TypeOK'
  BY TypeStep DEF Next, Proceed
<1> USE DEF TypeOK, SourceTypeOK, Stamps, Absent, Marks, None, Empty,
        sourceVars, controlVars, localVars
<1>2. /\ pc[w] = "merged" /\ pc' = [pc EXCEPT ![w] = "committed"]
      /\ UNCHANGED <<src, clock, late, fact, runRow, lastSuccess, df, newWm>>
  BY DEF PromoteWatermark, Goto
<1>3. \A v \in Runs : v = w
  BY DEF Serial
<1>4. wm'.last = newWm[w]
  BY <1>2 DEF PromoteWatermark, CommitWatermark, WatermarkRecorded
<1>5. /\ lastSuccess[w] = wm.last
      /\ lastSuccess[w] <= newWm[w] /\ newWm[w] <= clock
  BY <1>2 DEF WatermarkHeld, WindowComplete
<1>6. NoLostRow'
  <2>1. ASSUME NEW r \in Valid \ late, src[r] # Absent, src[r] <= newWm[w]
        PROVE  fact[TxnOf[r]] >= src[r]
    <3>1. CASE src[r] <= wm.last
      BY <2>1, <3>1 DEF NoLostRow
    <3>2. CASE ~(src[r] <= wm.last)
      <4>1. df[w][r] = src[r]
        BY <1>2, <1>5, <2>1, <3>2 DEF WindowComplete, Valid
      <4>2. QED
        BY <1>2, <2>1, <4>1 DEF WindowLoaded
    <3>3. QED
      BY <3>1, <3>2
  <2>2. QED
    BY <1>2, <1>4, <2>1 DEF NoLostRow
<1>7. ClockBound'
  BY <1>2, <1>4, <1>5 DEF ClockBound, StampBound
<1>8. /\ WatermarkHeld' /\ WindowComplete' /\ WatermarkRecorded' /\ WindowLoaded'
      /\ RunRowRunning'
  BY <1>2, <1>3
  DEF WatermarkHeld, WindowComplete, WatermarkRecorded, WindowLoaded, RunRowRunning
<1>9. wm'.last >= wm.last
  BY <1>4, <1>5
<1>10. QED
  BY <1>1, <1>4, <1>6, <1>7, <1>8, <1>9

\* The remaining steps of a run change only its own locals, its row in
\* pipeline_run, or the value the next commit will promote.
LEMMA SerialLocal ==
  ASSUME Serial, SerialInv, NEW w \in Runs,
         \/ StartRun(w) \/ GetWatermark(w) \/ RecordWatermark(w)
         \/ SkipMerge(w) \/ Succeed(w) \/ Fail(w) \/ Crash(w)
  PROVE  SerialInv' /\ wm'.last = wm.last
<1> USE RowsAssumption, StampAssumption DEF SerialInv
<1>1. TypeOK'
  BY TypeStep DEF Next, Proceed
<1> USE DEF TypeOK, SourceTypeOK, Absent, Marks, sourceVars, controlVars, localVars
<1>2. \A v \in Runs : v = w
  BY DEF Serial
<1>3. UNCHANGED <<src, clock, late, fact>>
  BY DEF StartRun, GetWatermark, RecordWatermark, SkipMerge, Succeed, Fail, Crash
<1>4. wm'.last = wm.last
  BY DEF StartRun, GetWatermark, RecordWatermark, SkipMerge, Succeed, Fail, Crash,
         BeginWatermark
<1>5. ClockBound' /\ NoLostRow'
  BY <1>3, <1>4 DEF ClockBound, StampBound, NoLostRow, Valid
<1>6. RunRowRunning'
  BY <1>1, <1>2 DEF RunRowRunning, StartRun, GetWatermark, RecordWatermark, SkipMerge,
                    Succeed, Fail, Crash, Goto, BeginRun, FinishRun, EndProcess
<1>7. CASE StartRun(w)
  <2>1. pc'[w] = "started"
    BY <1>7 DEF StartRun, Goto
  <2>2. QED
    BY <1>1, <1>2, <1>4, <1>5, <1>6, <2>1
    DEF WatermarkHeld, WindowComplete, WatermarkRecorded, WindowLoaded
<1>8. CASE GetWatermark(w)
  <2>1. pc'[w] = "gotWatermark" /\ lastSuccess'[w] = wm.last
    BY <1>8 DEF GetWatermark, Goto, LastSuccess
  <2>2. QED
    BY <1>1, <1>2, <1>4, <1>5, <1>6, <2>1
    DEF WatermarkHeld, WindowComplete, WatermarkRecorded, WindowLoaded
<1>9. CASE RecordWatermark(w)
  <2>1. /\ pc[w] = "extracted" /\ pc'[w] = "begun"
        /\ wm'.current = newWm[w] /\ wm'.status = "RUNNING"
        /\ UNCHANGED <<lastSuccess, df, newWm>>
    BY <1>9 DEF RecordWatermark, Goto, BeginWatermark
  <2>2. QED
    BY <1>1, <1>2, <1>3, <1>4, <1>5, <1>6, <2>1
    DEF WatermarkHeld, WindowComplete, WatermarkRecorded, WindowLoaded
<1>10. CASE SkipMerge(w)
  <2>1. /\ pc[w] = "begun" /\ pc'[w] = "merged" /\ df[w] = NoRows
        /\ UNCHANGED <<wm, lastSuccess, df, newWm>>
    BY <1>10 DEF SkipMerge, Goto
  <2>2. WindowLoaded'
    BY <1>2, <2>1 DEF WindowLoaded, NoRows, Valid
  <2>3. QED
    BY <1>1, <1>2, <1>3, <1>4, <1>5, <1>6, <2>1, <2>2
    DEF WatermarkHeld, WindowComplete, WatermarkRecorded
<1>11. CASE Succeed(w) \/ Fail(w) \/ Crash(w)
  <2>1. pc'[w] = "idle"
    BY <1>11 DEF Succeed, Fail, Crash, EndProcess
  <2>2. QED
    BY <1>1, <1>2, <1>4, <1>5, <1>6, <2>1
    DEF WatermarkHeld, WindowComplete, WatermarkRecorded, WindowLoaded
<1>12. QED
  BY <1>4, <1>7, <1>8, <1>9, <1>10, <1>11

LEMMA SerialStutter == SerialInv /\ UNCHANGED vars => SerialInv'
BY DEF SerialInv, TypeOK, SourceTypeOK, ClockBound, StampBound, RunRowRunning, WatermarkHeld,
       WindowComplete, WatermarkRecorded, WindowLoaded, NoLostRow, vars, sourceVars, controlVars,
       localVars

LEMMA SerialStep ==
  ASSUME Serial
  PROVE  SerialInv /\ [Next]_vars => SerialInv' /\ wm'.last >= wm.last
<1> SUFFICES ASSUME SerialInv, [Next]_vars PROVE SerialInv' /\ wm'.last >= wm.last
  OBVIOUS
<1>1. wm.last \in Int
  BY StampAssumption DEF SerialInv, TypeOK, Marks, None, Empty, Stamps
<1>2. CASE SourceStep
  BY <1>1, <1>2, SerialWrite DEF SourceStep, controlVars
<1>3. ASSUME NEW w \in Runs, Extract(w) PROVE SerialInv' /\ wm'.last >= wm.last
  <2>1. SerialInv'
    BY <1>3, SerialExtract
  <2>2. wm' = wm
    BY <1>3 DEF Extract, controlVars
  <2>3. QED
    BY <1>1, <2>1, <2>2
<1>4. ASSUME NEW w \in Runs, Merge(w) PROVE SerialInv' /\ wm'.last >= wm.last
  <2>1. SerialInv'
    BY <1>4, SerialMerge
  <2>2. wm' = wm
    BY <1>4 DEF Merge, controlVars
  <2>3. QED
    BY <1>1, <2>1, <2>2
<1>5. ASSUME NEW w \in Runs, PromoteWatermark(w)
      PROVE  SerialInv' /\ wm'.last >= wm.last
  BY <1>5, SerialPromote
<1>6. ASSUME NEW w \in Runs,
             \/ StartRun(w) \/ GetWatermark(w) \/ RecordWatermark(w)
             \/ SkipMerge(w) \/ Succeed(w) \/ Fail(w) \/ Crash(w)
      PROVE  SerialInv' /\ wm'.last >= wm.last
  BY <1>1, <1>6, SerialLocal
<1>7. CASE UNCHANGED vars
  BY <1>1, <1>7, SerialStutter DEF vars, controlVars
<1>8. QED
  BY <1>2, <1>3, <1>4, <1>5, <1>6, <1>7 DEF Next, Proceed

\* metadata.py: as long as runs do not overlap, no row stamped in order is ever
\* left behind by the watermark, whatever runs fail or are killed in between.
THEOREM NoRowIsLost == ASSUME Serial PROVE Spec => []NoLostRow
<1>1. SerialInv => NoLostRow
  BY DEF SerialInv
<1>2. QED
  BY SerialInit, SerialStep, <1>1, PTL DEF Spec

\* Between runs that do not overlap the last successful watermark only grows,
\* although commit_watermark promotes a value it does not check.
THEOREM WatermarkMonotone ==
  ASSUME Serial PROVE Spec => WatermarkNeverRegresses
<1>1. SerialInv /\ [Next]_vars => [wm'.last >= wm.last]_vars
  BY SerialStep
<1>2. QED
  BY SerialInit, SerialStep, <1>1, PTL DEF Spec, WatermarkNeverRegresses

\* A failed run leaves the watermark at the value it read, so that the next run
\* selects its window again.
THEOREM FailureKeepsWindow ==
  ASSUME Serial PROVE Spec => FailedRunRepeatsWindow
<1> DEFINE Repeats ==
      \A w \in Runs :
          pc[w] \notin {"idle", "started"} /\ runRow'[w] = "FAILED"
              => wm'.last = lastSuccess[w]
<1>1. ASSUME SerialInv, [Next]_vars PROVE [Repeats]_vars
  <2> SUFFICES ASSUME NEW w \in Runs, pc[w] \notin {"idle", "started"},
                      runRow'[w] = "FAILED", Next
               PROVE  wm'.last = lastSuccess[w]
    BY <1>1
  <2>1. \A v \in Runs : v = w
    BY DEF Serial
  <2>2. runRow \in [Runs -> RunStatus] /\ pc \in [Runs -> PC]
    BY <1>1 DEF SerialInv, TypeOK
  <2>3. CASE Fail(w)
    <3>1. pc[w] \in {"gotWatermark", "extracted", "begun", "merged"}
      BY <2>3 DEF Fail, PC
    <3>2. QED
      BY <1>1, <2>3, <3>1 DEF Fail, SerialInv, WatermarkHeld
  <2>4. runRow[w] = "RUNNING"
    BY <1>1, <2>2 DEF SerialInv, RunRowRunning
  <2>5. CASE SourceStep
    BY <2>4, <2>5 DEF SourceStep, controlVars
  <2>6. CASE Proceed(w) \/ Crash(w)
    BY <2>2, <2>4, <2>6
    DEF Proceed, StartRun, GetWatermark, Extract, RecordWatermark, Merge, SkipMerge,
        PromoteWatermark, Succeed, Crash, Goto, FinishRun, controlVars
  <2>7. QED
    BY <1>1, <2>1, <2>3, <2>5, <2>6 DEF Next
<1>2. QED
  BY SerialInit, SerialStep, <1>1, PTL DEF Spec, FailedRunRepeatsWindow

-----------------------------------------------------------------------------
\* Stamps that never go back, though they may tie (Lag <= 1).  That the fact
\* table holds nothing but versions of valid rows needs no Serial: it survives
\* any overlap of runs.

LEMMA InOrderInit == Init => InOrderInv
BY TypeInit
DEF Init, SourceInit, InOrderInv, StampBound, ExtractedBehindSource, FactBacked,
    NoRows, Absent

\* A stamp only grows.
LEMMA InOrderWrite ==
  ASSUME Lag <= 1, SourceTypeOK, StampBound, SourceNext
  PROVE  StampBound' /\ \A r \in Rows : src[r] <= src'[r]
<1> USE StampAssumption DEF SourceTypeOK, Stamps, Absent, StampBound
<1>1. PICK r0 \in Rows, s \in Stamps :
        /\ s > clock - Lag
        /\ src' = [src EXCEPT ![r0] = s]
        /\ clock' = IF s > clock THEN s ELSE clock
  BY DEF SourceNext, Write
<1>2. s >= clock /\ clock' = s
  BY <1>1 DEF SourceTypeOK
<1>3. QED
  BY <1>1, <1>2

LEMMA InOrderMerge ==
  ASSUME InOrderInv, NEW w \in Runs, Merge(w)
  PROVE  FactBacked'
<1> USE RowsAssumption DEF InOrderInv, TypeOK, SourceTypeOK
<1>1. UNCHANGED src
  BY DEF Merge, sourceVars
<1>2. SUFFICES ASSUME NEW t \in Txns, fact'[t] # Absent
               PROVE  \E r \in Valid : TxnOf[r] = t /\ src[r] >= fact'[t]
  BY <1>1 DEF FactBacked
<1>3. IF CleanStamps(df[w], t) = {} THEN fact'[t] = fact[t]
                                    ELSE IsMax(fact'[t], CleanStamps(df[w], t))
  BY DEF Merge
<1>4. CASE CleanStamps(df[w], t) = {}
  BY <1>2, <1>3, <1>4 DEF FactBacked
<1>5. CASE CleanStamps(df[w], t) # {}
  <2>1. PICK q \in Valid : TxnOf[q] = t /\ fact'[t] = df[w][q]
    BY <1>3, <1>5 DEF CleanStamps, IsMax
  <2>2. df[w][q] <= src[q] /\ df[w][q] \in Int /\ src[q] \in Int
    BY StampAssumption DEF ExtractedBehindSource, Valid, Stamps, Absent
  <2>3. QED
    BY <2>1, <2>2
<1>6. QED
  BY <1>4, <1>5

LEMMA InOrderStep == ASSUME Lag <= 1 PROVE InOrderInv /\ [Next]_vars => InOrderInv'
<1> SUFFICES ASSUME InOrderInv, [Next]_vars PROVE InOrderInv'
  OBVIOUS
<1> USE DEF InOrderInv
<1>1. TypeOK'
  BY TypeStep
<1>2. CASE SourceStep
  <2>1. StampBound' /\ \A r \in Rows : src[r] <= src'[r]
    BY <1>2, InOrderWrite DEF SourceStep, TypeOK
  <2>2. UNCHANGED <<fact, df>>
    BY <1>2 DEF SourceStep, localVars
  <2>3. \A r \in Rows : src[r] \in Int /\ src'[r] \in Int
    BY <1>1, StampAssumption DEF TypeOK, SourceTypeOK, Stamps, Absent
  <2>4. ExtractedBehindSource'
    BY <2>1, <2>2, <2>3, StampAssumption
    DEF ExtractedBehindSource, TypeOK, Stamps, Absent
  <2>5. FactBacked'
    BY <2>1, <2>2, <2>3, StampAssumption
    DEF FactBacked, TypeOK, Stamps, Absent, Valid
  <2>6. QED
    BY <1>1, <2>1, <2>4, <2>5
<1>3. ASSUME NEW w \in Runs, Extract(w) PROVE InOrderInv'
  <2>1. UNCHANGED <<src, clock, fact>>
    BY <1>3 DEF Extract, sourceVars
  <2>2. ExtractedBehindSource'
    BY <1>3, <2>1, StampAssumption
    DEF Extract, ExtractedBehindSource, TypeOK, SourceTypeOK, Stamps, Absent
  <2>3. QED
    BY <1>1, <2>1, <2>2 DEF StampBound, FactBacked
<1>4. ASSUME NEW w \in Runs, Merge(w) PROVE InOrderInv'
  <2>1. UNCHANGED <<src, clock, df>>
    BY <1>4 DEF Merge, sourceVars, localVars
  <2>2. QED
    BY <1>1, <1>4, <2>1, InOrderMerge DEF StampBound, ExtractedBehindSource
<1>5. ASSUME NEW w \in Runs,
             \/ StartRun(w) \/ GetWatermark(w) \/ RecordWatermark(w)
             \/ SkipMerge(w) \/ PromoteWatermark(w)
      PROVE  InOrderInv'
  <2>1. UNCHANGED <<src, clock, fact, df>>
    BY <1>5 DEF StartRun, GetWatermark, RecordWatermark, SkipMerge,
                PromoteWatermark, sourceVars, localVars
  <2>2. QED
    BY <1>1, <2>1 DEF StampBound, ExtractedBehindSource, FactBacked
<1>6. ASSUME NEW w \in Runs, Succeed(w) \/ Fail(w) \/ Crash(w) PROVE InOrderInv'
  <2>1. UNCHANGED <<src, clock, fact>> /\ df' = [df EXCEPT ![w] = NoRows]
    BY <1>6 DEF Succeed, Fail, Crash, EndProcess, sourceVars
  <2>2. ExtractedBehindSource'
    BY <2>1, StampAssumption
    DEF ExtractedBehindSource, TypeOK, SourceTypeOK, NoRows, Stamps, Absent
  <2>3. QED
    BY <1>1, <2>1, <2>2 DEF StampBound, FactBacked
<1>7. CASE UNCHANGED vars
  BY <1>1, <1>7 DEF vars, sourceVars, localVars, StampBound, ExtractedBehindSource,
                    FactBacked
<1>8. QED
  BY <1>2, <1>3, <1>4, <1>5, <1>6, <1>7 DEF Next, Proceed

\* pipelines/incremental_pipeline.py: rows without an account never reach the
\* fact table and no version is invented, however many runs overlap.
THEOREM FactsAreBacked == ASSUME Lag <= 1 PROVE Spec => []FactBacked
<1>1. InOrderInv => FactBacked
  BY DEF InOrderInv
<1>2. QED
  BY InOrderInit, InOrderStep, <1>1, PTL DEF Spec

-----------------------------------------------------------------------------
\* The fact table never regresses when runs do not overlap: the window of a run
\* that failed after its MERGE is selected again, and what is selected of a
\* transaction includes the row its loaded version came from, or only newer ones.

FollowInv == SerialInv /\ InOrderInv /\ MergeNotOlder

LEMMA FollowInit == Init => FollowInv
<1>1. Init => MergeNotOlder
  BY DEF Init, MergeNotOlder
<1>2. QED
  BY <1>1, SerialInit, InOrderInit DEF FollowInv

LEMMA FollowExtract ==
  ASSUME Serial, FollowInv, NEW w \in Runs, Extract(w)
  PROVE  MergeNotOlder'
<1> USE RowsAssumption, StampAssumption
    DEF FollowInv, SerialInv, TypeOK, SourceTypeOK, Stamps, Absent, Marks, None, Empty
<1>1. /\ UNCHANGED <<src, fact>>
      /\ \A r \in Rows : df'[w][r] = IF r \in Selected(wm.last) THEN src[r] ELSE Absent
  BY DEF Extract, Goto, sourceVars, WatermarkHeld
<1>2. \A v \in Runs : v = w
  BY DEF Serial
<1> SUFFICES ASSUME NEW r \in Valid, df'[w][r] # Absent
             PROVE  \E q \in Valid : /\ TxnOf[q] = TxnOf[r]
                                     /\ df'[w][q] # Absent
                                     /\ df'[w][q] >= fact[TxnOf[r]]
  BY <1>1, <1>2 DEF MergeNotOlder
<1>3. r \in Rows /\ TxnOf[r] \in Txns /\ src[r] # Absent /\ df'[w][r] = src[r]
  BY <1>1 DEF Valid, Selected
<1>4. CASE fact[TxnOf[r]] = Absent
  BY <1>3, <1>4
<1>5. CASE fact[TxnOf[r]] # Absent
  <2>1. PICK q \in Valid : TxnOf[q] = TxnOf[r] /\ src[q] >= fact[TxnOf[r]]
    BY <1>3, <1>5 DEF InOrderInv, FactBacked
  <2>2. q \in Rows /\ src[q] \in Int /\ src[r] \in Int /\ fact[TxnOf[r]] \in Int
        /\ fact[TxnOf[r]] > 0 /\ wm.last \in Int
    BY <1>3, <1>5 DEF Valid
  <2>3. CASE q \in Selected(wm.last)
    BY <1>1, <2>1, <2>2, <2>3
  <2>4. CASE q \notin Selected(wm.last)
    <3>1. src[q] <= wm.last /\ wm.last # None
      BY <2>1, <2>2, <2>4 DEF Selected
    <3>2. r \in Selected(wm.last)
      BY <1>1, <1>3
    <3>3. src[r] > wm.last
      BY <3>1, <3>2 DEF Selected
    <3>4. QED
      BY <1>3, <2>1, <2>2, <3>1, <3>3
  <2>5. QED
    BY <2>3, <2>4
<1>6. QED
  BY <1>4, <1>5

LEMMA FollowStep ==
  ASSUME Serial, Lag <= 1 PROVE FollowInv /\ [Next]_vars => FollowInv'
<1> SUFFICES ASSUME FollowInv, [Next]_vars PROVE MergeNotOlder'
  BY SerialStep, InOrderStep DEF FollowInv
<1> USE DEF FollowInv
<1>1. CASE SourceStep
  BY <1>1 DEF SourceStep, localVars, MergeNotOlder
<1>2. ASSUME NEW w \in Runs, Extract(w) PROVE MergeNotOlder'
  BY <1>2, FollowExtract
<1>3. ASSUME NEW w \in Runs, RecordWatermark(w) PROVE MergeNotOlder'
  <2>1. UNCHANGED <<fact, df>> /\ pc[w] = "extracted"
    BY <1>3 DEF RecordWatermark, Goto, localVars
  <2>2. QED
    BY <1>3, <2>1 DEF MergeNotOlder, Serial
<1>4. ASSUME NEW w \in Runs,
             \/ StartRun(w) \/ GetWatermark(w) \/ Merge(w) \/ SkipMerge(w)
             \/ PromoteWatermark(w) \/ Succeed(w) \/ Fail(w) \/ Crash(w)
      PROVE  MergeNotOlder'
  <2>1. \A v \in Runs : v = w
    BY DEF Serial
  <2>2. pc'[w] \in {"started", "gotWatermark", "merged", "committed", "idle"}
    BY <1>4
    DEF StartRun, GetWatermark, Merge, SkipMerge, PromoteWatermark, Succeed, Fail,
        Crash, Goto, EndProcess, SerialInv, TypeOK
  <2>3. QED
    BY <2>1, <2>2 DEF MergeNotOlder
<1>5. CASE UNCHANGED vars
  BY <1>5 DEF vars, localVars, MergeNotOlder
<1>6. QED
  BY <1>1, <1>2, <1>3, <1>4, <1>5 DEF Next, Proceed

\* No step takes the fact table back, and what a step puts there the source has
\* reached.
LEMMA FactStep ==
  ASSUME Serial, FollowInv, [Next]_vars, NEW t \in Txns
  PROVE  fact'[t] >= fact[t] /\ (fact'[t] = fact[t] \/ fact'[t] <= clock)
<1> USE RowsAssumption, StampAssumption
    DEF FollowInv, SerialInv, TypeOK, SourceTypeOK, Stamps, Absent
<1>1. CASE UNCHANGED fact
  BY <1>1
<1>2. ASSUME NEW w \in Runs, Merge(w)
      PROVE  fact'[t] >= fact[t] /\ (fact'[t] = fact[t] \/ fact'[t] <= clock)
  <2>1. IF CleanStamps(df[w], t) = {} THEN fact'[t] = fact[t]
                                      ELSE IsMax(fact'[t], CleanStamps(df[w], t))
    BY <1>2 DEF Merge
  <2>2. CASE CleanStamps(df[w], t) = {}
    BY <2>1, <2>2
  <2>3. CASE CleanStamps(df[w], t) # {}
    <3>1. PICK r \in Valid : /\ TxnOf[r] = t /\ df[w][r] # Absent
                             /\ fact'[t] = df[w][r]
      BY <2>1, <2>3 DEF CleanStamps, IsMax
    <3>2. PICK q \in Valid : /\ TxnOf[q] = t /\ df[w][q] # Absent
                             /\ df[w][q] >= fact[t]
      BY <1>2, <3>1 DEF Merge, Goto, MergeNotOlder
    <3>3. df[w][q] <= fact'[t]
      BY <2>1, <2>3, <3>2 DEF CleanStamps, IsMax
    <3>4. df[w][r] <= src[r] /\ src[r] <= clock
      BY <3>1 DEF InOrderInv, ExtractedBehindSource, StampBound, Valid
    <3>5. /\ df[w][r] \in Int /\ df[w][q] \in Int /\ src[r] \in Int
          /\ clock \in Int /\ fact[t] \in Int
      BY DEF Valid
    <3>6. QED
      BY <3>1, <3>2, <3>3, <3>4, <3>5
  <2>4. QED
    BY <2>2, <2>3
<1>3. (\E w \in Runs : Merge(w)) \/ UNCHANGED fact
  BY DEF Next, Proceed, SourceStep, StartRun, GetWatermark, Extract, RecordWatermark,
         SkipMerge, PromoteWatermark, Succeed, Fail, Crash, vars
<1>4. QED
  BY <1>1, <1>2, <1>3

\* incremental_pipeline.py: reprocessing a window after a failure is safe.  The
\* MERGE does not compare versions, yet without overlapping runs no transaction
\* ever goes back to an older one.
THEOREM FactMonotone ==
  ASSUME Serial, Lag <= 1 PROVE Spec => FactNeverRegresses
<1>1. FollowInv /\ [Next]_vars => [\A t \in Txns : fact'[t] >= fact[t]]_vars
  BY FactStep
<1>2. QED
  BY FollowInit, FollowStep, <1>1, PTL DEF Spec, FactNeverRegresses

\* The pipeline implements what an incremental load promises.
THEOREM PipelineImplementsReplica ==
  ASSUME Serial, Lag <= 1 PROVE Spec => ReplicaSpec
<1>1. Init => Replica!Init
  BY DEF Init, ControlInit, RunInit, WatermarkInit, SourceInit, None, Absent, Replica!Init,
         Replica!SourceInit, Replica!NoMark, Replica!Absent
<1>2. ASSUME FollowInv, [Next]_vars
      PROVE  [Replica!Next]_(Replica!replicaVars)
  <2> USE <1>2
  <2>1. CASE SourceStep
    BY <2>1 DEF SourceStep, SourceNext, Write, Stamps, controlVars, Replica!Next,
                Replica!SourceStep, Replica!SourceNext, Replica!Write, Replica!Stamps
  <2>2. ASSUME NEW w \in Runs, Merge(w) PROVE Replica!Next
    <3>1. UNCHANGED <<src, clock, late, wm>>
      BY <2>2 DEF Merge, sourceVars, controlVars
    <3>2. fact' \in [Txns -> {Absent} \cup Stamps]
      BY <2>2 DEF Merge
    <3>3. \A t \in Txns : fact[t] <= fact'[t] /\ fact'[t] <= clock
      <4> SUFFICES ASSUME NEW t \in Txns
                   PROVE  fact[t] <= fact'[t] /\ fact'[t] <= clock
        OBVIOUS
      <4>1. fact'[t] >= fact[t] /\ (fact'[t] = fact[t] \/ fact'[t] <= clock)
        BY FactStep
      <4>2. fact[t] <= clock
        <5>1. CASE fact[t] = Absent
          BY <5>1, StampAssumption
          DEF FollowInv, InOrderInv, TypeOK, SourceTypeOK, Stamps, Absent
        <5>2. CASE fact[t] # Absent
          <6>1. PICK r \in Valid : src[r] >= fact[t]
            BY <5>2 DEF FollowInv, InOrderInv, FactBacked
          <6>2. src[r] <= clock
            BY DEF FollowInv, InOrderInv, StampBound, Valid
          <6>3. src[r] \in Int /\ fact[t] \in Int /\ clock \in Int
            BY StampAssumption
            DEF FollowInv, InOrderInv, TypeOK, SourceTypeOK, Stamps, Absent, Valid
          <6>4. QED
            BY <6>1, <6>2, <6>3
        <5>3. QED
          BY <5>1, <5>2
      <4>3. fact[t] \in Int /\ fact'[t] \in Int /\ clock \in Int
        BY <3>2, StampAssumption
        DEF FollowInv, InOrderInv, TypeOK, SourceTypeOK, Stamps, Absent
      <4>4. QED
        BY <4>1, <4>2, <4>3
    <3>4. QED
      BY <3>1, <3>2, <3>3
      DEF Replica!Next, Replica!Load, Replica!Absent, Replica!Stamps, Absent, Stamps
  <2>3. ASSUME NEW w \in Runs, PromoteWatermark(w)
        PROVE  Replica!Next \/ UNCHANGED Replica!replicaVars
    <3>1. UNCHANGED <<src, clock, late, fact>>
      BY <2>3 DEF PromoteWatermark, sourceVars
    <3>2. SerialInv' /\ wm'.last = newWm[w] /\ wm'.last >= wm.last
      BY <2>3, SerialPromote DEF FollowInv
    <3>3. Replica!LoadedUpTo(wm'.last)
      BY <3>1, <3>2 DEF SerialInv, NoLostRow, Valid, Absent, Replica!LoadedUpTo,
                        Replica!Valid, Replica!Absent
    <3>4. /\ wm'.last \in {Absent} \cup Stamps \/ wm'.last = None
          /\ wm'.last \in Int /\ wm.last \in Int /\ (wm'.last = None => wm.last = None)
      BY <3>2, StampAssumption
      DEF FollowInv, SerialInv, TypeOK, Marks, None, Empty, Absent, Stamps
    <3>5. CASE wm'.last = wm.last
      BY <3>1, <3>5 DEF Replica!replicaVars
    <3>6. CASE wm'.last # wm.last
      <4>1. wm'.last \in {Absent} \cup Stamps /\ wm'.last > wm.last
        BY <3>2, <3>4, <3>6
      <4>2. Replica!Advance
        BY <3>1, <3>3, <4>1
        DEF Replica!Advance, Replica!Absent, Replica!Stamps, Absent, Stamps
      <4>3. QED
        BY <4>2 DEF Replica!Next
    <3>7. QED
      BY <3>5, <3>6
  <2>4. ASSUME NEW w \in Runs,
               \/ StartRun(w) \/ GetWatermark(w) \/ Extract(w) \/ RecordWatermark(w)
               \/ SkipMerge(w) \/ Succeed(w) \/ Fail(w) \/ Crash(w)
        PROVE  UNCHANGED Replica!replicaVars
    <3>1. UNCHANGED <<src, clock, late, fact>>
      BY <2>4 DEF StartRun, GetWatermark, Extract, RecordWatermark, SkipMerge,
                  Succeed, Fail, Crash, sourceVars
    <3>2. wm'.last = wm.last
      BY <2>4 DEF StartRun, GetWatermark, Extract, RecordWatermark, SkipMerge,
                  Succeed, Fail, Crash, controlVars, BeginWatermark, FollowInv,
                  SerialInv, TypeOK
    <3>3. QED
      BY <3>1, <3>2 DEF Replica!replicaVars
  <2>5. CASE UNCHANGED vars
    BY <2>5 DEF vars, sourceVars, controlVars, Replica!replicaVars
  <2>6. QED
    BY <2>1, <2>2, <2>3, <2>4, <2>5 DEF Next, Proceed
<1>3. QED
  BY <1>1, <1>2, FollowInit, FollowStep, PTL DEF Spec, ReplicaSpec, Replica!Spec
==============================================================================
