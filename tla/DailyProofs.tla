----------------------------- MODULE DailyProofs -----------------------------
(***************************************************************************)
(* Proofs about DailyPipeline, for every length of the source's history.   *)
(* The inductive invariant is DailyInv: from the extraction on, the        *)
(* watermark row holds the window of this execution, and UpdateMetadata is *)
(* reached through Load only.                                              *)
(***************************************************************************)
EXTENDS DailyPipeline, TLAPS

\* The first execution is about to validate the source: nothing is committed.
LEMMA DailyInit == Init => DailyInv
  <1> SUFFICES ASSUME Init PROVE DailyInv
    OBVIOUS
  <1>1. 1 \in 1..MaxSource
    BY SourceAssumption
  <1>2. TypeOK
    <2>1. error \in BOOLEAN /\ routed \in BOOLEAN
      BY Zenon DEF Init
    <2>2. /\ wm \in [last : {None} \cup 1..MaxSource,
                     current : {None} \cup 1..MaxSource, status : WatermarkStatus]
          /\ source \in 1..MaxSource /\ window \in {None} \cup 1..MaxSource
          /\ attempts \in 0..MaxAttempts
      BY <1>1 DEF Init, WatermarkInit, WatermarkStatus, MaxAttempts
    <2>3. /\ at \in Tasks /\ dq \in Results /\ loaded \subseteq 1..MaxSource
      BY DEF Init, Tasks, Results
    <2> QED BY Zenon, <2>1, <2>2, <2>3 DEF TypeOK
  <1>3. WindowRecorded /\ CheckedBeforeLoad /\ LoadedBeforeCommit
    BY DEF Init, WindowRecorded, CheckedBeforeLoad, LoadedBeforeCommit, Behind
  <1>4. CommitAfterLoad
    BY DEF Init, WatermarkInit, CommitAfterLoad
  <1> QED BY <1>2, <1>3, <1>4 DEF DailyInv

\* What a task's work does to the watermark, the window and the loaded windows.
LEMMA EffectTyped ==
  ASSUME TypeOK, NEW task \in Tasks, at = task, Effect(task),
         task \in {"Load", "UpdateMetadata"} => window # None
  PROVE  /\ wm' \in [last : {None} \cup 1..MaxSource,
                     current : {None} \cup 1..MaxSource, status : WatermarkStatus]
         /\ window' \in {None} \cup 1..MaxSource
         /\ loaded' \in SUBSET (1..MaxSource)
  <1>1. CASE task = "Extract"
    BY <1>1 DEF Effect, TypeOK, BeginWatermark, WatermarkStatus
  <1>2. CASE task = "Load"
    BY <1>2 DEF Effect, TypeOK
  <1>3. CASE task = "UpdateMetadata"
    BY <1>3 DEF Effect, TypeOK, CommitWatermark, WatermarkStatus
  <1>4. CASE task \notin {"Extract", "Load", "UpdateMetadata"}
    BY <1>4 DEF Effect, NoEffect, TypeOK
  <1> QED BY <1>1, <1>2, <1>3, <1>4

\* Every step keeps the variables in their types.
LEMMA TypeKept ==
  ASSUME DailyInv, [Next]_vars
  PROVE  TypeOK'
  <1> USE DEF DailyInv
  <1>1. ASSUME NEW task \in Tasks, TaskSucceeds(task) PROVE TypeOK'
    <2>1. task \in {"Load", "UpdateMetadata"} => window # None
      BY <1>1 DEF TaskSucceeds, WindowRecorded, Behind
    <2>2. /\ wm' \in [last : {None} \cup 1..MaxSource,
                      current : {None} \cup 1..MaxSource, status : WatermarkStatus]
          /\ window' \in {None} \cup 1..MaxSource
          /\ loaded' \in SUBSET (1..MaxSource)
      BY <1>1, <2>1, EffectTyped DEF TaskSucceeds
    <2>3. at' \in Tasks \cup {"DataQualityGate", "CaptureError"} \cup Ended
      BY <1>1 DEF TaskSucceeds, NextOf, Tasks, Ended
    <2>4. dq' \in Results /\ attempts' \in 0..MaxAttempts
      BY <1>1 DEF TaskSucceeds, TypeOK, Results, MaxAttempts
    <2> QED BY <1>1, <2>2, <2>3, <2>4 DEF TaskSucceeds, TypeOK
  <1>2. ASSUME NEW task \in Tasks, NEW e \in Errors, TaskFails(task, e) PROVE TypeOK'
    <2>1. task \in {"Load", "UpdateMetadata"} => window # None
      BY <1>2 DEF TaskFails, WindowRecorded, Behind
    <2>2. Effect(task) \/ NoEffect
      BY <1>2 DEF TaskFails
    <2>3. /\ wm' \in [last : {None} \cup 1..MaxSource,
                      current : {None} \cup 1..MaxSource, status : WatermarkStatus]
          /\ window' \in {None} \cup 1..MaxSource
          /\ loaded' \in SUBSET (1..MaxSource)
      <3>1. CASE Effect(task)
        BY <1>2, <2>1, <3>1, EffectTyped DEF TaskFails
      <3>2. CASE NoEffect
        BY <3>2 DEF NoEffect, TypeOK
      <3> QED BY <2>2, <3>1, <3>2
    <2>4. /\ at' \in Tasks \cup {"DataQualityGate", "CaptureError"} \cup Ended
          /\ attempts' \in 0..MaxAttempts
          /\ error' \in BOOLEAN
      <3>1. CASE Retry(task, e)
        <4>1. Retries(task, e) \in 0..3
          BY DEF Retries
        <4> QED BY <3>1, <4>1 DEF Retry, TypeOK, MaxAttempts
      <3>2. CASE Catch(task, e)
        <4>1. attempts' = 0 /\ at' \in {"Aborted", "CaptureError"}
          BY <3>2 DEF Catch
        <4>2. error' \in BOOLEAN
          BY Zenon, <3>2 DEF Catch, TypeOK
        <4> QED BY <4>1, <4>2 DEF MaxAttempts, Ended
      <3> QED BY <1>2, <3>1, <3>2 DEF TaskFails
    <2> QED BY <1>2, <2>3, <2>4 DEF TaskFails, TypeOK
  <1>3. CASE Gate
    BY <1>3 DEF Gate, TypeOK, Tasks, Ended
  <1>4. CASE CaptureError
    BY <1>4 DEF CaptureError, TypeOK, Tasks, Ended
  <1>5. CASE StartExecution
    <2>1. error' \in BOOLEAN /\ routed' \in BOOLEAN
      BY Zenon, <1>5 DEF StartExecution, NewExecution
    <2>2. /\ at' \in Tasks /\ attempts' \in 0..MaxAttempts /\ dq' \in Results
          /\ window' = None
      BY <1>5 DEF StartExecution, NewExecution, Tasks, MaxAttempts, Results
    <2> QED BY Zenon, <1>5, <2>1, <2>2 DEF StartExecution, TypeOK
  <1>6. CASE SourceGrows
    BY <1>6, SourceAssumption DEF SourceGrows, execution, TypeOK
  <1>7. CASE UNCHANGED vars
    BY <1>7 DEF vars, execution, TypeOK
  <1> QED BY <1>1, <1>2, <1>3, <1>4, <1>5, <1>6, <1>7 DEF Next, Step

\* The watermark row is written by Extract and by UpdateMetadata only, so it
\* holds the window of this execution from the one to the other.
LEMMA WindowStaysRecorded ==
  ASSUME DailyInv, [Next]_vars
  PROVE  WindowRecorded' /\ CheckedBeforeLoad' /\ LoadedBeforeCommit'
  <1> USE DEF DailyInv
  <1>1. ASSUME NEW task \in Tasks, TaskSucceeds(task)
        PROVE  WindowRecorded' /\ CheckedBeforeLoad' /\ LoadedBeforeCommit'
    <2>1. CASE task = "Extract"
      <3>1. window' = source /\ wm' = [wm EXCEPT !.current = source, !.status = "RUNNING"]
        BY <1>1, <2>1 DEF TaskSucceeds, Effect, BeginWatermark
      <3>2. at' = "ValidateSchema"
        BY <1>1, <2>1 DEF TaskSucceeds, NextOf
      <3>3. source # None
        BY DEF TypeOK, None
      <3>4. wm'.current = source /\ wm'.status = "RUNNING"
        BY <3>1 DEF TypeOK
      <3> QED
        BY <3>1, <3>2, <3>3, <3>4
        DEF WindowRecorded, CheckedBeforeLoad, LoadedBeforeCommit
    <2>2. CASE task = "Load"
      <3>1. /\ at = "Load" /\ at' = "UpdateMetadata"
            /\ wm' = wm /\ window' = window /\ loaded' = loaded \cup {window}
        BY <1>1, <2>2 DEF TaskSucceeds, Effect, NextOf
      <3> QED
        BY <3>1 DEF WindowRecorded, CheckedBeforeLoad, LoadedBeforeCommit, Behind
    <2>3. CASE task \in {"ValidateSchema", "Transform", "DataQuality"}
      <3>1. /\ at \in Behind /\ at' \in {"Transform", "DataQuality", "DataQualityGate"}
            /\ wm' = wm /\ window' = window
        BY <1>1, <2>3 DEF TaskSucceeds, Effect, NoEffect, NextOf, Behind
      <3>2. at' = "DataQualityGate" => dq' # "none"
        BY <1>1, <2>3 DEF TaskSucceeds, NextOf, Results
      <3> QED
        BY <3>1, <3>2 DEF WindowRecorded, CheckedBeforeLoad, LoadedBeforeCommit
    <2>4. CASE task \in {"ValidateSource", "UpdateMetadata", "Notify"}
      <3>1. at' \in {"Extract", "Success", "Fail"}
        BY <1>1, <2>4 DEF TaskSucceeds, NextOf
      <3> QED
        BY <3>1 DEF WindowRecorded, CheckedBeforeLoad, LoadedBeforeCommit, Behind
    <2> QED BY <2>1, <2>2, <2>3, <2>4 DEF Tasks
  <1>2. ASSUME NEW task \in Tasks, NEW e \in Errors, TaskFails(task, e)
        PROVE  WindowRecorded' /\ CheckedBeforeLoad' /\ LoadedBeforeCommit'
    <2>1. CASE Retry(task, e)
      <3>1. task \in {"ValidateSource", "Extract"} /\ at' = task
        BY <1>2, <2>1 DEF TaskFails, Retry, Retries, TypeOK, MaxAttempts
      <3> QED
        BY <3>1 DEF WindowRecorded, CheckedBeforeLoad, LoadedBeforeCommit, Behind
    <2>2. CASE Catch(task, e)
      <3>1. at' \in {"Aborted", "CaptureError"}
        BY <2>2 DEF Catch
      <3> QED
        BY <3>1 DEF WindowRecorded, CheckedBeforeLoad, LoadedBeforeCommit, Behind
    <2> QED BY <1>2, <2>1, <2>2 DEF TaskFails
  <1>3. CASE Gate
    <2>1. at = "DataQualityGate" /\ wm' = wm /\ window' = window /\ dq' = dq
      BY <1>3 DEF Gate
    <2>2. at' \in {"CaptureError", "Aborted", "Load"}
      BY <1>3 DEF Gate
    <2>3. at' = "Load" => dq \notin {"failed", "missing"}
      BY <1>3 DEF Gate
    <2>4. dq # "none"
      BY <2>1 DEF CheckedBeforeLoad
    <2> QED
      BY <2>1, <2>2, <2>3, <2>4
      DEF WindowRecorded, CheckedBeforeLoad, LoadedBeforeCommit, Behind, TypeOK, Results
  <1>4. CASE CaptureError
    BY <1>4
    DEF CaptureError, WindowRecorded, CheckedBeforeLoad, LoadedBeforeCommit, Behind
  <1>5. CASE StartExecution
    BY <1>5 DEF StartExecution, NewExecution, WindowRecorded, CheckedBeforeLoad,
        LoadedBeforeCommit, Behind
  <1>6. CASE SourceGrows
    BY <1>6 DEF SourceGrows, execution, WindowRecorded, CheckedBeforeLoad,
        LoadedBeforeCommit
  <1>7. CASE UNCHANGED vars
    BY <1>7 DEF vars, execution, WindowRecorded, CheckedBeforeLoad, LoadedBeforeCommit
  <1> QED BY <1>1, <1>2, <1>3, <1>4, <1>5, <1>6, <1>7 DEF Next, Step

\* A commit copies the window that Load has just added to the loaded ones.
LEMMA CommitStaysLoaded ==
  ASSUME DailyInv, [Next]_vars
  PROVE  CommitAfterLoad'
  <1> USE DEF DailyInv
  <1>1. ASSUME NEW task \in Tasks, at = task, Effect(task) \/ NoEffect
        PROVE  CommitAfterLoad'
    <2>1. CASE NoEffect
      BY <2>1 DEF NoEffect, CommitAfterLoad
    <2>2. CASE Effect(task) /\ task = "Extract"
      <3>1. wm' = [wm EXCEPT !.current = source, !.status = "RUNNING"] /\ loaded' = loaded
        BY <2>2 DEF Effect, BeginWatermark
      <3>2. wm'.last = wm.last
        BY <3>1 DEF TypeOK
      <3> QED BY <3>1, <3>2 DEF CommitAfterLoad
    <2>3. CASE Effect(task) /\ task = "Load"
      BY <2>3 DEF Effect, CommitAfterLoad
    <2>4. CASE Effect(task) /\ task = "UpdateMetadata"
      <3>1. /\ wm' = [wm EXCEPT !.last = wm.current, !.status = "SUCCESS"]
            /\ loaded' = loaded
        BY <1>1, <2>4 DEF Effect, CommitWatermark, WindowRecorded, Behind
      <3>2. wm'.last = window
        BY <1>1, <2>4, <3>1 DEF TypeOK, WindowRecorded, Behind
      <3> QED
        BY <1>1, <2>4, <3>1, <3>2 DEF LoadedBeforeCommit, CommitAfterLoad
    <2>5. CASE Effect(task) /\ task \notin {"Extract", "Load", "UpdateMetadata"}
      BY <2>5 DEF Effect, NoEffect, CommitAfterLoad
    <2> QED BY <1>1, <2>1, <2>2, <2>3, <2>4, <2>5
  <1>2. CASE \E task \in Tasks : TaskSucceeds(task)
    BY <1>1, <1>2 DEF TaskSucceeds
  <1>3. CASE \E task \in Tasks, e \in Errors : TaskFails(task, e)
    BY <1>1, <1>3 DEF TaskFails
  <1>4. CASE Gate \/ CaptureError \/ StartExecution \/ SourceGrows \/ UNCHANGED vars
    BY <1>4
    DEF Gate, CaptureError, StartExecution, SourceGrows, vars, CommitAfterLoad
  <1> QED BY <1>2, <1>3, <1>4 DEF Next, Step

LEMMA DailyStep == DailyInv /\ [Next]_vars => DailyInv'
  BY TypeKept, WindowStaysRecorded, CommitStaysLoaded DEF DailyInv

LEMMA DailyInvariant == Spec => []DailyInv
  BY DailyInit, DailyStep, PTL DEF Spec

\* Every reachable state of the daily state machine is well typed.
THEOREM DailyTypeCorrect == Spec => []TypeOK
  <1>1. DailyInv => TypeOK
    BY DEF DailyInv
  <1> QED BY <1>1, DailyInvariant, PTL

\* The committed watermark is always the end of a window that was loaded.
THEOREM DailyCommitAfterLoad == Spec => []CommitAfterLoad
  <1>1. DailyInv => CommitAfterLoad
    BY DEF DailyInv
  <1> QED BY <1>1, DailyInvariant, PTL

\* Nothing is loaded in an execution whose quality checks did not pass.
THEOREM DailyOnlyCheckedIsLoaded == Spec => OnlyCheckedIsLoaded
  <1>1. DailyInv /\ [Next]_vars => [loaded' # loaded => dq = "passed"]_vars
    <2> SUFFICES ASSUME DailyInv, [Next]_vars, loaded' # loaded PROVE dq = "passed"
      OBVIOUS
    <2>1. at = "Load"
      BY DEF Next, Step, TaskSucceeds, TaskFails, Effect, NoEffect, Gate,
          CaptureError, StartExecution, SourceGrows, vars
    <2> QED BY <2>1 DEF DailyInv, CheckedBeforeLoad
  <1> QED BY <1>1, DailyInvariant, PTL DEF Spec, OnlyCheckedIsLoaded
==============================================================================
