---------------------------- MODULE DailyPipeline ----------------------------
(***************************************************************************)
(* The daily Step Functions state machine (daily_pipeline.asl.json): eight *)
(* tasks with their Retry and Catch clauses, the data quality gate, and    *)
(* the failure path.  One execution is alive at a time, and a new one is   *)
(* started when it has ended.                                              *)
(*                                                                         *)
(* Of what the tasks do only what decides about the watermark is kept.     *)
(* The jobs of Transform and Load are in the repository and modelled in    *)
(* GlueJobs; here Load is a window that reaches the gold zone.  The        *)
(* extract and data quality jobs are not: of the first only the watermark  *)
(* it records is kept (UpdateMetadata commits the one that                 *)
(* extract_incremental_by_timestamp begins under its default name), of the *)
(* second only dq_passed.                                                  *)
(***************************************************************************)
EXTENDS WatermarkStore

CONSTANT MaxSource  \* bound: the newest stamp of the source

ASSUME SourceAssumption == MaxSource \in Nat \ {0}

VARIABLES
    source,         \* the newest stamp of the source
    at,             \* the state the execution is in, or how it ended
    attempts,       \* retries of this state so far
    dq,             \* $.data_quality.dq_passed
    error,          \* is there an $.error
    routed,         \* history: has this execution come to Notify
    window,         \* the stamp up to which this execution extracted
    loaded          \* history: the windows that reached the gold zone

execution == <<at, attempts, dq, error, routed, window>>
vars == <<source, wm, execution, loaded>>

Tasks == {"ValidateSource", "Extract", "ValidateSchema", "Transform",
          "DataQuality", "Load", "UpdateMetadata", "Notify"}

\* The tasks that start a Glue job and wait for its end (startJobRun.sync).
GlueJobs == {"Extract", "Transform", "DataQuality", "Load"}

Ended == {"Success", "Fail", "Aborted"}

Results == {"none", "passed", "failed", "missing"}

Errors == {"TaskFailed", "ConcurrentRuns", "Timeout"}

MaxAttempts == 3

TypeOK ==
    /\ source \in 1..MaxSource
    /\ wm \in [last : {None} \cup 1..MaxSource, current : {None} \cup 1..MaxSource,
               status : WatermarkStatus]
    /\ at \in Tasks \cup {"DataQualityGate", "CaptureError"} \cup Ended
    /\ attempts \in 0..MaxAttempts
    /\ dq \in Results
    /\ error \in BOOLEAN
    /\ routed \in BOOLEAN
    /\ window \in {None} \cup 1..MaxSource
    /\ loaded \subseteq 1..MaxSource

NewExecution ==
    /\ at' = "ValidateSource"
    /\ attempts' = 0
    /\ dq' = "none"
    /\ error' = FALSE
    /\ routed' = FALSE
    /\ window' = None

Init ==
    /\ source = 1
    /\ WatermarkInit
    /\ at = "ValidateSource" /\ attempts = 0 /\ dq = "none"
    /\ error = FALSE /\ routed = FALSE /\ window = None
    /\ loaded = {}

\* (Seeded mistake: the watermark is committed before the load.)
NextOfCommitFirst(task) ==
    CASE task = "ValidateSource" -> "Extract"
      [] task = "Extract" -> "ValidateSchema"
      [] task = "ValidateSchema" -> "Transform"
      [] task = "Transform" -> "DataQuality"
      [] task = "DataQuality" -> "UpdateMetadata"
      [] task = "UpdateMetadata" -> "DataQualityGate"
      [] task = "Load" -> "Success"
      [] task = "Notify" -> "Fail"

NextOf(task) ==
    CASE task = "ValidateSource" -> "Extract"
      [] task = "Extract" -> "ValidateSchema"
      [] task = "ValidateSchema" -> "Transform"
      [] task = "Transform" -> "DataQuality"
      [] task = "DataQuality" -> "DataQualityGate"
      [] task = "Load" -> "UpdateMetadata"
      [] task = "UpdateMetadata" -> "Success"
      [] task = "Notify" -> "Fail"

\* How often a state is tried again after this error.
Retries(task, e) ==
    CASE task = "ValidateSource" /\ e # "Timeout" -> 2
      [] task = "Extract" /\ e = "ConcurrentRuns" -> 3
      [] OTHER -> 0

\* The tasks without a Catch clause.
Uncaught == {"UpdateMetadata", "Notify"}

-----------------------------------------------------------------------------
\* What the work of a task does, whether or not its answer arrives.
NoEffect == UNCHANGED <<wm, window, loaded>>

Effect(task) ==
    CASE task = "Extract" ->
            /\ BeginWatermark(source)
            /\ window' = source
            /\ UNCHANGED loaded
      [] task = "Load" ->
            /\ loaded' = loaded \cup {window}
            /\ UNCHANGED <<wm, window>>
      [] task = "UpdateMetadata" ->
            /\ CommitWatermark
            /\ UNCHANGED <<window, loaded>>
      [] OTHER -> NoEffect

\* A task's answer goes to its ResultPath.  Nothing looks at the "ok" that the
\* validation Lambda answers with.
TaskSucceeds(task) ==
    /\ at = task
    /\ Effect(task)
    /\ at' = NextOf(task)
    /\ attempts' = 0
    /\ IF task = "DataQuality"
         THEN dq' \in Results \ {"none"}
         ELSE UNCHANGED dq
    /\ UNCHANGED <<source, error, routed>>

\* (Seeded mistake: the count of the retries starts over.)
RetryUncounted(task, e) ==
    /\ attempts < Retries(task, e)
    /\ attempts' = (attempts + 1) % Retries(task, e)
    /\ UNCHANGED <<at, error>>

Retry(task, e) ==
    /\ attempts < Retries(task, e)
    /\ attempts' = attempts + 1
    /\ UNCHANGED <<at, error>>

\* The Catch clause leaves $.error behind; without one the execution ends here.
Catch(task, e) ==
    /\ attempts >= Retries(task, e)
    /\ attempts' = 0
    /\ IF task \in Uncaught
         THEN at' = "Aborted" /\ UNCHANGED error
         ELSE at' = "CaptureError" /\ error' = TRUE

\* A task fails before its work is done, or after (it times out, or its answer
\* is lost); a Glue job that is already running is not started at all.
TaskFails(task, e) ==
    /\ at = task
    /\ IF e = "ConcurrentRuns"
         THEN task \in GlueJobs /\ NoEffect
         ELSE Effect(task) \/ NoEffect
    /\ Retry(task, e) \/ Catch(task, e)
    /\ UNCHANGED <<source, dq, routed>>

\* (Seeded mistake: the gate lets everything pass.)
GateOpen ==
    /\ at = "DataQualityGate"
    /\ at' = "Load"
    /\ UNCHANGED <<source, wm, attempts, dq, error, routed, window, loaded>>

\* Choice: dq_passed = false goes to CaptureError; a path that is not there is
\* a runtime error, which ends the execution.
Gate ==
    /\ at = "DataQualityGate"
    /\ at' = CASE dq = "failed" -> "CaptureError"
               [] dq = "missing" -> "Aborted"
               [] OTHER -> "Load"
    /\ UNCHANGED <<source, wm, attempts, dq, error, routed, window, loaded>>

\* Pass: its Parameters read $.error; a path that is not there is a runtime
\* error as well.
CaptureError ==
    /\ at = "CaptureError"
    /\ at' = IF error THEN "Notify" ELSE "Aborted"
    /\ routed' = error
    /\ UNCHANGED <<source, wm, attempts, dq, error, window, loaded>>

Step ==
    \/ \E task \in Tasks : TaskSucceeds(task)
    \/ \E task \in Tasks, e \in Errors : TaskFails(task, e)
    \/ Gate
    \/ CaptureError

\* The EventBridge schedule starts the next execution.
StartExecution ==
    /\ at \in Ended
    /\ NewExecution
    /\ UNCHANGED <<source, wm, loaded>>

SourceGrows ==
    /\ source < MaxSource
    /\ source' = source + 1
    /\ UNCHANGED <<wm, execution, loaded>>

Next == Step \/ StartExecution \/ SourceGrows

Spec == Init /\ [][Next]_vars

\* A task answers or fails in the end: Lambda and Glue have timeouts of their own.
FairSpec == Spec /\ WF_vars(Step)

-----------------------------------------------------------------------------
\* Properties

\* validation/handler.py: "commit the watermark after a successful load": the
\* committed watermark is the end of a window that was loaded, whichever tasks
\* of whichever executions failed, timed out after their work, or were retried.
CommitAfterLoad == wm.last \in {None} \cup loaded

\* daily_pipeline.asl.json: "fail the run if critical DQ checks did not pass":
\* nothing reaches the gold zone in an execution whose checks did not pass.
OnlyCheckedIsLoaded == [][loaded' # loaded => dq = "passed"]_vars

\* An execution ends, however often its tasks fail.
Terminates == []<>(at \in Ended)

\* daily_pipeline.asl.json: "any failure routes to a Capture->Notify path": an
\* execution whose data quality checks failed has come to Notify before it ended.
FailedChecksNotified == at \in Ended /\ dq = "failed" => routed
-----------------------------------------------------------------------------
\* Why the watermark follows the load.

Behind == {"ValidateSchema", "Transform", "DataQuality", "DataQualityGate",
           "Load", "UpdateMetadata"}

\* From the extraction on, the watermark row holds this execution's window.
WindowRecorded ==
    at \in Behind =>
        window # None /\ wm.current = window /\ wm.status # "ABSENT"

CheckedBeforeLoad ==
    /\ at = "DataQualityGate" => dq # "none"
    /\ at = "Load" => dq = "passed"

LoadedBeforeCommit == at = "UpdateMetadata" => window \in loaded

DailyInv ==
    /\ TypeOK
    /\ WindowRecorded
    /\ CheckedBeforeLoad
    /\ LoadedBeforeCommit
    /\ CommitAfterLoad
==============================================================================
