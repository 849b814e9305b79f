------------------------------ MODULE RunStore ------------------------------
(***************************************************************************)
(* MetadataStore's pipeline_run rows: run() inserts one per execution and  *)
(* finishes it.  Only the newest row of each run slot is kept: nothing     *)
(* reads an older one.                                                     *)
(***************************************************************************)
CONSTANT Runs       \* run slots: how many executions may be alive at once

VARIABLE runRow     \* status column of the newest pipeline_run row of each slot

RunStatus == {"NONE", "RUNNING", "SUCCESS", "FAILED"}

RunInit == runRow = [r \in Runs |-> "NONE"]

\* run(): the INSERT of the RUNNING row.
BeginRun(r) == runRow' = [runRow EXCEPT ![r] = "RUNNING"]

\* _finish_run()
FinishRun(r, status) == runRow' = [runRow EXCEPT ![r] = status]
==============================================================================
