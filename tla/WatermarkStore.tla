--------------------------- MODULE WatermarkStore ---------------------------
(***************************************************************************)
(* MetadataStore: the ONE watermark row of a pipeline and its source       *)
(* table.  Each operation is one SQLite transaction, hence one atomic step *)
(* of whoever calls it: a run of the incremental pipeline, or the tasks of *)
(* the daily state machine.                                                *)
(***************************************************************************)
EXTENDS Integers

VARIABLE wm         \* the watermark row

None  == -1         \* SQL NULL / Python None
Empty == 0          \* the empty string, below every stamp

WatermarkStatus == {"ABSENT", "RUNNING", "SUCCESS"}

WatermarkInit == wm = [last |-> None, current |-> None, status |-> "ABSENT"]

\* get_watermark(): NULL whether the row is missing or was never committed.
LastSuccess == wm.last

\* (Seeded mistake: the watermark is recorded as reached at once.)
BeginWatermarkReached(value) ==
    wm' = [last |-> value, current |-> value, status |-> "RUNNING"]

\* (Seeded mistake: the watermark is put past the newest stamp.)
BeginWatermarkPastEnd(value) ==
    wm' = [wm EXCEPT !.current = value + 1, !.status = "RUNNING"]

\* begin_watermark(): the upsert keeps last_success_value and overwrites the
\* current_run_value of whoever wrote it before.
BeginWatermark(value) ==
    wm' = [wm EXCEPT !.current = value, !.status = "RUNNING"]

\* commit_watermark(): an UPDATE, which does nothing when there is no row.
CommitWatermark ==
    wm' = IF wm.status = "ABSENT"
            THEN wm
            ELSE [wm EXCEPT !.last = wm.current, !.status = "SUCCESS"]
==============================================================================
