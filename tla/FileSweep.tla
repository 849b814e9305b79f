------------------------------ MODULE FileSweep ------------------------------
(***************************************************************************)
(* FileIngestor.ingest_dir: list the directory once, then ingest file by   *)
(* file in name order.  Sweeps are started again and again; nothing keeps  *)
(* two of them apart.                                                      *)
(***************************************************************************)
EXTENDS IngestFile

VARIABLES
    sweeping,       \* whether each worker is in ingest_dir
    todo            \* local: the files of the listing not yet ingested

loop == <<sweeping, todo>>
vars == <<ingestVars, loop>>

TypeOK ==
    /\ IngestTypeOK
    /\ sweeping \in [Workers -> BOOLEAN]
    /\ todo \in [Workers -> SUBSET Names]

Init ==
    /\ IngestInit
    /\ sweeping = [w \in Workers |-> FALSE]
    /\ todo = [w \in Workers |-> {}]

LeaveSweep(w) ==
    /\ sweeping' = [sweeping EXCEPT ![w] = FALSE]
    /\ todo' = [todo EXCEPT ![w] = {}]

\* sorted(): the file of the listing that comes next.
IsNext(w, n) == n \in todo[w] /\ \A m \in todo[w] : n <= m

StartSweep(w) ==
    /\ ~sweeping[w]
    /\ sweeping' = [sweeping EXCEPT ![w] = TRUE]
    /\ todo' = [todo EXCEPT ![w] = {n \in Names : dir[n] # Missing}]
    /\ Begin(\E v \in Workers : sweeping[v])

\* is_file() has turned false: the file is passed over.
PassOver(w) ==
    /\ sweeping[w] /\ step[w] = "idle"
    /\ \E n \in Names :
        /\ IsNext(w, n) /\ dir[n] = Missing
        /\ todo' = [todo EXCEPT ![w] = @ \ {n}]
    /\ UNCHANGED <<ingestVars, sweeping>>

IngestNext(w) ==
    /\ sweeping[w]
    /\ \E n \in Names :
        /\ IsNext(w, n) /\ dir[n] # Missing
        /\ Call(w, n)
        /\ todo' = [todo EXCEPT ![w] = @ \ {n}]
    /\ UNCHANGED <<landing, stores, overlapped, bounds, sweeping>>

FileDone(w) ==
    /\ step[w] = "returned" /\ outcome[w] # "RAISED"
    /\ EndCall(w)
    /\ UNCHANGED <<landing, stores, overlapped, bounds, loop>>

\* Nothing in ingest_dir catches what ingest_file raises.
SweepAborted(w) ==
    /\ step[w] = "returned" /\ outcome[w] = "RAISED"
    /\ EndCall(w)
    /\ LeaveSweep(w)
    /\ UNCHANGED <<landing, stores, overlapped, bounds>>

SweepDone(w) ==
    /\ sweeping[w] /\ todo[w] = {} /\ step[w] = "idle"
    /\ LeaveSweep(w)
    /\ UNCHANGED ingestVars

InterruptSweep(w) ==
    /\ sweeping[w]
    /\ Interrupt(w)
    /\ LeaveSweep(w)

Proceed(w) ==
    \/ StartSweep(w)
    \/ PassOver(w)
    \/ IngestNext(w)
    \/ IngestStep(w) /\ UNCHANGED loop
    \/ FileDone(w)
    \/ SweepAborted(w)
    \/ SweepDone(w)

Next ==
    \/ \E n \in Names : PartnerChange(n) /\ UNCHANGED loop
    \/ \E w \in Workers : Proceed(w) \/ InterruptSweep(w)

Spec == Init /\ [][Next]_vars

\* Sweeps are scheduled for ever and a sweep that is not interrupted goes on.
FairSpec == Spec /\ \A w \in Workers : WF_vars(Proceed(w))

-----------------------------------------------------------------------------
\* Properties

Quiet == \A w \in Workers : ~sweeping[w]

\* docs/ingestion-patterns.md: "the same input is never processed twice".  A second call
\* may write the rows of a file that is already marked PROCESSED, but only when the two
\* had that very file in hand at once; one that asks the ledger after the mark never does,
\* whatever was interrupted, rejected or replaced in between.
ProcessedAgainOnlyInOverlap ==
    [][\A w \in Workers :
          step[w] = "parsed" /\ step'[w] = "written" /\ IsFileProcessed(file[w], checksum[w])
              => <<file[w], checksum[w]>> \in overlapped]_vars

\* A file that was PROCESSED stays so: the last status that is written wins, and a file
\* that disappears under the reader is rejected under the checksum it had when it was
\* good, but this takes back a mark only of a file that two calls had in hand at once.
ProcessedIsFinal ==
    [][\A f \in Names \X Contents :
          ledger[f] = "PROCESSED" => ledger'[f] = "PROCESSED" \/ f \in overlapped]_vars

\* file_ingestor.py: "good rows kept": between sweeps the bronze zone holds the
\* rows of each file that was processed.
ProcessedRowsKept ==
    Quiet => \A n \in Names, c \in Contents :
                IsFileProcessed(n, c) =>
                    /\ bronze \in Part
                    /\ bronze.name = n /\ bronze.rows = c
==============================================================================
