----------------------------- MODULE IngestFile -----------------------------
(***************************************************************************)
(* FileIngestor.ingest_file: one file into the bronze zone of one dataset. *)
(* It reads the landing directory twice (checksum, then parse), asks the   *)
(* idempotency ledger once and writes the lake and the ledger in separate  *)
(* steps, so that the partner's uploads, other ingestions and a crash may  *)
(* come between.  The callers (a directory sweep, the SFTP ingestion) add  *)
(* the loop around it.                                                     *)
(*                                                                         *)
(* A file's content is what its sha256 tells apart; Kind says how a reader *)
(* takes it.                                                               *)
(***************************************************************************)
EXTENDS Naturals

CONSTANTS
    Names,          \* file names, numbered in the order sorted() gives them
    Contents,       \* contents a file may have
    Kind,           \* "good", "bad" (empty, malformed, a required column
                    \* missing) or "poison" (the reader raises what read_file
                    \* does not translate: lxml's XMLSyntaxError)
    Workers,        \* processes that ingest into this dataset
    MaxChanges,     \* bound: changes the partner makes to the directory, and
                    \* ingestions begun while another one is under way
    MaxFaults       \* bound: workers interrupted

Missing == "missing"    \* no such file; no such content

ASSUME FileAssumption ==
    /\ Missing \notin Contents
    /\ Names \subseteq Nat \ {0}
    /\ Kind \in [Contents -> {"good", "bad", "poison"}]
    /\ MaxChanges \in Nat /\ MaxFaults \in Nat

VARIABLES
    dir,            \* landing directory: the content of each name, or Missing
    ledger,         \* processed_files: status of each (name, checksum)
    bronze,         \* part-000.parquet of the dataset in the bronze zone
    rejected,       \* part-000.parquet of <dataset>_rejected_files: whose reason
    step,           \* where each worker is in ingest_file
    file,           \* local: the file being ingested
    checksum,       \* local: its checksum (the content it had)
    df,             \* local: the content that was parsed
    outcome,        \* what the last call returned
    written,        \* history: <<name, checksum, content>> that reached bronze:
                    \* whose rows, stamped with which checksum
    overlapped,     \* history: <<name, checksum>> that two calls had in hand at once
    swapped,        \* history: <<name, checksum, content>>: what the partner put in
                    \* the place of a file between its checksum and its call's end
    changes, faults \* bounds

landing == <<dir, swapped>>
stores  == <<ledger, bronze, rejected, written>>
call    == <<step, file, checksum, df, outcome>>
bounds  == <<changes, faults>>
ingestVars == <<landing, stores, overlapped, call, bounds>>

NoFile  == 0

Part   == [name : Names, checksum : Contents, rows : Contents]
NoPart == [name |-> NoFile, checksum |-> Missing, rows |-> Missing]
\* An interrupted write leaves an unreadable part.
Torn   == [name |-> NoFile, checksum |-> Missing, rows |-> "torn"]

Steps == {"idle", "checksum", "ledger", "read", "parsed", "written",
          "bad", "badMarked", "returned"}
Outcomes == {"NONE", "PROCESSED", "SKIPPED_DUPLICATE", "QUARANTINED", "RAISED"}

IngestTypeOK ==
    /\ dir \in [Names -> Contents \cup {Missing}]
    /\ ledger \in [Names \X Contents -> {"NONE", "PROCESSED", "QUARANTINED"}]
    /\ bronze \in Part \cup {NoPart, Torn}
    /\ rejected \in Names \cup {NoFile}
    /\ step \in [Workers -> Steps]
    /\ file \in [Workers -> Names \cup {NoFile}]
    /\ checksum \in [Workers -> Contents \cup {Missing}]
    /\ df \in [Workers -> Contents \cup {Missing}]
    /\ outcome \in [Workers -> Outcomes]
    /\ written \subseteq Names \X Contents \X Contents
    /\ overlapped \subseteq Names \X Contents
    /\ swapped \subseteq Names \X Contents \X Contents
    /\ changes \in 0..MaxChanges
    /\ faults \in 0..MaxFaults

IngestInit ==
    /\ dir = [n \in Names |-> Missing]
    /\ ledger = [f \in Names \X Contents |-> "NONE"]
    /\ bronze = NoPart
    /\ rejected = NoFile
    /\ step = [w \in Workers |-> "idle"]
    /\ file = [w \in Workers |-> NoFile]
    /\ checksum = [w \in Workers |-> Missing]
    /\ df = [w \in Workers |-> Missing]
    /\ outcome = [w \in Workers |-> "NONE"]
    /\ written = {} /\ overlapped = {} /\ swapped = {}
    /\ changes = 0
    /\ faults = 0

-----------------------------------------------------------------------------
\* The calls that have checksummed the file of this name and are not over.
Holders(n) == {w \in Workers : file[w] = n /\ checksum[w] # Missing}

\* The partner uploads a file, replaces it, or takes it away, whoever reads it.
PartnerChange(n) ==
    /\ changes < MaxChanges
    /\ changes' = changes + 1
    /\ \E c \in Contents \cup {Missing} :
        /\ c # dir[n]
        /\ dir' = [dir EXCEPT ![n] = c]
        /\ swapped' = IF c = Missing THEN swapped
                      ELSE swapped \cup {<<n, checksum[w], c>> : w \in Holders(n)}
    /\ UNCHANGED <<stores, overlapped, call, faults>>

\* An ingestion begins, with or without another one under way.
Begin(overlapping) ==
    /\ overlapping => changes < MaxChanges
    /\ changes' = IF overlapping THEN changes + 1 ELSE changes
    /\ UNCHANGED <<landing, stores, overlapped, call, faults>>

-----------------------------------------------------------------------------
\* The ledger (IdempotencyStore).


\* is_file_processed(): a quarantined file is not processed.
IsFileProcessed(n, c) == ledger[<<n, c>>] = "PROCESSED"

\* mark_file(): an upsert, the last status wins.
MarkFile(n, c, status) == ledger' = [ledger EXCEPT ![<<n, c>>] = status]

-----------------------------------------------------------------------------
\* The steps of ingest_file.

\* What the reader of its format makes of a file: good rows, a rejection, or poison.
Holds(n, kind) == dir[n] \in {c \in Contents : Kind[c] = kind}

Goto(w, from, to) == step[w] = from /\ step' = [step EXCEPT ![w] = to]

Return(w, result) ==
    /\ step' = [step EXCEPT ![w] = "returned"]
    /\ outcome' = [outcome EXCEPT ![w] = result]

Call(w, n) ==
    /\ Goto(w, "idle", "checksum")
    /\ file' = [file EXCEPT ![w] = n]
    /\ UNCHANGED <<checksum, df, outcome>>

\* The checksum of a file that is gone is an OSError, returned as QUARANTINED
\* without a trace in the ledger.
ChecksumFile(w) ==
    /\ step[w] = "checksum"
    /\ IF dir[file[w]] = Missing
         THEN Return(w, "QUARANTINED") /\ UNCHANGED checksum
         ELSE /\ Goto(w, "checksum", "ledger")
              /\ checksum' = [checksum EXCEPT ![w] = dir[file[w]]]
              /\ UNCHANGED outcome
    /\ UNCHANGED <<landing, stores, overlapped, file, df, bounds>>

SkipDuplicate(w) ==
    /\ step[w] = "ledger"
    /\ IsFileProcessed(file[w], checksum[w])
    /\ Return(w, "SKIPPED_DUPLICATE")
    /\ UNCHANGED <<landing, stores, overlapped, file, checksum, df, bounds>>

\* The calls past the ledger test that may still mark their file.
Ingesting == {w \in Workers : step[w] \in {"read", "parsed", "written", "bad"}}

\* Another call asked the ledger about this very file before and has not marked it yet.
NoteOverlap(w) ==
    overlapped' = IF \E v \in Ingesting : file[v] = file[w] /\ checksum[v] = checksum[w]
                    THEN overlapped \cup {<<file[w], checksum[w]>>} ELSE overlapped

\* (Seeded mistake: the file is claimed as processed before it is read.)
ClaimBeforeReading(w) ==
    /\ Goto(w, "ledger", "read")
    /\ ~IsFileProcessed(file[w], checksum[w])
    /\ MarkFile(file[w], checksum[w], "PROCESSED")
    /\ NoteOverlap(w)
    /\ UNCHANGED <<landing, bronze, rejected, written, file, checksum, df,
                   outcome, bounds>>

\* (Seeded mistake: the ledger is not asked, or its answer is dropped.)
IngestAnyway(w) ==
    /\ Goto(w, "ledger", "read")
    /\ NoteOverlap(w)
    /\ UNCHANGED <<landing, stores, file, checksum, df, outcome, bounds>>

NotYetProcessed(w) ==
    /\ Goto(w, "ledger", "read")
    /\ ~IsFileProcessed(file[w], checksum[w])
    /\ NoteOverlap(w)
    /\ UNCHANGED <<landing, stores, file, checksum, df, outcome, bounds>>

\* read_file and the required-columns test.  What is parsed is what the file
\* holds now, which need not be what was checksummed.
ReadGood(w) ==
    /\ Goto(w, "read", "parsed")
    /\ Holds(file[w], "good")
    /\ df' = [df EXCEPT ![w] = dir[file[w]]]
    /\ UNCHANGED <<landing, stores, overlapped, file, checksum, outcome, bounds>>

\* File not found, empty, malformed, a required column missing.
ReadBad(w) ==
    /\ Goto(w, "read", "bad")
    /\ dir[file[w]] = Missing \/ Holds(file[w], "bad")
    /\ UNCHANGED <<landing, stores, overlapped, file, checksum, df, outcome, bounds>>

\* An exception that is not a DataForgeError leaves ingest_file; so does the
\* FileNotFoundError of a file that goes after read_file found it there.
ReadRaises(w) ==
    /\ step[w] = "read"
    /\ dir[file[w]] = Missing \/ Holds(file[w], "poison")
    /\ Return(w, "RAISED")
    /\ UNCHANGED <<landing, stores, overlapped, file, checksum, df, bounds>>

MarkQuarantined(w) ==
    /\ Goto(w, "bad", "badMarked")
    /\ MarkFile(file[w], checksum[w], "QUARANTINED")
    /\ UNCHANGED <<landing, bronze, rejected, written, overlapped, file, checksum, df,
                   outcome, bounds>>

\* _quarantine_reason(): the one part of <dataset>_rejected_files is replaced.
QuarantineReason(w) ==
    /\ step[w] = "badMarked"
    /\ Return(w, "QUARANTINED")
    /\ rejected' = file[w]
    /\ UNCHANGED <<landing, ledger, bronze, written, overlapped, file, checksum, df, bounds>>

\* lake.write_parquet without partitions: part-000.parquet is replaced.
WriteBronze(w) ==
    /\ Goto(w, "parsed", "written")
    /\ bronze' = [name |-> file[w], checksum |-> checksum[w], rows |-> df[w]]
    /\ written' = written \cup {<<file[w], checksum[w], df[w]>>}
    /\ UNCHANGED <<landing, ledger, rejected, overlapped, file, checksum, df, outcome, bounds>>

MarkProcessed(w) ==
    /\ step[w] = "written"
    /\ Return(w, "PROCESSED")
    /\ MarkFile(file[w], checksum[w], "PROCESSED")
    /\ UNCHANGED <<landing, bronze, rejected, written, overlapped, file, checksum, df, bounds>>

IngestStep(w) ==
    \/ ChecksumFile(w)
    \/ SkipDuplicate(w)
    \/ NotYetProcessed(w)
    \/ ReadGood(w)
    \/ ReadBad(w)
    \/ ReadRaises(w)
    \/ MarkQuarantined(w)
    \/ QuarantineReason(w)
    \/ WriteBronze(w)
    \/ MarkProcessed(w)

\* The call's locals go when it ends.
EndCall(w) ==
    /\ step' = [step EXCEPT ![w] = "idle"]
    /\ file' = [file EXCEPT ![w] = NoFile]
    /\ checksum' = [checksum EXCEPT ![w] = Missing]
    /\ df' = [df EXCEPT ![w] = Missing]
    /\ outcome' = [outcome EXCEPT ![w] = "NONE"]

\* The worker is killed, or a write fails (disk full, database locked) and the
\* exception leaves the ingestion.  A parquet write cut short leaves a torn part.
Interrupt(w) ==
    /\ faults < MaxFaults
    /\ faults' = faults + 1
    /\ bronze' \in {bronze} \cup (IF step[w] = "parsed" THEN {Torn} ELSE {})
    /\ EndCall(w)
    /\ UNCHANGED <<landing, ledger, rejected, written, overlapped, changes>>

-----------------------------------------------------------------------------
\* Properties of the call, whoever makes it

\* What a call that checksummed c may find under the name: c, unless the partner put
\* something else there while the call had the file in hand.
HeldAs(n, c, d) == d = c \/ <<n, c, d>> \in swapped

\* Rows stamped with this checksum reached bronze, and they are the file's.
WasWritten(n, c) == \E d \in Contents : <<n, c, d>> \in written /\ HeldAs(n, c, d)

\* idempotency.py: a file is marked PROCESSED only when rows stamped with its checksum
\* reached the bronze zone, since it will never be read again; and these are the rows
\* that were checksummed, or of what the partner put in their place before they were
\* read.  Crashes between the two writes and overlapping calls do not change this.
MarkedWasWritten ==
    \A n \in Names, c \in Contents : IsFileProcessed(n, c) => WasWritten(n, c)


\* What the locals of a call in progress hold.
CallInv ==
    \A w \in Workers :
        /\ step[w] # "idle" => file[w] \in Names
        /\ step[w] \in {"idle", "checksum"} => checksum[w] = Missing
        /\ step[w] \in {"ledger", "read", "parsed", "written", "bad", "badMarked"}
              => checksum[w] \in Contents
        /\ step[w] \in {"parsed", "written"} => df[w] \in Contents
        /\ step[w] = "written" => <<file[w], checksum[w], df[w]>> \in written

\* From the checksum on, the file holds what was checksummed, is gone, or was swapped;
\* so does what was parsed of it.
HeldInv ==
    \A w \in Workers :
        /\ checksum[w] # Missing /\ dir[file[w]] # Missing
              => HeldAs(file[w], checksum[w], dir[file[w]])
        /\ step[w] \in {"parsed", "written"} => HeldAs(file[w], checksum[w], df[w])

\* A file that is marked while a call is past the ledger test was in two hands.
OverlapInv ==
    /\ \A v, w \in Ingesting :
         v # w /\ file[v] = file[w] /\ checksum[v] = checksum[w]
            => <<file[w], checksum[w]>> \in overlapped
    /\ \A w \in Ingesting :
         IsFileProcessed(file[w], checksum[w]) => <<file[w], checksum[w]>> \in overlapped

IngestInv ==
    /\ IngestTypeOK
    /\ CallInv
    /\ HeldInv
    /\ OverlapInv
    /\ MarkedWasWritten
==============================================================================
