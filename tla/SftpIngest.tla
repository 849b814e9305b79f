------------------------------ MODULE SftpIngest ------------------------------
(***************************************************************************)
(* SftpIngestor.ingest: discover the remote files, skip those the ledger   *)
(* has, hand the others to ingest_file and copy what was processed to the  *)
(* archive directory.  The remote directory is the landing directory of    *)
(* IngestFile; the file stays there.                                       *)
(***************************************************************************)
EXTENDS IngestFile

VARIABLES
    phase,          \* where each worker is in the loop of ingest()
    discovered,     \* local: the discovered files not yet done with
    remote,         \* local: the file at hand
    remoteSum,      \* local: its checksum
    archive,        \* archive directory: the content copied under each name
    copied,         \* history: <<name, content>> ever copied into it
    cutOff          \* history: <<name, content>> marked, and the copy cut off

sftpLoop == <<phase, discovered, remote, remoteSum>>
archived == <<archive, copied, cutOff>>
sftpVars == <<ingestVars, sftpLoop, archived>>

Phases == {"idle", "loop", "checked", "ingesting", "archiving"}

SftpTypeOK ==
    /\ IngestTypeOK
    /\ phase \in [Workers -> Phases]
    /\ discovered \in [Workers -> SUBSET Names]
    /\ remote \in [Workers -> Names \cup {NoFile}]
    /\ remoteSum \in [Workers -> Contents \cup {Missing}]
    /\ archive \in [Names -> Contents \cup {Missing}]
    /\ copied \subseteq Names \X Contents
    /\ cutOff \subseteq Names \X Contents

SftpInit ==
    /\ IngestInit
    /\ phase = [w \in Workers |-> "idle"]
    /\ discovered = [w \in Workers |-> {}]
    /\ remote = [w \in Workers |-> NoFile]
    /\ remoteSum = [w \in Workers |-> Missing]
    /\ archive = [n \in Names |-> Missing]
    /\ copied = {} /\ cutOff = {}

\* The loop goes on with the next file.
NextFile(w) ==
    /\ phase' = [phase EXCEPT ![w] = "loop"]
    /\ remote' = [remote EXCEPT ![w] = NoFile]
    /\ remoteSum' = [remoteSum EXCEPT ![w] = Missing]

\* ingest() ends, by returning or by an exception nothing in it catches.
LeaveIngest(w) ==
    /\ phase' = [phase EXCEPT ![w] = "idle"]
    /\ discovered' = [discovered EXCEPT ![w] = {}]
    /\ remote' = [remote EXCEPT ![w] = NoFile]
    /\ remoteSum' = [remoteSum EXCEPT ![w] = Missing]

Discover(w) ==
    /\ phase[w] = "idle"
    /\ phase' = [phase EXCEPT ![w] = "loop"]
    /\ discovered' = [discovered EXCEPT ![w] = {n \in Names : dir[n] # Missing}]
    /\ Begin(\E v \in Workers : phase[v] # "idle")
    /\ UNCHANGED <<remote, remoteSum, archived>>

\* file_checksum() of the next file; one that has gone ends the whole ingestion.
ChecksumRemote(w) ==
    /\ phase[w] = "loop"
    /\ \E n \in discovered[w] :
        /\ \A m \in discovered[w] : n <= m
        /\ IF dir[n] = Missing
             THEN LeaveIngest(w)
             ELSE /\ phase' = [phase EXCEPT ![w] = "checked"]
                  /\ discovered' = [discovered EXCEPT ![w] = @ \ {n}]
                  /\ remote' = [remote EXCEPT ![w] = n]
                  /\ remoteSum' = [remoteSum EXCEPT ![w] = dir[n]]
    /\ UNCHANGED <<ingestVars, archived>>

SkipProcessed(w) ==
    /\ phase[w] = "checked"
    /\ IsFileProcessed(remote[w], remoteSum[w])
    /\ NextFile(w)
    /\ UNCHANGED <<ingestVars, discovered, archived>>

CallIngestFile(w) ==
    /\ phase[w] = "checked"
    /\ ~IsFileProcessed(remote[w], remoteSum[w])
    /\ phase' = [phase EXCEPT ![w] = "ingesting"]
    /\ Call(w, remote[w])
    /\ UNCHANGED <<landing, stores, overlapped, bounds, discovered, remote, remoteSum, archived>>

FileProcessed(w) ==
    /\ phase[w] = "ingesting" /\ outcome[w] = "PROCESSED"
    /\ phase' = [phase EXCEPT ![w] = "archiving"]
    /\ UNCHANGED <<ingestVars, discovered, remote, remoteSum, archived>>

\* shutil.copy2 of what the remote file holds now, over what the archive has
\* under that name.
Copy(n) ==
    /\ archive' = [archive EXCEPT ![n] = dir[n]]
    /\ copied' = copied \cup {<<n, dir[n]>>}

\* (Seeded mistake: every file that was not skipped is archived.)
ArchiveAnyOutcome(w) ==
    /\ phase[w] = "ingesting"
    /\ outcome[w] \in {"SKIPPED_DUPLICATE", "QUARANTINED"}
    /\ EndCall(w)
    /\ NextFile(w)
    /\ Copy(remote[w])
    /\ UNCHANGED <<landing, stores, overlapped, bounds, discovered, cutOff>>

FileNotProcessed(w) ==
    /\ phase[w] = "ingesting"
    /\ outcome[w] \in {"SKIPPED_DUPLICATE", "QUARANTINED"}
    /\ EndCall(w)
    /\ NextFile(w)
    /\ UNCHANGED <<landing, stores, overlapped, bounds, discovered, archived>>

FileRaised(w) ==
    /\ phase[w] = "ingesting" /\ outcome[w] = "RAISED"
    /\ EndCall(w)
    /\ LeaveIngest(w)
    /\ UNCHANGED <<landing, stores, overlapped, bounds, archived>>

\* The ingestion ends; a file that it has marked and not copied is left behind.
LeaveBehind(w) ==
    /\ LeaveIngest(w)
    /\ cutOff' = IF outcome[w] = "PROCESSED"
                    THEN cutOff \cup {<<remote[w], checksum[w]>>} ELSE cutOff
    /\ UNCHANGED <<archive, copied>>

\* (Seeded mistake: an archive that has a file of this name is left alone.)
ArchiveOnce(w) ==
    /\ phase[w] = "archiving"
    /\ EndCall(w)
    /\ CASE dir[remote[w]] = Missing -> LeaveBehind(w)
         [] archive[remote[w]] # Missing -> NextFile(w) /\ UNCHANGED <<discovered, archived>>
         [] OTHER -> Copy(remote[w]) /\ NextFile(w) /\ UNCHANGED <<discovered, cutOff>>
    /\ UNCHANGED <<landing, stores, overlapped, bounds>>

\* A file that has gone before it is copied ends the whole ingestion.
Archive(w) ==
    /\ phase[w] = "archiving"
    /\ EndCall(w)
    /\ IF dir[remote[w]] = Missing
         THEN LeaveBehind(w)
         ELSE Copy(remote[w]) /\ NextFile(w) /\ UNCHANGED <<discovered, cutOff>>
    /\ UNCHANGED <<landing, stores, overlapped, bounds>>

IngestDone(w) ==
    /\ phase[w] = "loop" /\ discovered[w] = {}
    /\ LeaveIngest(w)
    /\ UNCHANGED <<ingestVars, archived>>

InterruptIngest(w) ==
    /\ phase[w] # "idle"
    /\ Interrupt(w)
    /\ LeaveBehind(w)

SftpProceed(w) ==
    \/ Discover(w)
    \/ ChecksumRemote(w)
    \/ SkipProcessed(w)
    \/ CallIngestFile(w)
    \/ IngestStep(w) /\ UNCHANGED <<sftpLoop, archived>>
    \/ FileProcessed(w)
    \/ FileNotProcessed(w)
    \/ FileRaised(w)
    \/ Archive(w)
    \/ IngestDone(w)

SftpNext ==
    \/ \E n \in Names : PartnerChange(n) /\ UNCHANGED <<sftpLoop, archived>>
    \/ \E w \in Workers : SftpProceed(w) \/ InterruptIngest(w)

SftpSpec == SftpInit /\ [][SftpNext]_sftpVars

\* The ingestion is scheduled for ever and goes on unless it is interrupted.
SftpFairSpec == SftpSpec /\ \A w \in Workers : WF_sftpVars(SftpProceed(w))

-----------------------------------------------------------------------------
\* Properties

\* sftp_ingestor.py archives only "processed files", though it copies the remote file as
\* it is after the ingestion: what is in the archive was written to bronze under its
\* checksum and is marked (a second call in hand of the same file may have taken the
\* mark back), or the partner put it in the place of such a file while that was in hand.
ArchivedWasProcessed ==
    \A n \in Names :
        archive[n] # Missing =>
            \E c \in Contents :
                /\ HeldAs(n, c, archive[n])
                /\ WasWritten(n, c)
                /\ IsFileProcessed(n, c) \/ <<n, c>> \in overlapped

\* A copy was made in the ingestion of this file: of its content, or of what the partner
\* put in its place meanwhile.
WasCopied(n, c) == \E d \in Contents : <<n, d>> \in copied /\ HeldAs(n, c, d)

\* sftp_ingestor.py: "archive     move processed files aside": a file that is marked is
\* copied in the same ingestion, since every later one skips it before that step.
\* The only ones that are not are those whose ingestion was interrupted, or that
\* were taken away, between the mark and the copy.
ProcessedIsArchived ==
    (\A w \in Workers : phase[w] = "idle") =>
        \A n \in Names, c \in Contents :
            IsFileProcessed(n, c) => WasCopied(n, c) \/ <<n, c>> \in cutOff
==============================================================================
