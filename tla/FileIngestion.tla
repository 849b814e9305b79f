---------------------------- MODULE FileIngestion ----------------------------
(***************************************************************************)
(* The two loops around ingest_file, the directory sweep and the SFTP      *)
(* ingestion.  A behaviour has one of them, chosen at the start, so that   *)
(* their states do not multiply.                                           *)
(***************************************************************************)
EXTENDS FileSweep, SftpIngest

VARIABLE loopOf             \* which of the two

\* What the SFTP ingestion has beside the call.
pullVars  == <<sftpLoop, archived>>
filesVars == <<ingestVars, loop, pullVars, loopOf>>

FilesInit == Init /\ SftpInit /\ loopOf \in {"ingest_dir", "sftp"}

Sweeps == loopOf = "ingest_dir" /\ UNCHANGED <<pullVars, loopOf>>
Pulls  == loopOf = "sftp" /\ UNCHANGED <<loop, loopOf>>

FilesNext ==
    \/ Next /\ Sweeps
    \/ SftpNext /\ Pulls

FilesSpec == FilesInit /\ [][FilesNext]_filesVars

\* The fairness of FileSweep and of SftpIngest.
FilesFairSpec ==
    /\ FilesSpec
    /\ \A w \in Workers :
         WF_filesVars((Proceed(w) /\ Sweeps) \/ (SftpProceed(w) /\ Pulls))

\* ProcessedIsArchived, of the behaviours that have an archive.
PulledIsArchived == loopOf = "sftp" => ProcessedIsArchived
==============================================================================
