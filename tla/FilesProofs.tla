----------------------------- MODULE FilesProofs -----------------------------
(***************************************************************************)
(* Proofs about ingest_file and the two loops around it, for every         *)
(* directory, every mix of contents, any number of workers at a time and   *)
(* files that are replaced or taken away at any moment.                    *)
(***************************************************************************)
EXTENDS FileIngestion, TLAPS

-----------------------------------------------------------------------------
\* ingest_file: what every step of it preserves, whoever calls it.

LEMMA IngestInitInv == IngestInit => IngestInv
BY FileAssumption
DEF IngestInit, IngestInv, IngestTypeOK, CallInv, HeldInv, OverlapInv, Ingesting,
    MarkedWasWritten, IsFileProcessed, Steps, Outcomes

\* The histories only grow, so what they say of a file stays true.
LEMMA HistoryStays ==
  ASSUME NEW n, NEW c, written \subseteq written', swapped \subseteq swapped'
  PROVE  /\ WasWritten(n, c) => WasWritten(n, c)'
         /\ \A d : HeldAs(n, c, d) => HeldAs(n, c, d)'
BY DEF WasWritten, HeldAs

\* A file that is replaced while a call has it in hand is among the swapped ones.
LEMMA PartnerChangeInv ==
  ASSUME IngestInv, NEW n \in Names, PartnerChange(n) PROVE IngestInv'
<1> USE FileAssumption DEF IngestInv, stores, call
<1>1. PICK c \in Contents \cup {Missing} :
        /\ dir' = [dir EXCEPT ![n] = c]
        /\ swapped' = IF c = Missing THEN swapped
                      ELSE swapped \cup {<<n, checksum[w], c>> : w \in Holders(n)}
  BY DEF PartnerChange
<1>2. /\ UNCHANGED <<ledger, bronze, rejected, written, overlapped, step, file, checksum,
                     df, outcome, faults>>
      /\ changes' \in 0..MaxChanges
  BY DEF PartnerChange, IngestTypeOK
<1>3. swapped \subseteq swapped' /\ swapped' \subseteq Names \X Contents \X Contents
  <2>1. \A w \in Holders(n) : checksum[w] \in Contents
    BY DEF Holders, IngestTypeOK
  <2>2. QED
    BY <1>1, <2>1 DEF IngestTypeOK
<1>4. IngestTypeOK'
  BY <1>1, <1>2, <1>3 DEF IngestTypeOK
<1>5. CallInv' /\ OverlapInv'
  BY <1>2 DEF CallInv, OverlapInv, Ingesting, IsFileProcessed
<1>6. HeldInv'
  <2>1. ASSUME NEW w \in Workers, checksum[w] # Missing, dir'[file[w]] # Missing
        PROVE  HeldAs(file[w], checksum[w], dir[file[w]])'
    <3>1. file[w] \in Names
      BY <2>1 DEF CallInv
    <3>2. CASE file[w] = n
      <4>1. c # Missing /\ w \in Holders(n) /\ dir'[file[w]] = c
        BY <1>1, <2>1, <3>1, <3>2 DEF Holders, IngestTypeOK
      <4>2. <<n, checksum[w], c>> \in swapped'
        BY <1>1, <4>1
      <4>3. QED
        BY <1>2, <3>2, <4>1, <4>2 DEF HeldAs
    <3>3. CASE file[w] # n
      <4>1. dir'[file[w]] = dir[file[w]]
        BY <1>1, <3>1, <3>3 DEF IngestTypeOK
      <4>2. HeldAs(file[w], checksum[w], dir[file[w]])
        BY <2>1, <4>1 DEF HeldInv
      <4>3. QED
        BY <1>2, <1>3, <4>1, <4>2 DEF HeldAs
    <3>4. QED
      BY <3>2, <3>3
  <2>2. ASSUME NEW w \in Workers, step[w] \in {"parsed", "written"}
        PROVE  HeldAs(file[w], checksum[w], df[w])'
    BY <1>2, <1>3, <2>2 DEF HeldInv, HeldAs
  <2>3. QED
    BY <1>2, <2>1, <2>2 DEF HeldInv
<1>7. MarkedWasWritten'
  BY <1>2, <1>3, HistoryStays DEF MarkedWasWritten, IsFileProcessed
<1>8. QED
  BY <1>4, <1>5, <1>6, <1>7

LEMMA BeginKeepsInv ==
  ASSUME IngestInv, NEW busy, Begin(busy) PROVE IngestInv'
<1> USE FileAssumption DEF IngestInv, Begin, landing, stores, call
<1>1. changes' \in 0..MaxChanges
  BY DEF IngestTypeOK
<1>2. IngestTypeOK'
  BY <1>1 DEF IngestTypeOK
<1>3. CallInv' /\ HeldInv'
  BY DEF CallInv, HeldInv, HeldAs
<1>4. OverlapInv' /\ MarkedWasWritten'
  BY DEF OverlapInv, Ingesting, MarkedWasWritten, WasWritten, HeldAs, IsFileProcessed
<1>5. QED
  BY <1>2, <1>3, <1>4

LEMMA CallKeepsInv ==
  ASSUME IngestInv, NEW w \in Workers, NEW n \in Names, Call(w, n),
         UNCHANGED <<landing, stores, overlapped, bounds>>
  PROVE  IngestInv'
<1> USE FileAssumption DEF IngestInv, landing, stores, bounds
<1>1. IngestTypeOK'
  BY DEF IngestTypeOK, Call, Goto, Steps
<1>2. CallInv'
  BY DEF IngestTypeOK, CallInv, Call, Goto
<1>3. HeldInv'
  BY DEF IngestTypeOK, CallInv, HeldInv, HeldAs, Call, Goto
<1>4. OverlapInv' /\ MarkedWasWritten'
  BY DEF IngestTypeOK, OverlapInv, Ingesting, MarkedWasWritten, WasWritten, HeldAs,
         IsFileProcessed, Call, Goto
<1>5. QED
  BY <1>1, <1>2, <1>3, <1>4

\* A call ends, normally or not: only a torn part may be left behind.
LEMMA EndCallKeepsInv ==
  ASSUME IngestInv, NEW w \in Workers, EndCall(w),
         UNCHANGED <<landing, ledger, rejected, written, overlapped, changes>>,
         bronze' \in {bronze, Torn}, faults' \in 0..MaxFaults
  PROVE  IngestInv'
<1> USE FileAssumption DEF IngestInv, landing
<1>1. IngestTypeOK'
  BY DEF IngestTypeOK, EndCall, Steps, Outcomes
<1>2. CallInv'
  BY DEF IngestTypeOK, CallInv, EndCall
<1>3. HeldInv'
  BY DEF IngestTypeOK, HeldInv, HeldAs, EndCall
<1>4. OverlapInv' /\ MarkedWasWritten'
  BY DEF IngestTypeOK, OverlapInv, Ingesting, MarkedWasWritten, WasWritten, HeldAs,
         IsFileProcessed, EndCall
<1>5. QED
  BY <1>1, <1>2, <1>3, <1>4

LEMMA InterruptKeepsInv ==
  ASSUME IngestInv, NEW w \in Workers, Interrupt(w) PROVE IngestInv'
<1>1. faults' \in 0..MaxFaults
  BY FileAssumption DEF Interrupt, IngestInv, IngestTypeOK
<1>2. QED
  BY <1>1, EndCallKeepsInv DEF Interrupt

\* The order of the statements matters: the bronze write comes before the mark.
LEMMA IngestStepInv ==
  ASSUME IngestInv, NEW w \in Workers, IngestStep(w) PROVE IngestInv'
<1> USE FileAssumption DEF IngestInv
<1>1. IngestTypeOK'
  <2> USE DEF IngestTypeOK, landing, stores, bounds, Goto, Return, Steps, Outcomes
  <2>1. step[w] # "idle" => file[w] \in Names
    BY DEF CallInv
  <2>2. CASE ChecksumFile(w)
    BY <2>1, <2>2 DEF ChecksumFile
  <2>3. CASE NotYetProcessed(w)
    <3>1. step[w] = "ledger" /\ <<file[w], checksum[w]>> \in Names \X Contents
      BY <2>3 DEF NotYetProcessed, CallInv
    <3>2. overlapped' \subseteq Names \X Contents
      BY <2>3, <3>1 DEF NotYetProcessed, NoteOverlap
    <3>3. QED
      BY <2>3, <3>2 DEF NotYetProcessed
  <2>4. CASE ReadGood(w)
    BY <2>4 DEF ReadGood, Holds
  <2>5. CASE WriteBronze(w)
    <3>1. /\ step[w] = "parsed" /\ file[w] \in Names /\ checksum[w] \in Contents
          /\ df[w] \in Contents
      BY <2>5 DEF WriteBronze, CallInv
    <3>2. QED
      BY <2>5, <3>1 DEF WriteBronze, Part
  <2>6. CASE \/ SkipDuplicate(w) \/ ReadBad(w) \/ ReadRaises(w) \/ QuarantineReason(w)
    BY <2>1, <2>6 DEF SkipDuplicate, ReadBad, ReadRaises, QuarantineReason
  <2>7. CASE MarkQuarantined(w) \/ MarkProcessed(w)
    BY <2>7 DEF MarkQuarantined, MarkProcessed, MarkFile
  <2>8. QED
    BY <2>2, <2>3, <2>4, <2>5, <2>6, <2>7 DEF IngestStep
<1>2. CallInv'
  <2> USE DEF IngestTypeOK, landing, stores, bounds, Goto, Return, CallInv
  <2>1. CASE ChecksumFile(w)
    BY <2>1 DEF ChecksumFile
  <2>2. CASE ReadGood(w)
    BY <2>2 DEF ReadGood, Holds
  <2>3. CASE WriteBronze(w)
    BY <2>3 DEF WriteBronze
  <2>4. CASE SkipDuplicate(w) \/ NotYetProcessed(w) \/ ReadBad(w) \/ ReadRaises(w)
    BY <2>4 DEF SkipDuplicate, NotYetProcessed, ReadBad, ReadRaises
  <2>5. CASE MarkQuarantined(w) \/ QuarantineReason(w) \/ MarkProcessed(w)
    BY <2>5 DEF MarkQuarantined, QuarantineReason, MarkProcessed
  <2>6. QED
    BY <2>1, <2>2, <2>3, <2>4, <2>5 DEF IngestStep
<1>3. HeldInv'
  <2> USE DEF IngestTypeOK, landing, stores, bounds, Goto, Return, HeldInv, HeldAs
  <2>1. CASE ChecksumFile(w)
    BY <2>1 DEF ChecksumFile
  <2>2. CASE ReadGood(w)
    BY <2>2 DEF ReadGood, Holds, CallInv
  <2>3. CASE ~ChecksumFile(w) /\ ~ReadGood(w)
    BY <2>3 DEF IngestStep, SkipDuplicate, NotYetProcessed, ReadBad, ReadRaises,
                MarkQuarantined, QuarantineReason, WriteBronze, MarkProcessed
  <2>4. QED
    BY <2>1, <2>2, <2>3
<1>4. OverlapInv'
  <2> USE DEF IngestTypeOK, landing, stores, bounds, Goto, Return, OverlapInv, Ingesting,
              IsFileProcessed
  <2>1. CASE ChecksumFile(w)
    BY <2>1 DEF ChecksumFile
  <2>2. CASE NotYetProcessed(w)
    BY <2>2 DEF NotYetProcessed, NoteOverlap
  <2>3. CASE SkipDuplicate(w) \/ ReadGood(w) \/ ReadBad(w) \/ ReadRaises(w)
    BY <2>3 DEF SkipDuplicate, ReadGood, ReadBad, ReadRaises
  <2>4. CASE QuarantineReason(w) \/ WriteBronze(w)
    BY <2>4 DEF QuarantineReason, WriteBronze
  <2>5. CASE MarkQuarantined(w) \/ MarkProcessed(w)
    <3>1. /\ w \in Ingesting /\ Ingesting' \subseteq Ingesting /\ w \notin Ingesting'
          /\ UNCHANGED <<file, checksum, overlapped>>
      BY <2>5 DEF MarkQuarantined, MarkProcessed
    <3>2. \A f \in Names \X Contents :
            f # <<file[w], checksum[w]>> => ledger'[f] = ledger[f]
      BY <2>5 DEF MarkQuarantined, MarkProcessed, MarkFile
    <3>3. \A v \in Ingesting : <<file[v], checksum[v]>> \in Names \X Contents
      BY DEF CallInv
    <3>4. ASSUME NEW v \in Ingesting', ledger'[<<file[v], checksum[v]>>] = "PROCESSED"
          PROVE  <<file[v], checksum[v]>> \in overlapped
      <4>1. CASE <<file[v], checksum[v]>> = <<file[w], checksum[w]>>
        BY <3>1, <4>1
      <4>2. CASE <<file[v], checksum[v]>> # <<file[w], checksum[w]>>
        BY <3>1, <3>2, <3>3, <3>4, <4>2
      <4>3. QED
        BY <4>1, <4>2
    <3>5. QED
      BY <3>1, <3>4
  <2>6. QED
    BY <2>1, <2>2, <2>3, <2>4, <2>5 DEF IngestStep
<1>5. MarkedWasWritten'
  <2>1. written \subseteq written' /\ swapped' = swapped
    BY DEF IngestStep, ChecksumFile, SkipDuplicate, NotYetProcessed, ReadGood, ReadBad,
           ReadRaises, MarkQuarantined, QuarantineReason, WriteBronze, MarkProcessed, landing,
           stores
  <2>2. \A n, c : WasWritten(n, c) => WasWritten(n, c)'
    BY <2>1, HistoryStays
  <2>3. CASE MarkProcessed(w)
    <3>1. /\ step[w] = "written" /\ df[w] \in Contents
          /\ <<file[w], checksum[w], df[w]>> \in written
          /\ HeldAs(file[w], checksum[w], df[w])
      BY <2>3 DEF MarkProcessed, CallInv, HeldInv, Return
    <3>2. WasWritten(file[w], checksum[w])
      BY <3>1 DEF WasWritten
    <3>3. QED
      BY <2>2, <2>3, <3>2 DEF MarkProcessed, MarkFile, MarkedWasWritten, IsFileProcessed,
                              IngestTypeOK
  <2>4. CASE MarkQuarantined(w)
    BY <2>2, <2>4 DEF MarkQuarantined, MarkFile, MarkedWasWritten, IsFileProcessed, IngestTypeOK
  <2>5. CASE ~MarkProcessed(w) /\ ~MarkQuarantined(w)
    <3>1. ledger' = ledger
      BY <2>5 DEF IngestStep, ChecksumFile, SkipDuplicate, NotYetProcessed, ReadGood, ReadBad,
                  ReadRaises, QuarantineReason, WriteBronze, stores
    <3>2. QED
      BY <2>2, <3>1 DEF MarkedWasWritten, IsFileProcessed
  <2>6. QED
    BY <2>3, <2>4, <2>5
<1>6. QED
  BY <1>1, <1>2, <1>3, <1>4, <1>5

\* A quarantine mark is put over a PROCESSED one only when two calls had the file in hand.
LEMMA MarksStay ==
  ASSUME IngestInv, NEW w \in Workers, IngestStep(w),
         NEW f \in Names \X Contents, ledger[f] = "PROCESSED"
  PROVE  ledger'[f] = "PROCESSED" \/ f \in overlapped
<1>1. CASE MarkProcessed(w)
  BY <1>1 DEF MarkProcessed, MarkFile, IngestInv, IngestTypeOK
<1>2. CASE MarkQuarantined(w)
  <2>1. /\ w \in Ingesting
        /\ ledger' = [ledger EXCEPT ![<<file[w], checksum[w]>>] = "QUARANTINED"]
    BY <1>2 DEF MarkQuarantined, MarkFile, Goto, Ingesting
  <2>2. CASE f = <<file[w], checksum[w]>>
    BY <2>1, <2>2 DEF IngestInv, OverlapInv, IsFileProcessed
  <2>3. CASE f # <<file[w], checksum[w]>>
    BY <2>1, <2>3 DEF IngestInv, IngestTypeOK
  <2>4. QED
    BY <2>2, <2>3
<1>3. CASE ~MarkProcessed(w) /\ ~MarkQuarantined(w)
  BY <1>3 DEF IngestStep, ChecksumFile, SkipDuplicate, NotYetProcessed, ReadGood, ReadBad,
         ReadRaises, QuarantineReason, WriteBronze, stores
<1>4. QED
  BY <1>1, <1>2, <1>3

\* The histories of overlaps, swaps and writes grow in every step of a call.
LEMMA IngestStepGrows ==
  ASSUME NEW w \in Workers, IngestStep(w)
  PROVE  /\ written \subseteq written' /\ swapped' = swapped /\ overlapped \subseteq overlapped'
         /\ dir' = dir /\ file' = file
BY DEF IngestStep, ChecksumFile, SkipDuplicate, NotYetProcessed, NoteOverlap, ReadGood,
       ReadBad, ReadRaises, MarkQuarantined, QuarantineReason, WriteBronze, MarkProcessed,
       landing, stores

-----------------------------------------------------------------------------
\* The directory sweep.

LEMMA SweepStep == IngestInv /\ [Next]_vars => IngestInv'
<1> SUFFICES ASSUME IngestInv, [Next]_vars PROVE IngestInv'
  OBVIOUS
<1>1. ASSUME NEW n \in Names, PartnerChange(n) PROVE IngestInv'
  BY <1>1, PartnerChangeInv
<1>2. ASSUME UNCHANGED ingestVars PROVE IngestInv'
  BY <1>2, BeginKeepsInv DEF ingestVars, bounds, Begin
<1>3. ASSUME NEW w \in Workers, Proceed(w) \/ InterruptSweep(w) PROVE IngestInv'
  <2>1. CASE IngestStep(w)
    BY <2>1, IngestStepInv
  <2>2. CASE IngestNext(w)
    BY <2>2, CallKeepsInv DEF IngestNext
  <2>3. CASE FileDone(w) \/ SweepAborted(w)
    <3>1. faults' \in 0..MaxFaults /\ bronze' \in {bronze, Torn}
      BY <2>3 DEF FileDone, SweepAborted, stores, bounds, IngestInv, IngestTypeOK
    <3>2. QED
      BY <2>3, <3>1, EndCallKeepsInv DEF FileDone, SweepAborted, landing, stores, bounds
  <2>4. CASE InterruptSweep(w)
    BY <2>4, InterruptKeepsInv DEF InterruptSweep
  <2>5. CASE StartSweep(w)
    BY <2>5, BeginKeepsInv DEF StartSweep
  <2>6. CASE PassOver(w) \/ SweepDone(w)
    BY <1>2, <2>6 DEF PassOver, SweepDone
  <2>7. QED
    BY <1>3, <2>1, <2>2, <2>3, <2>4, <2>5, <2>6 DEF Proceed
<1>4. QED
  BY <1>1, <1>2, <1>3 DEF Next, vars

THEOREM SweepInvariant == Spec => []IngestInv
<1>1. Init => IngestInv
  BY IngestInitInv DEF Init
<1>2. QED
  BY <1>1, SweepStep, PTL DEF Spec

\* A call that writes the rows of a marked file shares it with another call.
LEMMA AgainIsOverlap ==
  ASSUME IngestInv, NEW w \in Workers, step[w] = "parsed", IsFileProcessed(file[w], checksum[w])
  PROVE  <<file[w], checksum[w]>> \in overlapped
BY DEF IngestInv, OverlapInv, Ingesting

\* docs/ingestion-patterns.md: "the same input is never processed twice", by any number
\* of sweeps, but for the files that two of them had in hand at once.
THEOREM SweepAgainOnlyInOverlap == Spec => ProcessedAgainOnlyInOverlap
<1>1. IngestInv /\ [Next]_vars =>
        [\A w \in Workers :
            step[w] = "parsed" /\ step'[w] = "written" /\ IsFileProcessed(file[w], checksum[w])
                => <<file[w], checksum[w]>> \in overlapped]_vars
  BY AgainIsOverlap
<1>2. QED
  BY SweepInvariant, <1>1, PTL DEF Spec, ProcessedAgainOnlyInOverlap

-----------------------------------------------------------------------------
\* The SFTP ingestion.

\* How the loop and the call it makes stand to each other.
LoopInv ==
    \A w \in Workers :
        /\ phase[w] \in {"checked", "ingesting", "archiving"} => remote[w] \in Names
        /\ phase[w] \in {"ingesting", "archiving"} <=> step[w] # "idle"
        /\ step[w] # "idle" => file[w] = remote[w]
        /\ phase[w] = "archiving" => outcome[w] = "PROCESSED"
        /\ outcome[w] = "PROCESSED" => checksum[w] \in Contents
        /\ step[w] = "returned" <=> outcome[w] # "NONE"

\* A mark that counts: it is there, or an overlapping call took it back.
Marked(n, c) == IsFileProcessed(n, c) \/ <<n, c>> \in overlapped

\* What was returned as PROCESSED is in bronze and was marked.
ReturnedInv ==
    \A w \in Workers :
        outcome[w] = "PROCESSED" =>
            WasWritten(file[w], checksum[w]) /\ Marked(file[w], checksum[w])

\* A marked file that is not accounted for is one about to be copied.
MarkedIsInHand ==
    \A n \in Names, c \in Contents :
        IsFileProcessed(n, c) =>
            \/ WasCopied(n, c) \/ <<n, c>> \in cutOff
            \/ \E w \in Workers :
                  outcome[w] = "PROCESSED" /\ file[w] = n /\ checksum[w] = c

SftpInv ==
    /\ SftpTypeOK /\ IngestInv /\ LoopInv
    /\ ReturnedInv /\ MarkedIsInHand /\ ArchivedWasProcessed

-----------------------------------------------------------------------------
LEMMA SftpInitInv == SftpInit => SftpInv
<1> SUFFICES ASSUME SftpInit PROVE SftpInv
  OBVIOUS
<1>1. IngestInv
  BY IngestInitInv DEF SftpInit
<1>2. SftpTypeOK
  BY <1>1 DEF SftpInit, SftpTypeOK, IngestInv, Phases
<1>3. LoopInv /\ ReturnedInv /\ MarkedIsInHand /\ ArchivedWasProcessed
  BY DEF SftpInit, IngestInit, LoopInv, ReturnedInv, MarkedIsInHand, ArchivedWasProcessed,
         IsFileProcessed
<1>4. QED
  BY <1>1, <1>2, <1>3 DEF SftpInv

\* As long as marks stay but for overlaps, and histories only grow, so does what they
\* account for.
LEMMA AccountsStay ==
  ASSUME IngestInv, SftpTypeOK,
         written \subseteq written', swapped \subseteq swapped', overlapped \subseteq overlapped',
         \A f \in Names \X Contents :
            ledger[f] = "PROCESSED" => ledger'[f] = "PROCESSED" \/ f \in overlapped
  PROVE  /\ \A n \in Names, c \in Contents :
               /\ WasWritten(n, c) => WasWritten(n, c)'
               /\ Marked(n, c) => Marked(n, c)'
               /\ copied \subseteq copied' /\ WasCopied(n, c) => WasCopied(n, c)'
         /\ archive' = archive /\ ArchivedWasProcessed => ArchivedWasProcessed'
<1>1. \A n, c, d : HeldAs(n, c, d) => HeldAs(n, c, d)'
  BY HistoryStays
<1>2. \A n, c : WasWritten(n, c) => WasWritten(n, c)'
  BY HistoryStays
<1>3. \A n \in Names, c \in Contents : Marked(n, c) => Marked(n, c)'
  BY DEF Marked, IsFileProcessed
<1>4. \A n \in Names, c \in Contents :
        copied \subseteq copied' /\ WasCopied(n, c) => WasCopied(n, c)'
  BY <1>1 DEF WasCopied
<1>5. ASSUME archive' = archive, ArchivedWasProcessed PROVE ArchivedWasProcessed'
  <2>1. SUFFICES ASSUME NEW n \in Names, archive[n] # Missing
                 PROVE  \E c \in Contents :
                           HeldAs(n, c, archive[n])' /\ WasWritten(n, c)' /\ Marked(n, c)'
    BY <1>5 DEF ArchivedWasProcessed, Marked
  <2>2. PICK c \in Contents :
          HeldAs(n, c, archive[n]) /\ WasWritten(n, c) /\ Marked(n, c)
    BY <1>5, <2>1 DEF ArchivedWasProcessed, Marked
  <2>3. HeldAs(n, c, archive[n])'
    BY <1>5, <2>2 DEF HeldAs
  <2>4. QED
    BY <1>2, <1>3, <2>2, <2>3
<1>6. QED
  BY <1>2, <1>3, <1>4, <1>5

LEMMA PartnerKeepsInv ==
  ASSUME SftpInv, NEW n \in Names, PartnerChange(n),
         UNCHANGED <<sftpLoop, archived>>
  PROVE  SftpInv'
<1> USE DEF SftpInv
<1>1. IngestInv' /\ IngestTypeOK'
  BY PartnerChangeInv DEF IngestInv
<1>2. UNCHANGED <<ledger, written, overlapped, step, file, checksum, outcome, phase,
                  discovered, remote, remoteSum, archive, copied, cutOff>>
  BY DEF PartnerChange, stores, call, sftpLoop, archived
<1>3. swapped \subseteq swapped'
  BY DEF PartnerChange
<1>4. SftpTypeOK' /\ LoopInv'
  BY <1>1, <1>2 DEF SftpTypeOK, LoopInv
<1>5. /\ \A m \in Names, c \in Contents :
            /\ WasWritten(m, c) => WasWritten(m, c)'
            /\ Marked(m, c) => Marked(m, c)'
            /\ WasCopied(m, c) => WasCopied(m, c)'
      /\ ArchivedWasProcessed'
  BY <1>2, <1>3, AccountsStay
<1>6. ReturnedInv'
  BY <1>2, <1>5 DEF ReturnedInv, LoopInv, IngestInv, CallInv
<1>7. MarkedIsInHand'
  BY <1>2, <1>5 DEF MarkedIsInHand, IsFileProcessed
<1>8. QED
  BY <1>1, <1>4, <1>5, <1>6, <1>7

\* A step that leaves the call and the stores alone, and the loop between two files.
LEMMA LoopStepKeepsInv ==
  ASSUME SftpInv, IngestInv', SftpTypeOK', LoopInv',
         UNCHANGED <<landing, stores, overlapped, call, archived>>
  PROVE  SftpInv'
<1>1. UNCHANGED <<ledger, written, overlapped, swapped, file, checksum, outcome, archive,
                  copied, cutOff>>
  BY DEF landing, stores, call, archived
<1>2. ArchivedWasProcessed'
  BY <1>1, AccountsStay DEF SftpInv
<1>3. ReturnedInv'
  BY <1>1 DEF SftpInv, ReturnedInv, Marked, WasWritten, HeldAs, IsFileProcessed
<1>4. MarkedIsInHand'
  BY <1>1 DEF SftpInv, MarkedIsInHand, WasCopied, HeldAs, IsFileProcessed
<1>5. QED
  BY <1>2, <1>3, <1>4 DEF SftpInv

LEMMA LoopOnlyKeepsInv ==
  ASSUME SftpInv, UNCHANGED <<ingestVars, archived>>, SftpTypeOK', LoopInv'
  PROVE  SftpInv'
<1>1. Begin(FALSE)
  BY DEF Begin, ingestVars, bounds
<1>2. IngestInv'
  BY <1>1, BeginKeepsInv DEF SftpInv
<1>3. QED
  BY <1>2, LoopStepKeepsInv DEF ingestVars

LEMMA BetweenFiles ==
  ASSUME SftpInv, NEW w \in Workers,
         \/ Discover(w) \/ ChecksumRemote(w) \/ SkipProcessed(w)
         \/ FileProcessed(w) \/ IngestDone(w)
  PROVE  SftpInv'
<1> USE DEF SftpInv
<1>1. CASE Discover(w)
  <2>1. IngestInv' /\ IngestTypeOK'
    BY <1>1, BeginKeepsInv DEF Discover, IngestInv
  <2>2. SftpTypeOK' /\ LoopInv'
    BY <1>1, <2>1 DEF Discover, Begin, SftpTypeOK, IngestTypeOK, LoopInv, Phases, archived, call
  <2>3. UNCHANGED <<landing, stores, overlapped, call, archived>>
    BY <1>1 DEF Discover, Begin
  <2>4. QED
    BY <2>1, <2>2, <2>3, LoopStepKeepsInv
<1>2. CASE ChecksumRemote(w)
  <2> USE DEF SftpTypeOK, IngestTypeOK, LoopInv, Phases, archived, ingestVars, landing,
              stores, call, bounds
  <2>1. SftpTypeOK' /\ LoopInv'
    <3>1. PICK n \in discovered[w] :
            IF dir[n] = Missing
              THEN LeaveIngest(w)
              ELSE /\ phase' = [phase EXCEPT ![w] = "checked"]
                   /\ discovered' = [discovered EXCEPT ![w] = @ \ {n}]
                   /\ remote' = [remote EXCEPT ![w] = n]
                   /\ remoteSum' = [remoteSum EXCEPT ![w] = dir[n]]
      BY <1>2 DEF ChecksumRemote
    <3>2. phase[w] = "loop" /\ UNCHANGED <<ingestVars, archived>>
      BY <1>2 DEF ChecksumRemote
    <3>3. CASE dir[n] = Missing
      BY <3>1, <3>2, <3>3 DEF LeaveIngest
    <3>4. CASE dir[n] # Missing
      <4>1. n \in Names /\ dir[n] \in Contents \cup {Missing}
        OBVIOUS
      <4>2. SftpTypeOK'
        <5>1. discovered' \in [Workers -> SUBSET Names]
          BY <3>1, <3>4, <4>1
        <5>2. /\ phase' \in [Workers -> Phases] /\ remote' \in [Workers -> Names \cup {NoFile}]
              /\ remoteSum' \in [Workers -> Contents \cup {Missing}]
          BY <3>1, <3>4, <4>1
        <5>3. QED
          BY <3>2, <5>1, <5>2
      <4>3. LoopInv'
        BY <3>1, <3>2, <3>4, <4>1
      <4>4. QED
        BY <4>2, <4>3
    <3>5. QED
      BY <3>3, <3>4
  <2>2. QED
    BY <1>2, <2>1, LoopOnlyKeepsInv DEF ChecksumRemote
<1>3. CASE SkipProcessed(w)
  <2>1. SftpTypeOK' /\ LoopInv'
    BY <1>3 DEF SkipProcessed, NextFile, SftpTypeOK, IngestTypeOK, LoopInv, Phases,
                archived, ingestVars, landing, stores, call, bounds
  <2>2. QED
    BY <1>3, <2>1, LoopOnlyKeepsInv DEF SkipProcessed
<1>4. CASE FileProcessed(w)
  <2>1. SftpTypeOK' /\ LoopInv'
    BY <1>4 DEF FileProcessed, SftpTypeOK, IngestTypeOK, LoopInv, Phases, archived,
                ingestVars, landing, stores, call, bounds
  <2>2. QED
    BY <1>4, <2>1, LoopOnlyKeepsInv DEF FileProcessed
<1>5. CASE IngestDone(w)
  <2>1. SftpTypeOK' /\ LoopInv'
    BY <1>5 DEF IngestDone, LeaveIngest, SftpTypeOK, IngestTypeOK, LoopInv, Phases,
                archived, ingestVars, landing, stores, call, bounds
  <2>2. QED
    BY <1>5, <2>1, LoopOnlyKeepsInv DEF IngestDone
<1>6. QED
  BY <1>1, <1>2, <1>3, <1>4, <1>5

LEMMA CallStepKeepsInv ==
  ASSUME SftpInv, NEW w \in Workers, CallIngestFile(w) PROVE SftpInv'
<1> USE DEF SftpInv
<1>1. /\ remote[w] \in Names /\ Call(w, remote[w]) /\ step[w] = "idle"
      /\ UNCHANGED <<landing, stores, overlapped, bounds, archived>>
  BY DEF CallIngestFile, LoopInv, Call, Goto
<1>2. IngestInv' /\ IngestTypeOK'
  BY <1>1, CallKeepsInv DEF IngestInv
<1>3. SftpTypeOK' /\ LoopInv'
  BY <1>1, <1>2 DEF CallIngestFile, Call, Goto, SftpTypeOK, IngestTypeOK, LoopInv, Phases, archived
<1>4. UNCHANGED <<ledger, written, swapped, overlapped, checksum, outcome, archive, copied, cutOff>>
  BY <1>1 DEF landing, stores, archived, Call
<1>5. ArchivedWasProcessed'
  BY <1>4, AccountsStay
<1>6. \A v \in Workers : outcome[v] = "PROCESSED" => file'[v] = file[v]
  BY <1>1 DEF Call, LoopInv, SftpTypeOK, IngestTypeOK
<1>7. ReturnedInv'
  BY <1>4, <1>6 DEF ReturnedInv, Marked, WasWritten, HeldAs, IsFileProcessed
<1>8. MarkedIsInHand'
  BY <1>4, <1>6 DEF MarkedIsInHand, WasCopied, HeldAs, IsFileProcessed
<1>9. QED
  BY <1>2, <1>3, <1>5, <1>7, <1>8

LEMMA IngestStepKeepsInv ==
  ASSUME SftpInv, NEW w \in Workers, IngestStep(w),
         UNCHANGED <<sftpLoop, archived>>
  PROVE  SftpInv'
<1> USE DEF SftpInv
<1>1. IngestInv' /\ IngestTypeOK'
  BY IngestStepInv DEF IngestInv
<1>2. UNCHANGED <<phase, discovered, remote, remoteSum, archive, copied, cutOff>>
  BY DEF sftpLoop, archived
<1>3. SftpTypeOK'
  BY <1>1, <1>2 DEF SftpTypeOK
<1>4. /\ written \subseteq written' /\ swapped \subseteq swapped'
      /\ overlapped \subseteq overlapped' /\ file' = file
  BY IngestStepGrows
<1>5. LoopInv'
  <2>1. CASE MarkProcessed(w)
    BY <1>2, <1>4, <2>1
    DEF MarkProcessed, Return, LoopInv, SftpTypeOK, IngestTypeOK, IngestInv, CallInv
  <2>2. CASE ChecksumFile(w)
    BY <1>2, <1>4, <2>2 DEF ChecksumFile, Goto, Return, LoopInv, SftpTypeOK, IngestTypeOK
  <2>3. CASE ~MarkProcessed(w) /\ ~ChecksumFile(w)
    BY <1>2, <1>4, <2>3
    DEF IngestStep, SkipDuplicate, NotYetProcessed, ReadGood, ReadBad, ReadRaises,
        MarkQuarantined, QuarantineReason, WriteBronze, Goto, Return, LoopInv, SftpTypeOK,
        IngestTypeOK
  <2>4. QED
    BY <2>1, <2>2, <2>3
<1>6. /\ \A n \in Names, c \in Contents :
            /\ WasWritten(n, c) => WasWritten(n, c)'
            /\ Marked(n, c) => Marked(n, c)'
            /\ WasCopied(n, c) => WasCopied(n, c)'
      /\ ArchivedWasProcessed'
  <2>1. \A f \in Names \X Contents :
          ledger[f] = "PROCESSED" => ledger'[f] = "PROCESSED" \/ f \in overlapped
    BY MarksStay
  <2>2. QED
    BY <1>2, <1>4, <2>1, AccountsStay
\* What was returned as PROCESSED before this step, and by it.
<1>7. \A v \in Workers : outcome[v] = "PROCESSED" =>
          outcome'[v] = "PROCESSED" /\ checksum'[v] = checksum[v]
  BY DEF IngestStep, ChecksumFile, SkipDuplicate, NotYetProcessed, ReadGood, ReadBad, ReadRaises,
         MarkQuarantined, QuarantineReason, WriteBronze, MarkProcessed, Goto, Return, LoopInv,
         SftpTypeOK, IngestTypeOK
<1>8. \A v \in Workers : outcome'[v] = "PROCESSED" =>
          \/ outcome[v] = "PROCESSED" /\ checksum'[v] = checksum[v]
          \/ v = w /\ MarkProcessed(w)
  BY DEF IngestStep, ChecksumFile, SkipDuplicate, NotYetProcessed, ReadGood, ReadBad, ReadRaises,
         MarkQuarantined, QuarantineReason, WriteBronze, MarkProcessed, Goto, Return, LoopInv,
         SftpTypeOK, IngestTypeOK
<1>9. ReturnedInv'
  <2>1. ASSUME NEW v \in Workers, outcome[v] = "PROCESSED", checksum'[v] = checksum[v]
        PROVE  WasWritten(file[v], checksum[v])' /\ Marked(file[v], checksum[v])'
    <3>1. file[v] \in Names /\ checksum[v] \in Contents
      BY <2>1 DEF LoopInv, IngestInv, CallInv
    <3>2. WasWritten(file[v], checksum[v])' /\ Marked(file[v], checksum[v])'
      BY <1>4, <1>6, <2>1, <3>1 DEF ReturnedInv, WasWritten, Marked, HeldAs, IsFileProcessed
    <3>3. QED
      BY <3>2
  <2>2. CASE MarkProcessed(w)
    <3>1. /\ file[w] \in Names /\ checksum[w] \in Contents /\ checksum' = checksum
          /\ ledger' = [ledger EXCEPT ![<<file[w], checksum[w]>>] = "PROCESSED"]
      BY <2>2 DEF MarkProcessed, MarkFile, IngestInv, CallInv
    <3>2. IsFileProcessed(file[w], checksum[w])'
      BY <1>4, <3>1 DEF IsFileProcessed, SftpTypeOK, IngestTypeOK
    <3>3. WasWritten(file[w], checksum[w])'
      BY <1>1, <1>4, <3>1, <3>2 DEF IngestInv, MarkedWasWritten
    <3>4. QED
      BY <1>8, <2>1, <3>2, <3>3 DEF ReturnedInv, Marked
  <2>3. QED
    BY <1>8, <2>1, <2>2 DEF ReturnedInv
<1>10. MarkedIsInHand'
  <2>1. SUFFICES ASSUME NEW n \in Names, NEW c \in Contents, IsFileProcessed(n, c)'
                 PROVE  \/ WasCopied(n, c)' \/ <<n, c>> \in cutOff'
                        \/ \E v \in Workers :
                              outcome'[v] = "PROCESSED" /\ file'[v] = n /\ checksum'[v] = c
    BY DEF MarkedIsInHand
  <2>2. CASE IsFileProcessed(n, c)
    BY <1>2, <1>4, <1>6, <1>7, <2>2 DEF MarkedIsInHand
  <2>3. CASE ~IsFileProcessed(n, c)
    <3>1. /\ outcome'[w] = "PROCESSED" /\ checksum' = checksum
          /\ ledger' = [ledger EXCEPT ![<<file[w], checksum[w]>>] = "PROCESSED"]
      BY <2>1, <2>3 DEF IngestStep, ChecksumFile, SkipDuplicate, NotYetProcessed, ReadGood,
             ReadBad, ReadRaises, MarkQuarantined, QuarantineReason, WriteBronze, MarkProcessed,
             MarkFile, Return, IsFileProcessed, stores, SftpTypeOK, IngestTypeOK
    <3>2. file[w] = n /\ checksum[w] = c
      BY <2>1, <2>3, <3>1 DEF IsFileProcessed, SftpTypeOK, IngestTypeOK
    <3>3. QED
      BY <1>4, <3>1, <3>2
  <2>4. QED
    BY <2>2, <2>3
<1>11. QED
  BY <1>1, <1>3, <1>5, <1>6, <1>9, <1>10

\* The steps that end a call.
LEMMA CallEndsKeepsInv ==
  ASSUME SftpInv, NEW w \in Workers, EndCall(w),
         UNCHANGED <<landing, ledger, rejected, written, overlapped, changes>>,
         bronze' \in {bronze, Torn}, faults' \in 0..MaxFaults,
         (NextFile(w) /\ UNCHANGED discovered) \/ LeaveIngest(w),
         archive' \in [Names -> Contents \cup {Missing}],
         copied' \subseteq Names \X Contents, cutOff' \subseteq Names \X Contents,
         copied \subseteq copied', cutOff \subseteq cutOff',
         \A n \in Names, c \in Contents :
            outcome[w] = "PROCESSED" /\ file[w] = n /\ checksum[w] = c =>
               WasCopied(n, c)' \/ <<n, c>> \in cutOff',
         ArchivedWasProcessed'
  PROVE  SftpInv'
<1> USE DEF SftpInv
<1>1. IngestInv' /\ IngestTypeOK'
  BY EndCallKeepsInv DEF IngestInv
<1>2. SftpTypeOK'
  BY <1>1 DEF SftpTypeOK, NextFile, LeaveIngest, Phases
<1>3. LoopInv'
  BY <1>1 DEF EndCall, NextFile, LeaveIngest, LoopInv, SftpTypeOK, IngestTypeOK
<1>4. /\ \A v \in Workers : v # w =>
            outcome'[v] = outcome[v] /\ file'[v] = file[v] /\ checksum'[v] = checksum[v]
      /\ outcome'[w] # "PROCESSED"
      /\ UNCHANGED <<swapped, ledger, written, overlapped>>
  BY DEF EndCall, SftpTypeOK, IngestTypeOK, landing
<1>5. ReturnedInv'
  BY <1>4 DEF ReturnedInv, Marked, WasWritten, HeldAs, IsFileProcessed
<1>6. MarkedIsInHand'
  <2>1. \A n \in Names, c \in Contents : WasCopied(n, c) => WasCopied(n, c)'
    BY <1>4 DEF WasCopied, HeldAs
  <2>2. SUFFICES ASSUME NEW n \in Names, NEW c \in Contents, IsFileProcessed(n, c)'
                 PROVE  \/ WasCopied(n, c)' \/ <<n, c>> \in cutOff'
                        \/ \E v \in Workers :
                              outcome'[v] = "PROCESSED" /\ file'[v] = n /\ checksum'[v] = c
    BY DEF MarkedIsInHand
  <2>3. IsFileProcessed(n, c)
    BY <1>4, <2>2 DEF IsFileProcessed
  <2>4. CASE WasCopied(n, c) \/ <<n, c>> \in cutOff
    BY <2>1, <2>4
  <2>5. CASE \E v \in Workers : outcome[v] = "PROCESSED" /\ file[v] = n /\ checksum[v] = c
    <3>1. PICK v \in Workers : outcome[v] = "PROCESSED" /\ file[v] = n /\ checksum[v] = c
      BY <2>5
    <3>2. CASE v = w
      BY <3>1, <3>2
    <3>3. CASE v # w
      BY <1>4, <3>1, <3>3
    <3>4. QED
      BY <3>2, <3>3
  <2>6. QED
    BY <2>3, <2>4, <2>5 DEF MarkedIsInHand
<1>7. QED
  BY <1>1, <1>2, <1>3, <1>5, <1>6

LEMMA LeaveBehindKeepsInv ==
  ASSUME SftpInv, NEW w \in Workers, EndCall(w), LeaveBehind(w),
         UNCHANGED <<landing, ledger, rejected, written, overlapped, changes>>,
         bronze' \in {bronze, Torn}, faults' \in 0..MaxFaults
  PROVE  SftpInv'
<1> USE DEF SftpInv
<1>1. LeaveIngest(w) /\ archive' = archive /\ copied' = copied
  BY DEF LeaveBehind
<1>2. outcome[w] = "PROCESSED" =>
        /\ file[w] = remote[w] /\ remote[w] \in Names /\ checksum[w] \in Contents
        /\ cutOff' = cutOff \cup {<<remote[w], checksum[w]>>}
  BY DEF LeaveBehind, LoopInv, IngestInv, CallInv
<1>3. outcome[w] # "PROCESSED" => cutOff' = cutOff
  BY DEF LeaveBehind
<1>4. /\ cutOff' \subseteq Names \X Contents /\ cutOff \subseteq cutOff'
      /\ \A n \in Names, c \in Contents :
            outcome[w] = "PROCESSED" /\ file[w] = n /\ checksum[w] = c => <<n, c>> \in cutOff'
  BY <1>2, <1>3 DEF SftpTypeOK
<1>5. /\ archive' \in [Names -> Contents \cup {Missing}]
      /\ copied' \subseteq Names \X Contents /\ copied \subseteq copied'
  BY <1>1 DEF SftpTypeOK
<1>6. ArchivedWasProcessed'
  BY <1>1, AccountsStay DEF landing
<1>7. QED
  BY <1>1, <1>4, <1>5, <1>6, CallEndsKeepsInv

\* What is copied is what the file holds then: what was checksummed, or a swapped file.
LEMMA ArchiveKeepsInv ==
  ASSUME SftpInv, NEW w \in Workers, Archive(w) PROVE SftpInv'
<1> USE DEF SftpInv
<1>1. /\ EndCall(w) /\ outcome[w] = "PROCESSED" /\ remote[w] \in Names
      /\ file[w] = remote[w] /\ checksum[w] \in Contents
      /\ dir[remote[w]] \in Contents \cup {Missing}
  BY DEF Archive, LoopInv, SftpTypeOK, IngestTypeOK
<1>2. /\ UNCHANGED <<landing, ledger, bronze, rejected, written, overlapped, changes, faults>>
      /\ bronze' \in {bronze, Torn} /\ faults' \in 0..MaxFaults
  BY DEF Archive, stores, bounds, SftpTypeOK, IngestTypeOK
<1>3. CASE dir[remote[w]] = Missing
  BY <1>1, <1>2, <1>3, LeaveBehindKeepsInv DEF Archive
<1>4. CASE dir[remote[w]] # Missing
  <2>1. PICK n \in Names : n = remote[w]
    BY <1>1
  <2>2. PICK c \in Contents : c = checksum[w]
    BY <1>1
  <2>3. /\ NextFile(w) /\ UNCHANGED <<discovered, cutOff>>
        /\ archive' = [archive EXCEPT ![n] = dir[n]]
        /\ copied' = copied \cup {<<n, dir[n]>>}
    BY <1>1, <1>4, <2>1 DEF Archive, Copy
  <2>4. /\ archive' \in [Names -> Contents \cup {Missing}]
        /\ copied' \subseteq Names \X Contents /\ copied \subseteq copied'
        /\ cutOff' \subseteq Names \X Contents /\ cutOff \subseteq cutOff'
    BY <1>1, <1>4, <2>1, <2>3 DEF SftpTypeOK
  <2>5. HeldAs(n, c, dir[n]) /\ WasWritten(n, c) /\ Marked(n, c) /\ dir[n] \in Contents
    BY <1>1, <1>4, <2>1, <2>2, FileAssumption DEF IngestInv, HeldInv, ReturnedInv
  <2>6. UNCHANGED <<ledger, written, overlapped, swapped, dir>>
    BY <1>2 DEF landing
  <2>7. WasCopied(n, c)'
    BY <2>3, <2>5, <2>6 DEF WasCopied, HeldAs
  <2>8. ArchivedWasProcessed'
    <3>1. SUFFICES ASSUME NEW m \in Names, archive'[m] # Missing
                   PROVE  \E e \in Contents :
                             /\ HeldAs(m, e, archive'[m]) /\ WasWritten(m, e) /\ Marked(m, e)
      BY <2>6 DEF ArchivedWasProcessed, Marked, WasWritten, HeldAs, IsFileProcessed
    <3>2. CASE m = n
      BY <1>1, <2>3, <2>5, <3>2 DEF SftpTypeOK
    <3>3. CASE m # n
      BY <2>3, <3>1, <3>3 DEF ArchivedWasProcessed, Marked, SftpTypeOK
    <3>4. QED
      BY <3>2, <3>3
  <2>9. \A m \in Names, e \in Contents :
          outcome[w] = "PROCESSED" /\ file[w] = m /\ checksum[w] = e =>
             WasCopied(m, e)' \/ <<m, e>> \in cutOff'
    BY <1>1, <2>1, <2>2, <2>7
  <2>10. QED
    BY <1>1, <1>2, <2>3, <2>4, <2>8, <2>9, CallEndsKeepsInv
<1>5. QED
  BY <1>3, <1>4

LEMMA SftpStepInv ==
  ASSUME SftpInv, [SftpNext]_sftpVars PROVE SftpInv'
<1>1. ASSUME NEW n \in Names, PartnerChange(n), UNCHANGED <<sftpLoop, archived>>
      PROVE  SftpInv'
  BY <1>1, PartnerKeepsInv
<1>2. ASSUME NEW w \in Workers, SftpProceed(w) PROVE SftpInv'
  <2>1. CASE \/ Discover(w) \/ ChecksumRemote(w) \/ SkipProcessed(w)
             \/ FileProcessed(w) \/ IngestDone(w)
    BY <2>1, BetweenFiles
  <2>2. CASE CallIngestFile(w)
    BY <2>2, CallStepKeepsInv
  <2>3. CASE IngestStep(w) /\ UNCHANGED <<sftpLoop, archived>>
    BY <2>3, IngestStepKeepsInv
  <2>4. CASE FileNotProcessed(w) \/ FileRaised(w)
    <3>1. /\ EndCall(w) /\ outcome[w] # "PROCESSED"
          /\ (NextFile(w) /\ UNCHANGED discovered) \/ LeaveIngest(w)
          /\ UNCHANGED <<landing, ledger, bronze, rejected, written, overlapped, changes,
                         faults, archive, copied, cutOff>>
      BY <2>4 DEF FileNotProcessed, FileRaised, stores, bounds, archived
    <3>2. ArchivedWasProcessed'
      BY <3>1, AccountsStay DEF SftpInv, landing
    <3>3. QED
      BY <3>1, <3>2, CallEndsKeepsInv DEF SftpInv, SftpTypeOK, IngestTypeOK
  <2>5. CASE Archive(w)
    BY <2>5, ArchiveKeepsInv
  <2>6. QED
    BY <1>2, <2>1, <2>2, <2>3, <2>4, <2>5 DEF SftpProceed
<1>3. ASSUME NEW w \in Workers, InterruptIngest(w) PROVE SftpInv'
  <2>1. /\ EndCall(w) /\ LeaveBehind(w)
        /\ UNCHANGED <<landing, ledger, rejected, written, overlapped, changes>>
        /\ bronze' \in {bronze, Torn} /\ faults' \in 0..MaxFaults
    BY <1>3, FileAssumption DEF InterruptIngest, Interrupt, SftpInv, SftpTypeOK, IngestTypeOK
  <2>2. QED
    BY <2>1, LeaveBehindKeepsInv
<1>4. CASE UNCHANGED sftpVars
  <2>1. SftpTypeOK' /\ LoopInv' /\ UNCHANGED <<ingestVars, archived>>
    BY <1>4 DEF SftpInv, sftpVars, SftpTypeOK, IngestTypeOK, LoopInv, sftpLoop, archived, ingestVars,
                landing, stores, call, bounds
  <2>2. QED
    BY <2>1, LoopOnlyKeepsInv
<1>5. QED
  BY <1>1, <1>2, <1>3, <1>4 DEF SftpNext

THEOREM SftpInvariant == SftpSpec => []SftpInv
<1>1. SftpInit => SftpInv
  BY SftpInitInv
<1>2. SftpInv /\ [SftpNext]_sftpVars => SftpInv'
  BY SftpStepInv
<1>3. QED
  BY <1>1, <1>2, PTL DEF SftpSpec

LEMMA InHandWhenIdle ==
  ASSUME SftpInv PROVE ProcessedIsArchived
<1>1. SUFFICES ASSUME \A w \in Workers : phase[w] = "idle",
                      NEW n \in Names, NEW c \in Contents, IsFileProcessed(n, c)
               PROVE  WasCopied(n, c) \/ <<n, c>> \in cutOff
  BY DEF ProcessedIsArchived
<1>2. \A w \in Workers : outcome[w] # "PROCESSED"
  BY <1>1 DEF SftpInv, LoopInv
<1>3. QED
  BY <1>1, <1>2 DEF SftpInv, MarkedIsInHand

\* sftp_ingestor.py: "archive     move processed files aside": a file that is marked and
\* not archived when nobody is at work was marked by an ingestion that was cut off before
\* the copy, for any number of ingestions at a time.
THEOREM SftpProcessedIsArchived == SftpSpec => []ProcessedIsArchived
<1>1. SftpInv => ProcessedIsArchived
  BY InHandWhenIdle
<1>2. QED
  BY SftpInvariant, <1>1, PTL

-----------------------------------------------------------------------------
\* Either loop.

\* A sweep archives nothing.
NothingArchived == archive = [n \in Names |-> Missing]

FilesInv ==
    /\ IngestInv
    /\ loopOf = "sftp" => SftpInv
    /\ loopOf # "sftp" => NothingArchived

\* A step of the behaviour is one of its loop.
LEMMA FilesStep ==
  ASSUME [FilesNext]_filesVars
  PROVE  /\ loopOf' = loopOf
         /\ \/ loopOf # "sftp" /\ [Next]_vars /\ UNCHANGED pullVars
            \/ loopOf = "sftp" /\ [SftpNext]_sftpVars
BY DEF FilesNext, filesVars, Sweeps, Pulls, vars, pullVars, sftpVars

LEMMA FilesInitInv == FilesInit => FilesInv
BY IngestInitInv, SftpInitInv DEF FilesInit, FilesInv, Init, SftpInit, NothingArchived

LEMMA FilesKeepInv == FilesInv /\ [FilesNext]_filesVars => FilesInv'
<1> SUFFICES ASSUME FilesInv, [FilesNext]_filesVars PROVE FilesInv'
  OBVIOUS
<1>1. CASE loopOf # "sftp" /\ [Next]_vars /\ UNCHANGED pullVars
  BY <1>1, FilesStep, SweepStep DEF FilesInv, NothingArchived, pullVars, archived
<1>2. CASE loopOf = "sftp" /\ [SftpNext]_sftpVars
  <2>1. SftpInv'
    BY <1>2, SftpStepInv DEF FilesInv
  <2>2. QED
    BY <1>2, <2>1, FilesStep DEF FilesInv, SftpInv
<1>3. QED
  BY <1>1, <1>2, FilesStep

THEOREM FilesInvariant == FilesSpec => []FilesInv
BY FilesInitInv, FilesKeepInv, PTL DEF FilesSpec

\* Whichever loop it is, however many overlap, and whatever is replaced at whatever
\* moment: a mark in the ledger means that rows stamped with the file's checksum were
\* written, its own or those of the file that was put in its place before it was read.
THEOREM FilesMarkedWasWritten == FilesSpec => []MarkedWasWritten
<1>1. FilesInv => MarkedWasWritten
  BY DEF FilesInv, IngestInv
<1>2. QED
  BY FilesInvariant, <1>1, PTL

\* sftp_ingestor.py archives only "processed files": what is in the archive was written
\* to bronze and marked, or took the place of such a file while that was in hand, for any
\* number of ingestions at a time, any replacement, rejection and interruption.  Sweeps
\* put nothing there.
THEOREM FilesArchivedWasProcessed == FilesSpec => []ArchivedWasProcessed
<1>1. FilesInv => ArchivedWasProcessed
  <2>1. NothingArchived => ArchivedWasProcessed
    BY DEF NothingArchived, ArchivedWasProcessed
  <2>2. QED
    BY <2>1 DEF FilesInv, SftpInv
<1>2. QED
  BY FilesInvariant, <1>1, PTL

\* What the SFTP ingestion has marked it has copied, or was cut off before it did.
THEOREM FilesPulledIsArchived == FilesSpec => []PulledIsArchived
<1>1. FilesInv => PulledIsArchived
  BY InHandWhenIdle DEF FilesInv, PulledIsArchived
<1>2. QED
  BY FilesInvariant, <1>1, PTL

\* Only a call writes the ledger.
LEMMA LedgerSteps ==
  ASSUME [FilesNext]_filesVars
  PROVE  (\E w \in Workers : IngestStep(w)) \/ ledger' = ledger
<1>1. ASSUME NEW w \in Workers, Proceed(w) \/ InterruptSweep(w), ~IngestStep(w)
      PROVE  ledger' = ledger
  BY <1>1 DEF Proceed, StartSweep, Begin, PassOver, IngestNext, FileDone, SweepAborted, SweepDone,
              InterruptSweep, Interrupt, ingestVars, stores
<1>2. ASSUME NEW w \in Workers, SftpProceed(w) \/ InterruptIngest(w), ~IngestStep(w)
      PROVE  ledger' = ledger
  BY <1>2 DEF SftpProceed, Discover, Begin, ChecksumRemote, SkipProcessed, CallIngestFile,
              FileProcessed, FileNotProcessed, FileRaised, Archive, IngestDone,
              InterruptIngest, Interrupt, ingestVars, stores
<1>3. ASSUME NEW n \in Names, PartnerChange(n) PROVE ledger' = ledger
  BY <1>3 DEF PartnerChange, stores
<1>4. UNCHANGED filesVars => ledger' = ledger
  BY DEF filesVars, ingestVars, stores
<1>5. QED
  BY <1>1, <1>2, <1>3, <1>4 DEF FilesNext, Next, SftpNext

\* docs/ingestion-patterns.md: "the same input is never processed twice", by either loop
\* and any number of workers, but for the files that two calls had in hand at once.
THEOREM FilesAgainOnlyInOverlap == FilesSpec => ProcessedAgainOnlyInOverlap
<1>1. FilesInv /\ [FilesNext]_filesVars =>
        [\A w \in Workers :
            step[w] = "parsed" /\ step'[w] = "written" /\ IsFileProcessed(file[w], checksum[w])
                => <<file[w], checksum[w]>> \in overlapped]_vars
  BY AgainIsOverlap DEF FilesInv
<1>2. QED
  BY FilesInvariant, <1>1, PTL DEF FilesSpec, ProcessedAgainOnlyInOverlap

\* What is PROCESSED stays so, although the last status that is written wins, and a file
\* may be rejected that was checksummed when it was good, but for the files that two
\* calls had in hand at once.
THEOREM FilesProcessedIsFinal == FilesSpec => ProcessedIsFinal
<1>1. FilesInv /\ [FilesNext]_filesVars =>
        [\A f \in Names \X Contents :
            ledger[f] = "PROCESSED" => ledger'[f] = "PROCESSED" \/ f \in overlapped]_vars
  <2> SUFFICES ASSUME FilesInv, [FilesNext]_filesVars,
                      NEW f \in Names \X Contents, ledger[f] = "PROCESSED"
               PROVE  ledger'[f] = "PROCESSED" \/ f \in overlapped
    OBVIOUS
  <2>1. CASE ledger' = ledger
    BY <2>1
  <2>2. ASSUME NEW w \in Workers, IngestStep(w)
        PROVE  ledger'[f] = "PROCESSED" \/ f \in overlapped
    BY <2>2, MarksStay DEF FilesInv
  <2>3. QED
    BY <2>1, <2>2, LedgerSteps
<1>2. QED
  BY FilesInvariant, <1>1, PTL DEF FilesSpec, ProcessedIsFinal
==============================================================================
