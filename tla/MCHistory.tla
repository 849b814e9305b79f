------------------------------ MODULE MCHistory ------------------------------
\* The readers of one customers table: the change log, or a job that keeps the
\* dimensions.  Neither touches what the other reads, so that a behaviour has one of
\* them, chosen at the start, and their states do not multiply.
EXTENDS ChangeLog, CustomerHistory

VARIABLE reader

vars == <<tableVars, logVars, historyVars, reader>>

TypeOK == TableTypeOK /\ LogTypeOK /\ HistoryTypeOK /\ reader \in {"log", "history"}

Init == TableInit /\ LogInit /\ HistoryInit /\ reader \in {"log", "history"}

HistoryStep(w) == reader = "history" /\ JobStep(w) /\ UNCHANGED <<logVars, reader>>

Next ==
    \/ TableStep /\ UNCHANGED <<logVars, historyVars, reader>>
    \/ reader = "log" /\ LogStep /\ UNCHANGED <<tableVars, historyVars, reader>>
    \/ \E w \in Jobs : HistoryStep(w)

Spec == Init /\ [][Next]_vars

\* The schedule goes on starting jobs.
FairSpec == Spec /\ \A w \in Jobs : WF_vars(HistoryStep(w))

\* HistoryCatchesUp, of the behaviours that have the job.
DimensionCatchesUp == reader = "history" => HistoryCatchesUp
==============================================================================
