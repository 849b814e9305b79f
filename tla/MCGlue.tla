------------------------------- MODULE MCGlue -------------------------------
\* The Glue jobs, and the transforms they use beside those of pandas.  A behaviour has
\* the jobs on a few rows or a frame of more of them, chosen at the start.
EXTENDS GlueJobs, TransformsAgree

VARIABLE subject

MCRow(n, id, account, amount, status, ts, updated) ==
    [at |-> n, id |-> id, account |-> account, amount |-> amount, currency |-> "USD",
     status |-> status, ts |-> ts, updated |-> updated, flag |-> 0]

\* Two versions of transaction 1 and a third that ties with the second, or has no
\* stamp; one on an account that may be missing, without a date; and one row for each
\* rule that a row may break.
MCRawRows ==
    { MCRow(1, 1, "a", 5, "POSTED", 1, 1),
      MCRow(2, 1, "a", 7, "POSTED", 2, 2),
      MCRow(3, 1, "b", 2, "POSTED", 2, 2),
      MCRow(4, 2, "b", 3, "POSTED", Bad, 1),
      MCRow(5, 2, Null, 3, "POSTED", 1, 2),
      MCRow(6, 3, "a", 0, "POSTED", 1, 1),
      MCRow(7, 3, "a", Bad, "POSTED", 1, Null),
      MCRow(8, 2, "a", 4, "REVERSED", 1, 2),
      [MCRow(9, 3, "c", 6, "POSTED", 15, 1) EXCEPT !.currency = "XXX", !.flag = 1] }

\* Of two accounts and none, instants on both edges of a day and of a week, amounts
\* that tie, are negative, or null, and a status that is not valid.
MCFrameRows == MCRawRows \cup
    { MCRow(10, 4, "a", 5, "POSTED", 15, 3),
      MCRow(11, 5, "a", -2, "POSTED", 16, 3),
      MCRow(12, 6, "b", 5, Null, 17, 1),
      MCRow(13, 7, "a", 7, "POSTED", 3, 1),
      [MCRow(14, 8, "b", Null, "POSTED", 2, 2) EXCEPT !.currency = Null],
      MCRow(15, 9, "a", 1, "LOST", 16, 2) }

MCAccounts == [account : {"a", "b"}, customer : {"x"}]
MCAccountRows ==
    {[account |-> "a", customer |-> "x"], [account |-> "b", customer |-> "y"]}
MCCustomerRows == {[customer |-> "x"], [customer |-> "z"]}

vars == <<glueVars, frame, subject>>

Init == GlueInit /\ FrameInit /\ subject \in {"jobs", "frame"}

Jobs  == subject = "jobs" /\ UNCHANGED <<frame, subject>>
Frame == subject = "frame" /\ UNCHANGED <<glueVars, subject>>

Next ==
    \/ GlueNext /\ Jobs
    \/ AddRow /\ Frame

Spec == Init /\ [][Next]_vars

\* The workflow's trigger fires for ever, and a job that does not end early goes on.
FairSpec == Spec /\ WF_vars(WorkflowStep /\ Jobs)

\* GlueCatchesUp, of the behaviours that have the jobs.
GoldCatchesUp == subject = "jobs" => GlueCatchesUp
==============================================================================
