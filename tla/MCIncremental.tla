--------------------------- MODULE MCIncremental ---------------------------
(***************************************************************************)
(* IncrementalPipeline on a small source table: transaction t1 is held by  *)
(* two rows (a duplicate id), t2 by a row of its own and by one that has   *)
(* lost its account.                                                       *)
(***************************************************************************)
EXTENDS IncrementalPipeline

CONSTANTS r1, r2, r3, r4, t1, t2

MCRows == {r1, r2, r3, r4}
MCTxns == {t1, t2}
MCTxnOf == [r \in MCRows |-> IF r \in {r1, r2} THEN t1 ELSE t2]
MCNullAccount == {r4}
==============================================================================
