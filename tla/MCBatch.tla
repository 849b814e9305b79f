------------------------------- MODULE MCBatch -------------------------------
\* BatchPipeline with two rows of one transaction, one on an account that may be
\* opened at any time, the other on one that does not exist.
EXTENDS BatchPipeline

MCTxnOf == [r \in Rows |-> "t1"]
MCAccountOf == [r \in Rows |-> IF r = 1 THEN "a1" ELSE "dangling"]
==============================================================================
