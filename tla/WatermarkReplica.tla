-------------------------- MODULE WatermarkReplica --------------------------
(***************************************************************************)
(* What an incremental load promises, whatever its steps: a fact table     *)
(* that follows the source, and a mark below which nothing is missing.     *)
(*                                                                         *)
(*   - the fact table never goes back to an older version of a             *)
(*     transaction, and never holds a version the source has not reached;  *)
(*   - the mark only moves forward, and only to a point up to which every  *)
(*     row that was stamped in order has been loaded.                      *)
(***************************************************************************)
EXTENDS SourceTable

VARIABLES
    fact,           \* updated_at of each transaction in the fact table
    mark            \* the last successful watermark

NoMark == -1

replicaVars == <<src, clock, late, fact, mark>>

\* Every valid row stamped in order at or below m is in the fact table.
LoadedUpTo(m) ==
    \A r \in Valid \ late :
        src[r] # Absent /\ src[r] <= m => fact[TxnOf[r]] >= src[r]

Init ==
    /\ SourceInit
    /\ fact = [t \in Txns |-> Absent]
    /\ mark = NoMark

SourceStep == SourceNext /\ UNCHANGED <<fact, mark>>

Load ==
    /\ fact' \in [Txns -> {Absent} \cup Stamps]
    /\ \A t \in Txns : fact[t] <= fact'[t] /\ fact'[t] <= clock
    /\ UNCHANGED <<src, clock, late, mark>>

Advance ==
    /\ mark' \in {Absent} \cup Stamps
    /\ mark' > mark
    /\ LoadedUpTo(mark')
    /\ UNCHANGED <<src, clock, late, fact>>

Next == SourceStep \/ Load \/ Advance

Spec == Init /\ [][Next]_replicaVars
==============================================================================
