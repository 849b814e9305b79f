----------------------------- MODULE SourceTable -----------------------------
(***************************************************************************)
(* The operational database that the pipelines read (the external          *)
(* "source.sqlite" or RDS instance).  Only its contract with the           *)
(* incremental extraction is modelled: rows carry an updated_at stamp, an   *)
(* insert or an update stamps the row, and the extraction compares stamps.  *)
(*                                                                         *)
(* A row is identified by its physical identity, because the source has no *)
(* key on transaction_id: several rows may hold one transaction            *)
(* (TxnOf), and some rows have no account_id (NullAccount).  A transaction  *)
(* never moves to another account, so NullAccount does not change.         *)
(***************************************************************************)
EXTENDS Integers

CONSTANTS
    Rows,           \* the physical rows of the source table
    Txns,           \* the transaction ids
    TxnOf,          \* the transaction id each row holds
    NullAccount,    \* the rows whose account_id is null
    MaxTs,          \* bound: the last stamp the source hands out
    Lag             \* how far behind the newest stamp a write may be stamped

ASSUME RowsAssumption == /\ TxnOf \in [Rows -> Txns]
                         /\ NullAccount \subseteq Rows
ASSUME StampAssumption == MaxTs \in Nat /\ Lag \in Nat

VARIABLES
    src,            \* updated_at of each row; Absent when the row is not there
    clock,          \* the newest stamp handed out
    late            \* history: rows whose last write was not stamped above
                    \* every earlier write (clock skew, a slow transaction, a tie)

sourceVars == <<src, clock, late>>

Absent == 0
Stamps == 1..MaxTs
Valid  == Rows \ NullAccount

SourceTypeOK ==
    /\ src \in [Rows -> {Absent} \cup Stamps]
    /\ clock \in {0} \cup Stamps
    /\ late \subseteq Rows

SourceInit ==
    /\ src = [r \in Rows |-> Absent]
    /\ clock = 0
    /\ late = {}

\* An insert of r, or an update of it in place.
Write(r) ==
    \E s \in Stamps :
        /\ s > clock - Lag
        /\ s <= clock + 1
        /\ src' = [src EXCEPT ![r] = s]
        /\ clock' = IF s > clock THEN s ELSE clock
        /\ late' = IF s > clock THEN late \ {r} ELSE late \cup {r}

SourceNext == \E r \in Rows : Write(r)
==============================================================================
