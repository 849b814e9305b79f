------------------------------ MODULE ChangeLog ------------------------------
(***************************************************************************)
(* Change data capture: a snapshot of the customers table, taken at some   *)
(* time, and events of its log that arrive late, out of order, more than   *)
(* once or not at all, some of them of before the snapshot; and the latest *)
(* state that reconstruct_latest_state() makes of the two.                 *)
(***************************************************************************)
EXTENDS CustomerTable, SequencesExt

CONSTANT MaxDeliveries      \* bound: events that arrive

ASSUME DeliveriesAssumption == MaxDeliveries \in Nat

VARIABLES
    snapshot,       \* the full load: of each key its city, or Absent
    snapAt,         \* how many changes it holds, or NotTaken
    received        \* the events, as they arrived: positions in the log

logVars == <<snapshot, snapAt, received>>

NotTaken == MaxWrites + 1

LogTypeOK ==
    /\ snapshot \in [Keys -> Cities \cup {Absent}]
    /\ snapAt \in 0..NotTaken
    /\ received \in Seq(1..MaxWrites) /\ Len(received) <= MaxDeliveries

LogInit ==
    /\ snapshot = [k \in Keys |-> Absent]
    /\ snapAt = NotTaken
    /\ received = <<>>

TakeSnapshot ==
    /\ snapAt = NotTaken
    /\ snapshot' = [k \in Keys |-> customers[k].city]
    /\ snapAt' = Len(log)
    /\ UNCHANGED received

\* Any event of the log, again or for the first time.
Deliver ==
    /\ Len(received) < MaxDeliveries
    /\ \E i \in DOMAIN log : received' = Append(received, i)
    /\ UNCHANGED <<snapshot, snapAt>>

LogStep == TakeSnapshot \/ Deliver

-----------------------------------------------------------------------------
\* reconstruct_latest_state()

\* The loop's body: an upsert of the after image, or the key's removal.
ApplyEvent(state, i) ==
    [state EXCEPT ![log[i].key] =
        IF log[i].op \in {"INSERT", "UPDATE"} THEN log[i].after ELSE Absent]

\* The events before the n-th: of an earlier instant, or copies of it that came earlier.
Ahead(events, n) ==
    LET At(m) == log[events[m]].timestamp IN
    {m \in DOMAIN events : At(m) < At(n) \/ (At(m) = At(n) /\ m < n)}

\* (Seeded mistake: the newest event first.)
NewestFirst(events) ==
    [p \in DOMAIN events |->
        events[CHOOSE n \in DOMAIN events :
                  Cardinality(Ahead(events, n)) = Len(events) - p]]

InTimestampOrder(events) ==
    [p \in DOMAIN events |->
        events[CHOOSE n \in DOMAIN events : Cardinality(Ahead(events, n)) = p - 1]]

Reconstructed == FoldLeft(ApplyEvent, snapshot, InTimestampOrder(received))

-----------------------------------------------------------------------------
\* The events of a key, and whether the last one is known: it has arrived, or the
\* snapshot has it and no older event has come after all.
Of(k) == {i \in DOMAIN log : log[i].key = k}

Fresh(k) ==
    \/ Of(k) = {}
    \/ Max(Of(k)) \in Range(received)
    \/ Max(Of(k)) <= snapAt /\ Of(k) \cap Range(received) = {}

\* cdc.py: "for each primary key, take the most recent event": whatever arrived
\* twice, out of order or from before the snapshot, and whatever of the older
\* events and of other keys never did, a key whose last event is known is as the
\* source has it.
ReconstructsSource ==
    snapAt # NotTaken =>
        \A k \in Keys : Fresh(k) => Reconstructed[k] = customers[k].city
==============================================================================
