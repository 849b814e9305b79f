---------------------------- MODULE FraudDetector ----------------------------
(***************************************************************************)
(* FraudDetector.evaluate: a rule on the event alone (HIGH_VALUE) and two  *)
(* that keep state per customer, a rolling count of transactions (VELOCITY)*)
(* and the last known place (IMPOSSIBLE_TRAVEL).  Times are whole units; 0 *)
(* stands for "none yet".                                                  *)
(***************************************************************************)
EXTENDS Integers, Sequences

CONSTANTS
    Customers,
    Cities,
    MaxTime,        \* bound: the last timestamp
    HighValue,      \* the transactions of at least high_value_threshold
    VelocityWindow, \* velocity_window_seconds
    VelocityMax,    \* velocity_max_txns
    TravelTime      \* distance of two cities over impossible_travel_kmh

ASSUME DetectorAssumption ==
    /\ MaxTime \in Nat /\ VelocityWindow \in Nat /\ VelocityMax \in Nat
    /\ TravelTime \in [Cities \X Cities -> Nat]
    /\ Cities # {}

VARIABLES
    recent,         \* _recent: timestamps in each customer's window
    lastLocation,   \* _last_location: the travel baseline of each customer
    alerts          \* the alerts raised: <<transaction id, rule>>

detectorVars == <<recent, lastLocation, alerts>>

Times == 1..MaxTime
Rules == {"HIGH_VALUE", "VELOCITY", "IMPOSSIBLE_TRAVEL"}
NoLocation == [ts |-> 0, city |-> CHOOSE c \in Cities : TRUE]

DetectorTypeOK(Ids) ==
    /\ recent \in [Customers -> Seq(Times)]
    /\ lastLocation \in [Customers -> [ts : {0} \cup Times, city : Cities]]
    /\ alerts \subseteq Ids \X Rules

DetectorInit ==
    /\ recent = [c \in Customers |-> <<>>]
    /\ lastLocation = [c \in Customers |-> NoLocation]
    /\ alerts = {}

\* (Seeded mistake: an event on the edge of the window is dropped.)
RolledOpen(window, ts) ==
    LET kept == {i \in DOMAIN window : window[i] > ts - VelocityWindow}
        first == CHOOSE i \in kept : \A j \in kept : i <= j
    IN  SubSeq(window, first, Len(window))

\* The window after ts was appended: its front is dropped while it is too old.
\* What stands behind a younger entry stays, however old.
Rolled(window, ts) ==
    LET kept == {i \in DOMAIN window : window[i] >= ts - VelocityWindow}
        first == CHOOSE i \in kept : \A j \in kept : i <= j
    IN  SubSeq(window, first, Len(window))

Distance(t, u) == IF t > u THEN t - u ELSE u - t

\* A journey faster than impossible_travel_kmh; none in no time at all.
TooFast(from, to) ==
    /\ Distance(from.ts, to.ts) > 0
    /\ Distance(from.ts, to.ts) < TravelTime[<<from.city, to.city>>]

\* (Seeded mistake: a late event moves the travel baseline.)
AdvanceAlways(last, e) == [ts |-> e.ts, city |-> e.city]

\* Only an event that is not behind the baseline moves it.
Advance(last, e) ==
    IF last.ts = 0 \/ e.ts >= last.ts THEN [ts |-> e.ts, city |-> e.city] ELSE last

Evaluate(c, e) ==
    LET window == Rolled(Append(recent[c], e.ts), e.ts)
        last == lastLocation[c]
        fired == {rule \in Rules :
                    \/ rule = "HIGH_VALUE" /\ e.id \in HighValue
                    \/ rule = "VELOCITY" /\ Len(window) > VelocityMax
                    \/ rule = "IMPOSSIBLE_TRAVEL" /\ last.ts # 0 /\ TooFast(last, e)}
    IN  /\ recent' = [recent EXCEPT ![c] = window]
        /\ lastLocation' = [lastLocation EXCEPT ![c] = Advance(last, e)]
        /\ alerts' = alerts \cup {<<e.id, rule>> : rule \in fired}
==============================================================================
