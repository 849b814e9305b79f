---------------------------- MODULE CustomerTable ----------------------------
(***************************************************************************)
(* The customers table of the source, and its change log.  Every write has *)
(* an instant of its own, as the events that generate_cdc_events() makes.  *)
(* Of a customer the tracked columns are kept, as one: the city.           *)
(***************************************************************************)
EXTENDS Naturals, Sequences

CONSTANTS
    Keys,           \* customer ids
    Cities,         \* values of the tracked columns
    MaxWrites,      \* bound: writes of the table
    MaxTime         \* bound: instants are 1..MaxTime

Absent == "absent"

\* An updated_at that does not parse.
Undated == 0

ASSUME TableAssumption ==
    Absent \notin Cities /\ MaxWrites \in Nat /\ MaxTime \in Nat

VARIABLES
    clock,          \* the last instant
    customers,      \* the table: of each key its row, or none
    log             \* the changes, oldest first

tableVars == <<clock, customers, log>>

\* updated_at is the instant of the write, if it parses.
Rows == [city : Cities, stamp : 0..MaxTime]
NoRow == [city |-> Absent, stamp |-> Undated]
Events == [op : {"INSERT", "UPDATE", "DELETE"}, key : Keys, after : Cities \cup {Absent},
           timestamp : 1..MaxTime]

TableTypeOK ==
    /\ clock \in 0..MaxTime
    /\ customers \in [Keys -> Rows \cup {NoRow}]
    /\ log \in Seq(Events)

TableInit ==
    /\ clock = 0
    /\ customers = [k \in Keys |-> NoRow]
    /\ log = <<>>

Present(k) == customers[k].city # Absent

\* A write at the next instant, and its event.
Change(op, k, row) ==
    /\ Len(log) < MaxWrites /\ clock < MaxTime
    /\ clock' = clock + 1
    /\ customers' = [customers EXCEPT ![k] = row]
    /\ log' = Append(log, [op |-> op, key |-> k, after |-> row.city,
                           timestamp |-> clock + 1])

\* An INSERT or an UPDATE; not every UPDATE changes a tracked column.
WriteCustomer(k) ==
    \E city \in Cities, stamp \in {clock + 1, Undated} :
        Change(IF Present(k) THEN "UPDATE" ELSE "INSERT", k,
               [city |-> city, stamp |-> stamp])

DeleteCustomer(k) ==
    /\ Present(k)
    /\ Change("DELETE", k, NoRow)

TableStep == \E k \in Keys : WriteCustomer(k) \/ DeleteCustomer(k)
==============================================================================
