------------------------------ MODULE MCStream ------------------------------
\* StreamConsumer with three events of one customer, one of another, and a
\* window that holds one event; one event cannot be evaluated.
EXTENDS StreamConsumer

CONSTANTS ann, bob, london, tokyo

MCCustomers == {ann, bob}
MCCities == {london, tokyo}
MCTravelTime ==
    [p \in MCCities \X MCCities |-> IF p[1] = p[2] THEN 0 ELSE 2]
MCIds == 1..4
MCCustomerOf == [i \in MCIds |-> IF i = 4 THEN bob ELSE ann]
\* Transactions 1 and 2 may be anywhere at any time; the malformed 3 claims the
\* last time, 4 is bob's only one.
MCEvent ==
         [id : {1, 2}, ts : 1..3, city : MCCities]
    \cup {[id |-> 3, ts |-> 3, city |-> london], [id |-> 4, ts |-> 1, city |-> tokyo]}
MCShardOf == [c \in MCCustomers |-> IF c = ann THEN 0 ELSE 1]
==============================================================================
