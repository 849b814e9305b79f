----------------------------- MODULE ScoredFeed -----------------------------
(***************************************************************************)
(* What a consumer of the transaction stream promises, whatever the shards,*)
(* the redeliveries and the passes that break off: each customer's events  *)
(* are scored in the order in which they were produced, each of them once, *)
(* and none is left for ever.                                              *)
(***************************************************************************)
EXTENDS Naturals, Sequences

CONSTANTS
    Customers,
    Ids,            \* transaction ids
    CustomerOf,     \* the customer of each transaction
    Event           \* what may be produced for them

VARIABLES
    sent,           \* the events of each customer, as produced
    scored          \* the events of each customer, as scored

feedVars == <<sent, scored>>

Init ==
    /\ sent = [c \in Customers |-> <<>>]
    /\ scored = [c \in Customers |-> <<>>]

Produce(e) ==
    /\ e.id \in Ids
    /\ \A c \in Customers : \A n \in DOMAIN sent[c] : sent[c][n].id # e.id
    /\ sent' = [sent EXCEPT ![CustomerOf[e.id]] = Append(@, e)]
    /\ UNCHANGED scored

Score(c) ==
    /\ Len(scored[c]) < Len(sent[c])
    /\ scored' = [scored EXCEPT ![c] = Append(@, sent[c][Len(@) + 1])]
    /\ UNCHANGED sent

Next ==
    \/ \E e \in Event : Produce(e)
    \/ \E c \in Customers : Score(c)

\* Every event is scored in the end; nothing need be produced.
Spec == Init /\ [][Next]_feedVars /\ \A c \in Customers : WF_feedVars(Score(c))
==============================================================================
