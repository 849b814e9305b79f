------------------------------- MODULE MCFiles -------------------------------
\* FileIngestion with two file names and one content of each kind; g2 is there so
\* that a good file may be replaced by another good one.
EXTENDS FileIngestion

MCNames == {1, 2}
MCKind ==
    [c \in Contents |-> CASE c \in {"g1", "g2"} -> "good"
                          [] c = "bad" -> "bad"
                          [] c = "poison" -> "poison"]
==============================================================================
