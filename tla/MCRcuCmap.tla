------------------------------ MODULE MCRcuCmap ------------------------------
\* Three keys, with the values _hashfunc has for three buckets: keys 0 and 2
\* share one.
EXTENDS RcuCmap

MCHeads == Keys
MCTasks == {Reader}
MCHashOf == [k \in Keys |-> IF k = 1 THEN 1 ELSE 0]
=============================================================================
