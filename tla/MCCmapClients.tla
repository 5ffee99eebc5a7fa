---------------------------- MODULE MCCmapClients ----------------------------
\* Two threads; keys 1 and 3 share bucket 0, key 2 is alone in bucket 1.
EXTENDS CmapClients, TLC

CONSTANTS c1, c2

MCClients == {c1, c2}
MCKeys == {1, 2, 3}
MCHashOf == [k \in MCKeys |-> IF k = 2 THEN 1 ELSE 0]

\* No operation tells the threads apart.
Symmetry == Permutations(MCClients)
=============================================================================
