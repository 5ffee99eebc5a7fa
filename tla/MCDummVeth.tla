----------------------------- MODULE MCDummVeth ------------------------------
(* Traffic in both directions, enough one way to empty a pool of 1 or 2, or *)
(* one way only, and then enough to empty a pool of 2 while a buffer comes  *)
(* back to it.                                                              *)
EXTENDS DummVeth

To(m, n) == [d \in Devs |-> IF d = 0 THEN m ELSE n]
Sends == To(4, 1)
Loads == {To(2, 1), To(4, 0)}

\* The bound is a guard of the step, not a state constraint, so that the liveness
\* properties are checked over whole behaviours; the fair actions send nothing and
\* are not touched by it.
WithinLoad == \E load \in Loads : \A d \in Devs : count[d] <= load[d]

MCTraffic == Traffic /\ WithinLoad'

MCSpec == Init /\ [][MCTraffic]_vars /\ Fairness
=============================================================================
