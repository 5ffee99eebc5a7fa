--------------------------- MODULE MCPairDrivers -----------------------------
(* The pair and the drivers that grew out of it, with traffic both ways, and *)
(* with enough of it one way to empty a pool of two while a buffer comes     *)
(* back to it.                                                               *)
EXTENDS PairDrivers

To(m, n) == [d \in Devs |-> IF d = 0 THEN m ELSE n]
Sends == To(4, 1)
Shares == [x \in Drivers |-> CASE x = "dummveth" -> To(3, 0)
                               [] x = "deth" -> To(4, 0)
                               [] x = "kxdp_native" -> To(2, 1)
                               [] OTHER -> To(1, 1)]
=============================================================================
