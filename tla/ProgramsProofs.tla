--------------------------- MODULE ProgramsProofs ----------------------------
(***************************************************************************)
(* Five programs that have nothing to do with each other, for every size   *)
(* of their tables and queues: the AF_XDP forwarder, the demonstrations of *)
(* locks (D), the netlink query of xfrm.c (L), the wireless device of      *)
(* kdev-net-wlan (W) and the forking server of nat_httpd.c (F).  Each      *)
(* theorem states what it needs of the constants.                          *)
(*                                                                         *)
(* The forwarder: no buffer is lost and no port runs out of them.  The     *)
(* buffers of a direction, Flow(p), are always those of whole slabs: a     *)
(* direction takes a slab from the pool or gives one back.  A direction    *)
(* whose consumer slab is empty has fewer buffers than two slabs hold and  *)
(* the other one fewer than three, so that of four slabs one is in the     *)
(* pool.                                                                   *)
(***************************************************************************)
EXTENDS XskForward, TLAPS

\* The prover of the leaves that name no other.
USE Zenon

\* The four slabs and the queues that main.c sets up satisfy this: the 16384 buffers of a
\* slab are more than half the fill queue and the transmit queue, of 8192 each.
XskSizes ==
    /\ n_slabs \in Nat /\ n_buffers_per_slab \in Nat /\ fill_size \in Nat
    /\ comp_size \in Nat /\ tx_size \in Nat
    /\ n_slabs >= 4 /\ comp_size > 0
    /\ (fill_size \div 2) + tx_size < n_buffers_per_slab

Places == {"init", "poll", "receive", "fill", "send", "peek", "collect"}
Caches == [cons : Nat, prod : Nat, n_cons : Nat, n_prod : Nat]
Threads == [at : Places, port : Ports, ready : SUBSET Ports, left : Nat, done : Nat]

XskTypes ==
    /\ n_slabs_available \in Nat /\ n_slabs_available <= n_slabs
    /\ fq \in [Ports -> Nat] /\ rxq \in [Ports -> Nat]
    /\ txq \in [Ports -> Nat] /\ cq \in [Ports -> Nat]
    /\ bc \in [Ports -> Caches]
    /\ thread \in Threads

\* A pool with n full slabs below the empty ones, and a cache that holds what it is taken to.
Slabs(n) == [k \in 0 .. n_slabs - 1 |-> IF k < n THEN n_buffers_per_slab ELSE 0]
Exact(c) == /\ c.cons = c.n_cons /\ c.cons <= n_buffers_per_slab
            /\ c.prod = c.n_prod /\ c.prod <= n_buffers_per_slab
PoolInv == slabs = Slabs(n_slabs_available) /\ \A p \in Ports : Exact(bc[p])

\* Ports that port_init has still to fill.
Unfilled(p) == thread.at = "init" /\ thread.port <= p

\* The fill queue and the packets received share half the fill queue; a packet taken leaves
\* a place to fill.
FillInv ==
    /\ \A p \in Ports :
         fq[p] + rxq[p] + (IF thread.at = "fill" /\ thread.port = p THEN 1 ELSE 0)
           = IF Unfilled(p) THEN 0 ELSE umem_fq_size
    /\ \A p \in Ports : Unfilled(p) => bc[p].cons = 0
    /\ thread.at = "init" => thread.ready = Ports
    /\ thread.at = "fill" => bc[thread.port].cons > 0

\* poll has reported no port in vain.
ReadyInv ==
    /\ thread.at = "receive" => rxq[thread.port] > 0
    /\ thread.at # "init" /\ thread.port = 0 /\ 1 \in thread.ready => rxq[1] > 0

\* What Collect has put back, and will, of the completions of the other port.
Putting(p) == IF thread.at = "collect" /\ 1 - thread.port = p THEN thread.left + thread.done ELSE 0

\* Packets a port has to send and has sent are no more than the transmit queue holds, but for
\* the one that Send adds before Peek finds what has been sent.
SentInv ==
    /\ \A p \in Ports :
         /\ txq[p] <= tx_size /\ Putting(p) <= cq[p]
         /\ ~(thread.at = "peek" /\ 1 - thread.port = p) =>
              txq[p] + cq[p] - Putting(p) <= tx_size
    /\ thread.at # "collect" => thread.left = 0 /\ thread.done = 0

\* The buffers of a direction are those of whole slabs.
Full(k) == k * n_buffers_per_slab
FlowInv ==
    \E f \in [Ports -> Nat] :
      \A p \in Ports : Flow(p) = Full(f[p]) /\ f[p] + f[1 - p] = n_slabs - n_slabs_available

XskInv == XskTypes /\ PoolInv /\ FillInv /\ ReadyInv /\ SentInv /\ FlowInv

LEMMA Sizes ==
  ASSUME XskSizes
  PROVE  /\ n_buffers_per_slab \in Nat \ {0} /\ umem_fq_size \in Nat /\ tx_size \in Nat
         /\ umem_fq_size + tx_size < n_buffers_per_slab
         /\ n_slabs \in Nat /\ n_slabs >= 4 /\ comp_size \in Nat /\ comp_size > 0
  BY SMT DEF XskSizes, umem_fq_size, BPOOL_GRP

LEMMA Whole ==
  ASSUME XskSizes
  PROVE  /\ Full(0) = 0
         /\ \A k \in Nat : Full(k) \in Nat /\ Full(k + 1) = Full(k) + n_buffers_per_slab
         /\ \A k, m \in Nat : Full(k + m) = Full(k) + Full(m)
         /\ \A k \in Nat : k >= 2 => Full(k) >= 2 * n_buffers_per_slab
         /\ \A k \in Nat : k >= 3 => Full(k) >= 3 * n_buffers_per_slab
<1>1. n_buffers_per_slab \in Nat  BY Sizes
<1>2. /\ Full(0) = 0 /\ Full(2) = 2 * n_buffers_per_slab /\ Full(3) = 3 * n_buffers_per_slab
      /\ \A k \in Nat : Full(k) \in Nat /\ Full(k + 1) = Full(k) + n_buffers_per_slab
  BY <1>1, SMT DEF Full
<1>3. \A k, m \in Nat : Full(k + m) = Full(k) + Full(m)
  BY <1>1, SMT DEF Full
<1>4. ASSUME NEW k \in Nat, NEW m \in Nat, k >= m PROVE Full(k) >= Full(m)
  <2>1. k - m \in Nat /\ (k - m) + m = k  BY <1>4, SMT
  <2>2. Full(k) = Full(k - m) + Full(m)  BY <1>3, <2>1
  <2>3. Full(k - m) \in Nat /\ Full(m) \in Nat /\ Full(k) \in Nat  BY <1>2, <2>1
  <2>4. QED  BY <2>2, <2>3, SMT
<1>5. QED  BY <1>2, <1>3, <1>4

\* The two ports.
LEMMA TwoPorts ==
  ASSUME NEW p \in Ports
  PROVE  /\ 1 - p \in Ports /\ 1 - p # p /\ 1 - (1 - p) = p /\ Ports = {p, 1 - p}
  BY SMT DEF Ports

\* The buffers of a direction stay, grow by a slab from the pool or lose one to it.
LEMMA FlowKept ==
  ASSUME FlowInv, n_slabs_available' = n_slabs_available,
         \A p \in Ports : Flow(p)' = Flow(p)
  PROVE  FlowInv'
  BY DEF FlowInv

LEMMA FlowGrows ==
  ASSUME XskSizes, XskTypes, FlowInv, NEW p \in Ports,
         n_slabs_available' = n_slabs_available - 1,
         Flow(p)' = Flow(p) + n_buffers_per_slab, Flow(1 - p)' = Flow(1 - p)
  PROVE  FlowInv'
<1>1. PICK f \in [Ports -> Nat] :
        \A x \in Ports : Flow(x) = Full(f[x]) /\ f[x] + f[1 - x] = n_slabs - n_slabs_available
  BY DEF FlowInv
<1> DEFINE g == [f EXCEPT ![p] = f[p] + 1]
<1>2. 1 - p \in Ports /\ 1 - p # p /\ 1 - (1 - p) = p /\ Ports = {p, 1 - p}  BY TwoPorts
<1>3. /\ g \in [Ports -> Nat] /\ g[p] = f[p] + 1 /\ g[1 - p] = f[1 - p]
      /\ f[p] \in Nat /\ f[1 - p] \in Nat
  BY <1>1, <1>2, SMT
<1> HIDE DEF g
<1>4. Flow(p)' = Full(g[p]) /\ Flow(1 - p)' = Full(g[1 - p])
  BY <1>1, <1>2, <1>3, Whole
<1>5. g[p] + g[1 - p] = n_slabs - n_slabs_available' /\ g[1 - p] + g[p] = n_slabs - n_slabs_available'
  BY <1>1, <1>2, <1>3, Sizes, SMT DEF XskTypes
<1>6. \A x \in Ports :
        Flow(x)' = Full(g[x]) /\ g[x] + g[1 - x] = n_slabs - n_slabs_available'
  BY <1>2, <1>4, <1>5
<1>7. QED  BY <1>3, <1>6 DEF FlowInv, Full

LEMMA FlowShrinks ==
  ASSUME XskSizes, XskTypes, FlowInv, NEW p \in Ports,
         n_slabs_available' = n_slabs_available + 1, Flow(p) \in Nat, Flow(p) > 0,
         Flow(p)' = Flow(p) - n_buffers_per_slab, Flow(1 - p)' = Flow(1 - p)
  PROVE  FlowInv' /\ n_slabs_available < n_slabs
<1>1. PICK f \in [Ports -> Nat] :
        \A x \in Ports : Flow(x) = Full(f[x]) /\ f[x] + f[1 - x] = n_slabs - n_slabs_available
  BY DEF FlowInv
<1> DEFINE g == [f EXCEPT ![p] = f[p] - 1]
<1>2. 1 - p \in Ports /\ 1 - p # p /\ 1 - (1 - p) = p /\ Ports = {p, 1 - p}  BY TwoPorts
<1>3. f[p] \in Nat /\ f[1 - p] \in Nat /\ f[p] # 0
  BY <1>1, <1>2, Whole, SMT
<1>4. /\ g \in [Ports -> Nat] /\ g[p] = f[p] - 1 /\ g[1 - p] = f[1 - p]
      /\ g[p] \in Nat /\ g[p] + 1 = f[p]
  BY <1>1, <1>2, <1>3, SMT
<1> HIDE DEF g
<1>5. Flow(p)' = Full(g[p]) /\ Flow(1 - p)' = Full(g[1 - p])
  <2>1. Full(f[p]) = Full(g[p]) + n_buffers_per_slab /\ Full(g[p]) \in Nat  BY <1>4, Whole
  <2>2. QED  BY <1>1, <1>2, <1>4, <2>1, Sizes, SMT
<1>6. /\ g[p] + g[1 - p] = n_slabs - n_slabs_available'
      /\ g[1 - p] + g[p] = n_slabs - n_slabs_available'
      /\ n_slabs_available < n_slabs
  BY <1>1, <1>2, <1>3, <1>4, Sizes, SMT DEF XskTypes
<1>7. \A x \in Ports :
        Flow(x)' = Full(g[x]) /\ g[x] + g[1 - x] = n_slabs - n_slabs_available'
  BY <1>2, <1>5, <1>6
<1>8. QED  BY <1>4, <1>6, <1>7 DEF FlowInv, Full
\* A cache and its pool, before and after bcache_cons_check, bcache_cons and bcache_prod.
Pools == [c : Caches, slabs : {Slabs(k) : k \in Nat}, n : Nat]
Sound(s) == s \in Pools /\ s.n <= n_slabs /\ s.slabs = Slabs(s.n) /\ Exact(s.c)

LEMMA SlabAt ==
  ASSUME XskSizes, NEW n \in Nat
  PROVE  /\ n > 0 /\ n <= n_slabs =>
              /\ Slabs(n)[n - 1] = n_buffers_per_slab
              /\ [Slabs(n) EXCEPT ![n - 1] = 0] = Slabs(n - 1)
         /\ n < n_slabs =>
              /\ Slabs(n)[n] = 0
              /\ [Slabs(n) EXCEPT ![n] = n_buffers_per_slab] = Slabs(n + 1)
<1>1. n_slabs \in Nat  BY Sizes
<1>2. ASSUME n > 0, n <= n_slabs
      PROVE  /\ Slabs(n)[n - 1] = n_buffers_per_slab
             /\ [Slabs(n) EXCEPT ![n - 1] = 0] = Slabs(n - 1)
  <2>1. n - 1 \in 0 .. n_slabs - 1 /\ n - 1 < n  BY <1>1, <1>2, SMT
  <2>2. Slabs(n)[n - 1] = n_buffers_per_slab  BY <2>1 DEF Slabs
  <2>3. \A k \in 0 .. n_slabs - 1 : k < n - 1 <=> k < n /\ k # n - 1  BY <1>1, SMT
  <2>4. [Slabs(n) EXCEPT ![n - 1] = 0] = Slabs(n - 1)  BY <2>3 DEF Slabs
  <2>5. QED  BY <2>2, <2>4
<1>3. ASSUME n < n_slabs
      PROVE  /\ Slabs(n)[n] = 0
             /\ [Slabs(n) EXCEPT ![n] = n_buffers_per_slab] = Slabs(n + 1)
  <2>1. n \in 0 .. n_slabs - 1 /\ ~(n < n)  BY <1>1, <1>3, SMT
  <2>2. Slabs(n)[n] = 0  BY <2>1 DEF Slabs
  <2>3. \A k \in 0 .. n_slabs - 1 : k < n + 1 <=> k < n \/ k = n  BY <1>1, SMT
  <2>4. [Slabs(n) EXCEPT ![n] = n_buffers_per_slab] = Slabs(n + 1)  BY <2>3 DEF Slabs
  <2>5. QED  BY <2>2, <2>4
<1>4. QED  BY <1>2, <1>3

LEMMA CacheIsSound ==
  ASSUME XskSizes, XskTypes, PoolInv, NEW p \in Ports
  PROVE  /\ Sound(Cache(p)) /\ Cache(p).c = bc[p] /\ Cache(p).n = n_slabs_available
  BY DEF Cache, Sound, Pools, XskTypes, PoolInv

LEMMA ConsCheck ==
  ASSUME XskSizes, NEW s, Sound(s), HasBuffer(s)
  PROVE  /\ Sound(bcache_cons_check(s)) /\ bcache_cons_check(s).c.cons > 0
         /\ bcache_cons_check(s).c.prod = s.c.prod
         /\ \/ bcache_cons_check(s) = s
            \/ /\ s.c.cons = 0 /\ bcache_cons_check(s).c.cons = n_buffers_per_slab
               /\ bcache_cons_check(s).n = s.n - 1
<1>1. /\ s.c \in Caches /\ s.n \in Nat /\ s.n <= n_slabs /\ s.slabs = Slabs(s.n) /\ Exact(s.c)
      /\ n_buffers_per_slab \in Nat \ {0}
  BY Sizes DEF Sound, Pools
<1>2. CASE s.c.n_cons # 0
  <2>1. bcache_cons_check(s) = s  BY <1>2 DEF bcache_cons_check
  <2>2. s.c.cons > 0  BY <1>1, <1>2, SMT DEF Caches, Exact
  <2>3. QED  BY <2>1, <2>2
<1>3. CASE s.c.n_cons = 0
  <2>1. s.n > 0  BY <1>1, <1>3, SMT DEF HasBuffer
  <2>2. s.c.cons = 0 /\ s.n - 1 \in Nat /\ s.n - 1 <= n_slabs
    BY <1>1, <1>3, <2>1, Sizes, SMT DEF Exact
  <2>3. s.slabs[s.n - 1] = n_buffers_per_slab /\ [s.slabs EXCEPT ![s.n - 1] = 0] = Slabs(s.n - 1)
    BY <1>1, <2>1, SlabAt
  <2> DEFINE c == [s.c EXCEPT !.cons = n_buffers_per_slab, !.n_cons = n_buffers_per_slab]
  <2>4. bcache_cons_check(s) = [c |-> c, slabs |-> Slabs(s.n - 1), n |-> s.n - 1]
    BY <1>3, <2>2, <2>3 DEF bcache_cons_check
  <2>5. /\ c \in Caches /\ c.prod = s.c.prod /\ c.cons = n_buffers_per_slab
        /\ c.n_cons = n_buffers_per_slab /\ c.n_prod = s.c.n_prod
    BY <1>1 DEF Caches
  <2> HIDE DEF c
  <2>6. Exact(c) /\ c.cons > 0  BY <1>1, <2>5, SMT DEF Exact
  <2>7. QED  BY <2>2, <2>4, <2>5, <2>6, SMT DEF Sound, Pools
<1>4. QED  BY <1>2, <1>3

LEMMA ConsTakes ==
  ASSUME XskSizes, NEW s, Sound(s), NEW k \in Nat, k <= s.c.cons
  PROVE  /\ Sound(bcache_cons(s, k)) /\ bcache_cons(s, k).n = s.n
         /\ bcache_cons(s, k).c.cons = s.c.cons - k /\ bcache_cons(s, k).c.prod = s.c.prod
<1> DEFINE c == [cons |-> s.c.cons - k, prod |-> s.c.prod, n_cons |-> s.c.n_cons - k,
                 n_prod |-> s.c.n_prod]
<1>1. /\ s \in Pools /\ s.c \in Caches /\ s.n \in Nat /\ s.n <= n_slabs
      /\ s.slabs = Slabs(s.n) /\ Exact(s.c)
  BY DEF Sound, Pools
<1>2. bcache_cons(s, k) = [c |-> c, slabs |-> s.slabs, n |-> s.n]
  <2> DEFINE d == [s.c EXCEPT !.n_cons = @ - k]
             t == [s EXCEPT !.c.n_cons = @ - k]
  <2>1. t = [c |-> d, slabs |-> s.slabs, n |-> s.n]
    BY <1>1, SMT DEF Pools
  <2>2. d = [cons |-> s.c.cons, prod |-> s.c.prod, n_cons |-> s.c.n_cons - k,
             n_prod |-> s.c.n_prod]
    BY <1>1, SMT DEF Caches
  <2>3. bcache_cons(s, k) = [t EXCEPT !.c.cons = @ - k]
    BY DEF bcache_cons
  <2> HIDE DEF d, t
  <2>4. [t EXCEPT !.c.cons = @ - k] =
          [c |-> [d EXCEPT !.cons = @ - k], slabs |-> s.slabs, n |-> s.n]
    BY <2>1, SMT
  <2>5. [d EXCEPT !.cons = @ - k] = c  BY <2>2, SMT
  <2>6. QED  BY <2>3, <2>4, <2>5
<1>3. /\ c.cons = s.c.cons - k /\ c.n_cons = s.c.n_cons - k
      /\ c.prod = s.c.prod /\ c.n_prod = s.c.n_prod
  BY <1>1 DEF Caches
<1>4. c \in Caches
  <2>1. s.c.cons - k \in Nat /\ s.c.n_cons - k \in Nat  BY <1>1, SMT DEF Caches, Exact
  <2>2. QED  BY <1>1, <2>1 DEF Caches
<1> HIDE DEF c
<1>5. Exact(c)  BY <1>1, <1>3, <1>4, Sizes, SMT DEF Exact, Caches
<1>6. QED  BY <1>1, <1>2, <1>3, <1>4, <1>5, SMT DEF Sound, Pools

LEMMA ProdPuts ==
  ASSUME XskSizes, NEW s, Sound(s), s.c.prod = n_buffers_per_slab => s.n < n_slabs
  PROVE  /\ Sound(bcache_prod(s)) /\ bcache_prod(s).c.cons = s.c.cons
         /\ \/ bcache_prod(s).n = s.n /\ bcache_prod(s).c.prod = s.c.prod + 1
            \/ /\ bcache_prod(s).n = s.n + 1 /\ bcache_prod(s).c.prod = 1
               /\ s.c.prod = n_buffers_per_slab
<1>1. /\ s \in Pools /\ s.c \in Caches /\ s.n \in Nat /\ s.n <= n_slabs
      /\ s.slabs = Slabs(s.n) /\ Exact(s.c)
      /\ n_buffers_per_slab \in Nat \ {0} /\ n_slabs \in Nat
  BY Sizes DEF Sound, Pools
<1>2. CASE s.c.n_prod < n_buffers_per_slab
  <2> DEFINE c == [cons |-> s.c.cons, prod |-> s.c.prod + 1, n_cons |-> s.c.n_cons,
                   n_prod |-> s.c.n_prod + 1]
  <2>1. bcache_prod(s) = [c |-> c, slabs |-> s.slabs, n |-> s.n]
    <3> DEFINE d == [s.c EXCEPT !.n_prod = @ + 1]
               t == [s EXCEPT !.c.n_prod = @ + 1]
    <3>1. t = [c |-> d, slabs |-> s.slabs, n |-> s.n]
      BY <1>1, SMT DEF Pools
    <3>2. d = [cons |-> s.c.cons, prod |-> s.c.prod, n_cons |-> s.c.n_cons,
               n_prod |-> s.c.n_prod + 1]
      BY <1>1, SMT DEF Caches
    <3>3. bcache_prod(s) = [t EXCEPT !.c.prod = @ + 1]
      BY <1>2 DEF bcache_prod
    <3> HIDE DEF d, t
    <3>4. [t EXCEPT !.c.prod = @ + 1] =
            [c |-> [d EXCEPT !.prod = @ + 1], slabs |-> s.slabs, n |-> s.n]
      BY <3>1, SMT
    <3>5. [d EXCEPT !.prod = @ + 1] = c  BY <3>2, SMT
    <3>6. QED  BY <3>3, <3>4, <3>5
  <2>2. /\ c \in Caches /\ c.cons = s.c.cons /\ c.n_cons = s.c.n_cons
        /\ c.prod = s.c.prod + 1 /\ c.n_prod = s.c.n_prod + 1
    BY <1>1, SMT DEF Caches
  <2> HIDE DEF c
  <2>3. Exact(c)  BY <1>1, <1>2, <2>2, SMT DEF Exact, Caches
  <2>4. QED  BY <1>1, <2>1, <2>2, <2>3, SMT DEF Sound, Pools
<1>3. CASE ~(s.c.n_prod < n_buffers_per_slab)
  <2>1. s.c.prod = n_buffers_per_slab  BY <1>1, <1>3, SMT DEF Exact, Caches
  <2>2. s.n < n_slabs /\ s.n + 1 \in Nat /\ s.n + 1 <= n_slabs  BY <1>1, <2>1, SMT
  <2>3. s.slabs[s.n] = 0 /\ [s.slabs EXCEPT ![s.n] = n_buffers_per_slab] = Slabs(s.n + 1)
    BY <1>1, <2>2, SlabAt
  <2> DEFINE c == [s.c EXCEPT !.n_prod = 1, !.prod = 1]
  <2>4. bcache_prod(s) = [c |-> c, slabs |-> Slabs(s.n + 1), n |-> s.n + 1]
    BY <1>3, <2>1, <2>3, SMT DEF bcache_prod
  <2>5. /\ c \in Caches /\ c.cons = s.c.cons /\ c.n_cons = s.c.n_cons
        /\ c.prod = 1 /\ c.n_prod = 1
    BY <1>1 DEF Caches
  <2> HIDE DEF c
  <2>6. Exact(c)  BY <1>1, <2>5, SMT DEF Exact
  <2>7. QED  BY <2>1, <2>2, <2>4, <2>5, <2>6, SMT DEF Sound, Pools
<1>4. QED  BY <1>2, <1>3

LEMMA Trade ==
  ASSUME XskTypes, PoolInv, NEW p \in Ports, NEW s, Sound(s), SetCache(p, s)
  PROVE  /\ PoolInv' /\ bc' \in [Ports -> Caches]
         /\ bc'[p] = s.c /\ bc'[1 - p] = bc[1 - p]
         /\ n_slabs_available' = s.n /\ s.n \in Nat /\ s.n <= n_slabs
<1>1. /\ bc' = [bc EXCEPT ![p] = s.c] /\ slabs' = s.slabs /\ n_slabs_available' = s.n
      /\ s.c \in Caches /\ s.n \in Nat /\ s.n <= n_slabs /\ s.slabs = Slabs(s.n) /\ Exact(s.c)
  BY DEF SetCache, Sound, Pools
<1>2. 1 - p \in Ports /\ 1 - p # p  BY TwoPorts
<1>3. /\ bc' \in [Ports -> Caches] /\ bc'[p] = s.c /\ bc'[1 - p] = bc[1 - p]
      /\ \A q \in Ports : bc'[q] = s.c \/ bc'[q] = bc[q]
  BY <1>1, <1>2 DEF XskTypes
<1>4. slabs' = Slabs(n_slabs_available') /\ \A q \in Ports : Exact(bc'[q])
  BY <1>1, <1>3 DEF PoolInv
<1>5. PoolInv'  BY <1>4 DEF PoolInv, Slabs, Exact
<1>6. QED  BY <1>1, <1>3, <1>5
\* The packet in hand, and the completions put back, by where the thread is.
Counted ==
    /\ thread.at \notin {"fill", "send"} => \A p \in Ports : Held(p) = 0
    /\ thread.at \in {"fill", "send"} =>
         Held(thread.port) = 1 /\ Held(1 - thread.port) = 0
    /\ thread.at # "collect" => \A p \in Ports : Done(p) = 0
    /\ thread.at = "collect" =>
         Done(1 - thread.port) = thread.done /\ Done(thread.port) = 0

LEMMA Counts == XskTypes => Counted
  BY TwoPorts DEF Counted, XskTypes, Threads, Held, Done, At, Port, Peer

LEMMA FlowIs ==
  ASSUME NEW p \in Ports
  PROVE  Flow(p) = bc[p].cons + fq[p] + rxq[p] + Held(p) + txq[1 - p] + cq[1 - p]
                     - Done(1 - p) + bc[1 - p].prod
  BY DEF Flow

LEMMA ToNextPort ==
  ASSUME XskTypes, NEW where \in Places, NEW end \in Places, NextPort(where, end)
  PROVE  /\ thread' \in Threads
         /\ \/ /\ thread.port = 0 /\ 1 \in thread.ready /\ thread'.at = where
               /\ thread'.port = 1 /\ thread'.ready = thread.ready
               /\ thread'.left = thread.left /\ thread'.done = 0
            \/ /\ ~(thread.port = 0 /\ 1 \in thread.ready) /\ thread'.at = end
               /\ thread'.port = 0 /\ thread'.ready = {}
               /\ thread'.left = 0 /\ thread'.done = 0
<1>1. CASE thread.port = 0 /\ 1 \in thread.ready
  <2>1. thread' = [thread EXCEPT !.at = where, !.port = 1, !.done = 0]
    BY <1>1 DEF NextPort, Port
  <2>2. QED  BY <1>1, <2>1 DEF XskTypes, Threads, Ports
<1>2. CASE ~(thread.port = 0 /\ 1 \in thread.ready)
  <2>1. thread' = [at |-> end, port |-> 0, ready |-> {}, left |-> 0, done |-> 0]
    BY <1>2 DEF NextPort, Port
  <2>2. QED  BY <1>2, <2>1 DEF Threads, Ports
<1>3. QED  BY <1>1, <1>2

LEMMA PortInitStep ==
  ASSUME XskSizes, XskInv, port_init
  PROVE  XskInv'
<1>1. PICK p \in Ports : p = thread.port  BY DEF XskInv, XskTypes, Threads
<1> DEFINE q == 1 - p
           s == bcache_cons_check(Cache(p))
           t == bcache_cons(s, umem_fq_size)
<1>2. XskTypes /\ PoolInv /\ FillInv /\ SentInv /\ FlowInv
  BY DEF XskInv
<1>3. q \in Ports /\ q # p /\ 1 - q = p /\ 1 - p = q /\ Ports = {p, q}  BY TwoPorts
<1>4. /\ thread.at = "init" /\ HasBuffer(Cache(p)) /\ SetCache(p, t)
      /\ fq' = [fq EXCEPT ![p] = umem_fq_size] /\ NextPort("init", "poll")
      /\ UNCHANGED <<rxq, txq, cq>>
  BY <1>1 DEF port_init, At, Port
<1>5. thread.ready = Ports /\ bc[p].cons = 0 /\ fq[p] = 0 /\ rxq[p] = 0
  <2>1. Unfilled(p) /\ thread.ready = Ports  BY <1>1, <1>2, <1>4, SMT DEF FillInv, Unfilled, Ports
  <2>2. fq[p] + rxq[p] = 0 /\ fq[p] \in Nat /\ rxq[p] \in Nat /\ bc[p].cons = 0
    BY <1>2, <1>4, <2>1, SMT DEF FillInv, XskTypes
  <2>3. QED  BY <2>1, <2>2, SMT
<1>6. /\ Sound(s) /\ s.c.prod = bc[p].prod /\ s.c.cons = n_buffers_per_slab
      /\ s.n = n_slabs_available - 1
  <2>1. Sound(Cache(p)) /\ Cache(p).c = bc[p] /\ Cache(p).n = n_slabs_available
    BY <1>2, CacheIsSound
  <2>2. Sound(s) /\ s.c.cons > 0 /\ s.c.prod = Cache(p).c.prod
        /\ (s = Cache(p) \/ (s.c.cons = n_buffers_per_slab /\ s.n = Cache(p).n - 1))
    BY <1>4, <2>1, ConsCheck
  <2> HIDE DEF s
  <2>3. s # Cache(p)  BY <1>5, <2>1, <2>2, SMT
  <2>4. QED  BY <2>1, <2>2, <2>3
<1>7. /\ Sound(t) /\ t.n = n_slabs_available - 1 /\ t.c.prod = bc[p].prod
      /\ t.c.cons = n_buffers_per_slab - umem_fq_size
  <2>1. umem_fq_size \in Nat /\ umem_fq_size <= s.c.cons  BY <1>6, Sizes, SMT
  <2> HIDE DEF s
  <2>2. QED  BY <1>6, <2>1, ConsTakes
<1> HIDE DEF s, t
<1>8. /\ PoolInv' /\ bc' \in [Ports -> Caches] /\ bc'[p] = t.c /\ bc'[q] = bc[q]
      /\ n_slabs_available' = t.n /\ t.n \in Nat /\ t.n <= n_slabs
  BY <1>2, <1>4, <1>7, Trade
<1>9. /\ thread' \in Threads /\ thread'.left = thread.left /\ thread'.done = 0
      /\ \/ p = 0 /\ thread'.at = "init" /\ thread'.port = 1 /\ thread'.ready = Ports
         \/ p = 1 /\ thread'.at = "poll" /\ thread'.port = 0 /\ thread'.ready = {}
  <2>1. "init" \in Places /\ "poll" \in Places  BY DEF Places
  <2>2. thread.left = 0 /\ 1 \in thread.ready  BY <1>2, <1>4, <1>5 DEF SentInv, Ports
  <2>3. QED  BY <1>1, <1>2, <1>4, <1>5, <2>1, <2>2, ToNextPort DEF Ports
<1>10. /\ fq' \in [Ports -> Nat] /\ fq'[p] = umem_fq_size /\ fq'[q] = fq[q]
  BY <1>2, <1>3, <1>4, Sizes DEF XskTypes
<1>11. XskTypes'  BY <1>2, <1>4, <1>8, <1>9, <1>10 DEF XskTypes
<1>12. FillInv'
  <2>1. \A x \in Ports : fq'[x] + rxq'[x] = IF Unfilled(x)' THEN 0 ELSE umem_fq_size
    <3>1. fq'[p] + rxq'[p] = umem_fq_size
      BY <1>4, <1>5, <1>10, Sizes, SMT
    <3>2. ~Unfilled(p)'
      BY <1>9, SMT DEF Unfilled
    <3>3. Unfilled(q)' <=> Unfilled(q)
      BY <1>1, <1>4, <1>9, SMT DEF Unfilled
    <3>4. fq[q] + rxq[q] = IF Unfilled(q) THEN 0 ELSE umem_fq_size
      <4>1. fq[q] \in Nat /\ rxq[q] \in Nat  BY <1>2, <1>3 DEF XskTypes
      <4>2. fq[q] + rxq[q] + 0 = IF Unfilled(q) THEN 0 ELSE umem_fq_size
        BY <1>2, <1>3, <1>4 DEF FillInv
      <4>3. QED  BY <4>1, <4>2, SMT
    <3>5. fq'[q] + rxq'[q] = fq[q] + rxq[q]  BY <1>4, <1>10
    <3>6. QED  BY <1>3, <3>1, <3>2, <3>3, <3>4, <3>5
  <2>2. \A x \in Ports : Unfilled(x)' => bc'[x].cons = 0
    BY <1>1, <1>2, <1>3, <1>4, <1>8, <1>9, SMT DEF Unfilled, FillInv, Ports
  <2>3. thread'.at # "fill" /\ (thread'.at = "init" => thread'.ready = Ports)  BY <1>9
  <2>4. fq' \in [Ports -> Nat] /\ rxq' \in [Ports -> Nat]  BY <1>11 DEF XskTypes
  <2>5. QED  BY <2>1, <2>2, <2>3, <2>4, SMT DEF FillInv, umem_fq_size, Unfilled
<1>13. ReadyInv'  BY <1>9 DEF ReadyInv
<1>14. SentInv'
  <2>1. \A x \in Ports : Putting(x) = 0 /\ Putting(x)' = 0  BY <1>4, <1>9 DEF Putting
  <2>2. thread.left = 0  BY <1>2, <1>4 DEF SentInv
  <2>3. QED  BY <1>2, <1>4, <1>9, <2>1, <2>2 DEF SentInv
<1>15. FlowInv'
  <2>1. Counted /\ Counted'  BY <1>2, <1>11, Counts, PTL
  <2>2. /\ \A x \in Ports : Held(x) = 0 /\ Done(x) = 0
        /\ \A x \in Ports : Held(x)' = 0 /\ Done(x)' = 0
    BY <1>4, <1>9, <2>1 DEF Counted
  <2>3. /\ bc[p].cons = 0 /\ bc'[p].cons = n_buffers_per_slab - umem_fq_size
        /\ bc'[p].prod = bc[p].prod /\ bc'[q] = bc[q]
    BY <1>5, <1>7, <1>8
  <2>4. Flow(p)' = Flow(p) + n_buffers_per_slab
    BY <1>2, <1>3, <1>4, <1>5, <1>10, <2>2, <2>3, Sizes, SMT DEF Flow, XskTypes, Caches
  <2>5. Flow(q)' = Flow(q)
    BY <1>3, <1>4, <1>10, <2>2, <2>3 DEF Flow
  <2>6. QED  BY <1>2, <1>7, <1>8, <2>4, <2>5, FlowGrows
<1>16. QED  BY <1>8, <1>11, <1>12, <1>13, <1>14, <1>15 DEF XskInv
\* What a step leaves alone.
LEMMA PoolKept ==
  ASSUME PoolInv, UNCHANGED <<slabs, n_slabs_available, bc>>
  PROVE  PoolInv'
  BY DEF PoolInv, Slabs, Exact

LEMMA FillKept ==
  ASSUME FillInv, UNCHANGED <<fq, rxq>>, thread.at \notin {"init", "fill"},
         thread'.at \notin {"init", "fill"}
  PROVE  FillInv'
  BY DEF FillInv, Unfilled, umem_fq_size

LEMMA SentKept ==
  ASSUME SentInv, UNCHANGED <<txq, cq>>, thread.at \notin {"peek", "collect"},
         thread'.at \notin {"peek", "collect"}, thread'.left = 0, thread'.done = 0
  PROVE  SentInv'
<1>1. \A p \in Ports : Putting(p) = 0 /\ Putting(p)' = 0  BY DEF Putting
<1>2. QED  BY <1>1 DEF SentInv

LEMMA PollStep ==
  ASSUME XskSizes, XskInv, thread_func_poll
  PROVE  XskInv'
<1>1. XskTypes /\ PoolInv /\ FillInv /\ SentInv /\ FlowInv  BY DEF XskInv
<1>2. /\ thread.at = "poll" /\ \E p \in Ports : rxq[p] > 0
      /\ thread' = [thread EXCEPT !.at = "receive", !.port = IF rxq[0] > 0 THEN 0 ELSE 1,
                                 !.ready = {p \in Ports : rxq[p] > 0}]
      /\ UNCHANGED <<slabs, n_slabs_available, bc, fq, rxq, txq, cq>>
  BY DEF thread_func_poll, At, pool, rings
<1>3. /\ thread' \in Threads /\ thread'.at = "receive"
      /\ thread'.port = (IF rxq[0] > 0 THEN 0 ELSE 1)
      /\ thread'.ready = {p \in Ports : rxq[p] > 0}
      /\ thread'.left = thread.left /\ thread'.done = thread.done
  BY <1>1, <1>2 DEF XskTypes, Threads, Places, Ports
<1>4. XskTypes'  BY <1>1, <1>2, <1>3 DEF XskTypes
<1>5. PoolInv' /\ FillInv'  BY <1>1, <1>2, <1>3, PoolKept, FillKept
<1>6. SentInv'
  <2>1. thread.left = 0 /\ thread.done = 0  BY <1>1, <1>2 DEF SentInv
  <2>2. QED  BY <1>1, <1>2, <1>3, <2>1, SentKept
<1>7. ReadyInv'  BY <1>2, <1>3 DEF ReadyInv, Ports
<1>8. FlowInv'
  <2>1. Counted /\ Counted'  BY <1>1, <1>4, Counts, PTL
  <2>2. \A x \in Ports : /\ Held(x) = 0 /\ Done(x) = 0 /\ Held(x)' = 0
                           /\ Done(x)' = 0 /\ 1 - x \in Ports
    BY <1>2, <1>3, <2>1, TwoPorts DEF Counted
  <2>3. \A x \in Ports : Flow(x)' = Flow(x)  BY <1>2, <2>2 DEF Flow
  <2>4. QED  BY <1>1, <1>2, <2>3, FlowKept
<1>9. QED  BY <1>4, <1>5, <1>6, <1>7, <1>8 DEF XskInv

LEMMA ReceiveStep ==
  ASSUME XskSizes, XskInv, Receive
  PROVE  XskInv'
<1>1. PICK p \in Ports : p = thread.port  BY SMT DEF XskInv, XskTypes, Threads
<1> DEFINE q == 1 - p
           s == bcache_cons_check(Cache(p))
<1>2. XskTypes /\ PoolInv /\ FillInv /\ ReadyInv /\ SentInv /\ FlowInv  BY DEF XskInv
<1>3. q \in Ports /\ q # p /\ 1 - q = p /\ 1 - p = q /\ Ports = {p, q}  BY TwoPorts, SMT
<1>4. thread.at = "receive" /\ UNCHANGED <<fq, txq, cq>> /\ rxq[p] > 0
  BY <1>1, <1>2 DEF Receive, At, ReadyInv
<1>5. thread.left = 0 /\ thread.done = 0  BY <1>2, <1>4 DEF SentInv
<1>6. Counted  BY <1>2, Counts
<1>7. CASE HasBuffer(Cache(p))
  <2>1. /\ SetCache(p, s) /\ rxq' = [rxq EXCEPT ![p] = @ - 1]
        /\ thread' = [thread EXCEPT !.at = "fill"]
    BY <1>1, <1>7 DEF Receive, Port, Then
  <2>2. Sound(Cache(p)) /\ Cache(p).c = bc[p] /\ Cache(p).n = n_slabs_available
    BY <1>2, CacheIsSound
  <2>3. /\ Sound(s) /\ s.c.cons > 0 /\ s.c.prod = bc[p].prod
        /\ \/ s.c.cons = bc[p].cons /\ s.n = n_slabs_available
           \/ /\ bc[p].cons = 0 /\ s.c.cons = n_buffers_per_slab
              /\ s.n = n_slabs_available - 1
    BY <1>7, <2>2, ConsCheck
  <2> HIDE DEF s
  <2>4. /\ PoolInv' /\ bc' \in [Ports -> Caches] /\ bc'[p] = s.c /\ bc'[q] = bc[q]
        /\ n_slabs_available' = s.n /\ s.n \in Nat /\ s.n <= n_slabs
    BY <1>2, <2>1, <2>3, Trade
  <2>5. /\ thread' \in Threads /\ thread'.at = "fill" /\ thread'.port = p
        /\ thread'.ready = thread.ready /\ thread'.left = 0 /\ thread'.done = 0
    BY <1>1, <1>2, <1>5, <2>1 DEF XskTypes, Threads, Places
  <2>6. /\ rxq' \in [Ports -> Nat] /\ rxq'[p] = rxq[p] - 1 /\ rxq'[q] = rxq[q]
    BY <1>2, <1>3, <1>4, <2>1, SMT DEF XskTypes
  <2>7. XskTypes'  BY <1>2, <1>4, <2>4, <2>5, <2>6 DEF XskTypes
  <2>8. FillInv'
    <3>1. \A x \in Ports : fq[x] \in Nat /\ rxq[x] \in Nat  BY <1>2 DEF XskTypes
    <3>2. \A x \in Ports : fq[x] + rxq[x] + 0 = umem_fq_size
      BY <1>2, <1>4 DEF FillInv, Unfilled
    <3>3. fq'[p] + rxq'[p] + 1 = umem_fq_size /\ fq'[q] + rxq'[q] + 0 = umem_fq_size
      BY <1>3, <1>4, <2>6, <3>1, <3>2, Sizes, SMT
    <3>4. \A x \in Ports : ~Unfilled(x)'  BY <2>5 DEF Unfilled
    <3>5. \A x \in Ports :
            fq'[x] + rxq'[x] + (IF thread'.at = "fill" /\ thread'.port = x THEN 1 ELSE 0)
              = umem_fq_size
      BY <1>3, <2>5, <3>3
    <3>6. bc'[p].cons > 0  BY <2>3, <2>4
    <3>7. QED  BY <2>5, <3>4, <3>5, <3>6 DEF FillInv, umem_fq_size
  <2>9. ReadyInv'  BY <1>1, <1>2, <1>3, <1>4, <2>5, <2>6 DEF ReadyInv, Ports
  <2>10. SentInv'  BY <1>2, <1>4, <2>5, SentKept
  <2>11. FlowInv'
    <3>1. Counted'  BY <2>7, Counts, PTL
    <3>2. /\ Held(p) = 0 /\ Held(q) = 0 /\ Done(p) = 0 /\ Done(q) = 0
          /\ Held(p)' = 1 /\ Held(q)' = 0 /\ Done(p)' = 0 /\ Done(q)' = 0
      BY <1>1, <1>3, <1>4, <1>6, <2>5, <3>1 DEF Counted
    <3>3. bc[p] \in Caches /\ bc[q] \in Caches /\ fq[p] \in Nat /\ rxq[p] \in Nat
          /\ txq[q] \in Nat /\ cq[q] \in Nat
      BY <1>2, <1>3 DEF XskTypes
    <3>4. Flow(q)' = Flow(q)
      BY <1>3, <1>4, <2>3, <2>4, <2>6, <3>2 DEF Flow
    <3>5. CASE s.c.cons = bc[p].cons /\ s.n = n_slabs_available
      <4>1. Flow(p)' = Flow(p)
        BY <1>3, <1>4, <2>3, <2>4, <2>6, <3>2, <3>3, <3>5, SMT DEF Flow, Caches
      <4>2. QED  BY <1>2, <1>3, <2>4, <3>4, <3>5, <4>1, FlowKept
    <3>6. CASE bc[p].cons = 0 /\ s.c.cons = n_buffers_per_slab /\ s.n = n_slabs_available - 1
      <4>1. Flow(p)' = Flow(p) + n_buffers_per_slab
        BY <1>3, <1>4, <2>3, <2>4, <2>6, <3>2, <3>3, <3>6, Sizes, SMT DEF Flow, Caches
      <4>2. QED  BY <1>2, <1>3, <2>4, <3>4, <3>6, <4>1, FlowGrows
    <3>7. QED  BY <2>3, <3>5, <3>6
  <2>12. QED  BY <2>4, <2>7, <2>8, <2>9, <2>10, <2>11, SMT DEF XskInv
<1>8. CASE ~HasBuffer(Cache(p))
  <2>1. NextPort("receive", "poll") /\ UNCHANGED <<slabs, n_slabs_available, bc, rxq>>
    BY <1>1, <1>8 DEF Receive, Port, pool
  <2>2. /\ thread' \in Threads /\ thread'.left = 0 /\ thread'.done = 0
        /\ \/ /\ thread.port = 0 /\ 1 \in thread.ready /\ thread'.at = "receive"
              /\ thread'.port = 1
           \/ thread'.at = "poll" /\ thread'.ready = {}
    <3>1. "receive" \in Places /\ "poll" \in Places  BY DEF Places
    <3>2. QED  BY <1>2, <1>5, <2>1, <3>1, ToNextPort
  <2>3. thread'.at \in {"receive", "poll"}  BY <2>2
  <2>4. XskTypes'  BY <1>2, <1>4, <2>1, <2>2 DEF XskTypes
  <2>5. PoolInv' /\ FillInv' /\ SentInv'
    BY <1>2, <1>4, <2>1, <2>2, <2>3, PoolKept, FillKept, SentKept
  <2>6. ReadyInv'  BY <1>2, <1>4, <2>1, <2>2 DEF ReadyInv
  <2>7. Counted'  BY <2>4, Counts, PTL
  <2>8. \A x \in Ports : /\ Held(x) = 0 /\ Done(x) = 0 /\ Held(x)' = 0
                           /\ Done(x)' = 0 /\ 1 - x \in Ports
    BY <1>4, <1>6, <2>3, <2>7, TwoPorts DEF Counted
  <2>9. \A x \in Ports : Flow(x)' = Flow(x)  BY <1>4, <2>1, <2>8 DEF Flow
  <2>10. FlowInv'  BY <1>2, <2>1, <2>9, FlowKept
  <2>11. QED  BY <2>4, <2>5, <2>6, <2>10 DEF XskInv
<1>9. QED  BY <1>7, <1>8
LEMMA FillStep ==
  ASSUME XskSizes, XskInv, Fill
  PROVE  XskInv'
<1>1. PICK p \in Ports : p = thread.port  BY SMT DEF XskInv, XskTypes, Threads
<1> DEFINE q == 1 - p
           s == bcache_cons(Cache(p), 1)
<1>2. XskTypes /\ PoolInv /\ FillInv /\ ReadyInv /\ SentInv /\ FlowInv  BY SMT DEF XskInv
<1>3. q \in Ports /\ q # p /\ 1 - q = p /\ 1 - p = q /\ Ports = {p, q}  BY TwoPorts, SMT
<1>4. /\ thread.at = "fill" /\ fq' = [fq EXCEPT ![p] = @ + 1] /\ SetCache(p, s)
      /\ thread' = [thread EXCEPT !.at = "send"] /\ UNCHANGED <<rxq, txq, cq>>
  BY <1>1 DEF Fill, At, Port, Then
<1>5. thread.left = 0 /\ thread.done = 0 /\ bc[p].cons > 0
  BY <1>1, <1>2, <1>4 DEF SentInv, FillInv
<1>6. Sound(s) /\ s.n = n_slabs_available /\ s.c.cons = bc[p].cons - 1 /\ s.c.prod = bc[p].prod
  <2>1. Sound(Cache(p)) /\ Cache(p).c = bc[p] /\ Cache(p).n = n_slabs_available
    BY <1>2, CacheIsSound, SMT
  <2>2. 1 <= Cache(p).c.cons  BY <1>2, <1>5, <2>1, SMT DEF XskTypes, Caches
  <2>3. QED  BY <2>1, <2>2, ConsTakes, SMT
<1> HIDE DEF s
<1>7. /\ PoolInv' /\ bc' \in [Ports -> Caches] /\ bc'[p] = s.c /\ bc'[q] = bc[q]
      /\ n_slabs_available' = n_slabs_available
  BY <1>2, <1>4, <1>6, Trade
<1>8. /\ thread' \in Threads /\ thread'.at = "send" /\ thread'.port = p
      /\ thread'.ready = thread.ready /\ thread'.left = 0 /\ thread'.done = 0
  BY <1>1, <1>2, <1>4, <1>5 DEF XskTypes, Threads, Places
<1>9. fq' \in [Ports -> Nat] /\ fq'[p] = fq[p] + 1 /\ fq'[q] = fq[q]
  BY <1>2, <1>3, <1>4, SMT DEF XskTypes
<1>10. XskTypes'  BY <1>2, <1>4, <1>7, <1>8, <1>9 DEF XskTypes
<1>11. FillInv'
  <2>1. \A x \in Ports : fq[x] \in Nat /\ rxq[x] \in Nat  BY <1>2, SMT DEF XskTypes
  <2>2. fq[p] + rxq[p] + 1 = umem_fq_size /\ fq[q] + rxq[q] + 0 = umem_fq_size
    BY <1>1, <1>2, <1>3, <1>4 DEF FillInv, Unfilled
  <2>3. fq'[p] + rxq'[p] + 0 = umem_fq_size /\ fq'[q] + rxq'[q] + 0 = umem_fq_size
    BY <1>3, <1>4, <1>9, <2>1, <2>2, Sizes, SMT
  <2>4. \A x \in Ports : ~Unfilled(x)'  BY <1>8 DEF Unfilled
  <2>5. \A x \in Ports : fq'[x] + rxq'[x] + 0 = umem_fq_size  BY <1>3, <2>3
  <2>6. QED  BY <1>8, <2>4, <2>5 DEF FillInv, umem_fq_size
<1>12. ReadyInv'  BY <1>1, <1>2, <1>4, <1>8 DEF ReadyInv
<1>13. SentInv'  BY <1>2, <1>4, <1>8, SentKept
<1>14. FlowInv'
  <2>1. Counted /\ Counted'  BY <1>2, <1>10, Counts, PTL
  <2>2. /\ Held(p) = 1 /\ Held(q) = 0 /\ Done(p) = 0 /\ Done(q) = 0
        /\ Held(p)' = 1 /\ Held(q)' = 0 /\ Done(p)' = 0 /\ Done(q)' = 0
    BY <1>1, <1>3, <1>4, <1>8, <2>1 DEF Counted
  <2>3. bc[p] \in Caches /\ bc[q] \in Caches /\ fq[p] \in Nat /\ rxq[p] \in Nat
        /\ txq[q] \in Nat /\ cq[q] \in Nat
    BY <1>2, <1>3, SMT DEF XskTypes
  <2>4. Flow(q)' = Flow(q)  BY <1>3, <1>4, <1>6, <1>7, <1>9, <2>2 DEF Flow
  <2>5. Flow(p)' = Flow(p)
    BY <1>3, <1>4, <1>6, <1>7, <1>9, <2>2, <2>3, SMT DEF Flow, Caches
  <2>6. QED  BY <1>2, <1>3, <1>7, <2>4, <2>5, FlowKept
<1>15. QED  BY <1>7, <1>10, <1>11, <1>12, <1>13, <1>14 DEF XskInv

LEMMA SendStep ==
  ASSUME XskSizes, XskInv, Send
  PROVE  XskInv'
<1>1. PICK p \in Ports : p = thread.port  BY SMT DEF XskInv, XskTypes, Threads
<1> DEFINE q == 1 - p
<1>2. XskTypes /\ PoolInv /\ FillInv /\ ReadyInv /\ SentInv /\ FlowInv  BY SMT DEF XskInv
<1>3. q \in Ports /\ q # p /\ 1 - q = p /\ 1 - p = q /\ Ports = {p, q}  BY TwoPorts, SMT
<1>4. /\ thread.at = "send" /\ txq[q] < tx_size /\ txq' = [txq EXCEPT ![q] = @ + 1]
      /\ thread' = [thread EXCEPT !.at = "peek"]
      /\ UNCHANGED <<slabs, n_slabs_available, bc, fq, rxq, cq>>
  BY <1>1 DEF Send, At, Peer, Then, pool
<1>5. /\ thread' \in Threads /\ thread'.at = "peek" /\ thread'.port = p
      /\ thread'.ready = thread.ready /\ thread'.left = 0 /\ thread'.done = 0
  BY <1>1, <1>2, <1>4 DEF XskTypes, Threads, Places, SentInv
<1>6. txq' \in [Ports -> Nat] /\ txq'[q] = txq[q] + 1 /\ txq'[p] = txq[p] /\ txq[q] \in Nat
  BY <1>2, <1>3, <1>4, SMT DEF XskTypes
<1>7. XskTypes'  BY <1>2, <1>4, <1>5, <1>6 DEF XskTypes
<1>8. PoolInv' /\ FillInv'  BY <1>2, <1>4, <1>5, PoolKept, FillKept
<1>9. ReadyInv'  BY <1>1, <1>2, <1>4, <1>5 DEF ReadyInv
<1>10. SentInv'
  <2>1. \A x \in Ports : Putting(x) = 0 /\ Putting(x)' = 0  BY <1>4, <1>5 DEF Putting
  <2>2. txq[p] <= tx_size /\ 0 <= cq[p] /\ 0 <= cq[q] /\ txq[p] + cq[p] - 0 <= tx_size
    BY <1>2, <1>3, <1>4, <2>1 DEF SentInv
  <2>3. txq'[q] <= tx_size  BY <1>4, <1>6, Sizes, SMT
  <2>4. QED  BY <1>3, <1>4, <1>5, <1>6, <2>1, <2>2, <2>3 DEF SentInv
<1>11. FlowInv'
  <2>1. Counted /\ Counted'  BY <1>2, <1>7, Counts, PTL
  <2>2. /\ Held(p) = 1 /\ Held(q) = 0 /\ Done(p) = 0 /\ Done(q) = 0
        /\ Held(p)' = 0 /\ Held(q)' = 0 /\ Done(p)' = 0 /\ Done(q)' = 0
    BY <1>1, <1>3, <1>4, <1>5, <2>1 DEF Counted
  <2>3. bc[p] \in Caches /\ bc[q] \in Caches /\ fq[p] \in Nat /\ rxq[p] \in Nat
        /\ txq[q] \in Nat /\ cq[q] \in Nat
    BY <1>2, <1>3, SMT DEF XskTypes
  <2>4. Flow(q)' = Flow(q)  BY <1>3, <1>4, <1>6, <2>2 DEF Flow
  <2>5. Flow(p)' = Flow(p)  BY <1>3, <1>4, <1>6, <2>2, <2>3, SMT DEF Flow, Caches
  <2>6. QED  BY <1>2, <1>3, <1>4, <2>4, <2>5, FlowKept
<1>12. QED  BY <1>7, <1>8, <1>9, <1>10, <1>11 DEF XskInv

LEMMA PeekStep ==
  ASSUME XskSizes, XskInv, Peek
  PROVE  XskInv'
<1>1. PICK p \in Ports : p = thread.port  BY SMT DEF XskInv, XskTypes, Threads
<1> DEFINE q == 1 - p
<1>2. XskTypes /\ PoolInv /\ FillInv /\ ReadyInv /\ SentInv /\ FlowInv  BY SMT DEF XskInv
<1>3. q \in Ports /\ q # p /\ 1 - q = p /\ 1 - p = q /\ Ports = {p, q}  BY TwoPorts, SMT
<1>4. /\ thread.at = "peek" /\ thread' = [thread EXCEPT !.at = "collect", !.left = cq[q]]
      /\ UNCHANGED <<slabs, n_slabs_available, bc, fq, rxq, txq, cq>>
  BY <1>1 DEF Peek, At, Peer, pool, rings
<1>5. /\ cq[p] \in Nat /\ cq[q] \in Nat /\ txq[p] \in Nat /\ txq[q] \in Nat
      /\ thread.left = 0 /\ thread.done = 0
  BY <1>2, <1>3, <1>4 DEF XskTypes, SentInv
<1>6. /\ thread' \in Threads /\ thread'.at = "collect" /\ thread'.port = p
      /\ thread'.ready = thread.ready /\ thread'.left = cq[q] /\ thread'.done = 0
  BY <1>1, <1>2, <1>4, <1>5 DEF XskTypes, Threads, Places
<1>7. XskTypes'  BY <1>2, <1>4, <1>6 DEF XskTypes
<1>8. PoolInv' /\ FillInv'  BY <1>2, <1>4, <1>6, PoolKept, FillKept
<1>9. ReadyInv'  BY <1>1, <1>2, <1>4, <1>6 DEF ReadyInv
<1>10. SentInv'
  <2>1. Putting(p) = 0 /\ Putting(p)' = 0  BY <1>3, <1>4, <1>6 DEF Putting
  <2>2. Putting(q)' = cq[q]
    <3>1. Putting(q)' = thread'.left + thread'.done  BY <1>6 DEF Putting
    <3>2. QED  BY <1>5, <1>6, <3>1, SMT
  <2>3. txq[p] <= tx_size /\ txq[q] <= tx_size /\ 0 <= cq[p] /\ txq[p] + cq[p] - 0 <= tx_size
    BY <1>1, <1>2, <1>3, <1>4, <2>1 DEF SentInv
  <2>4. cq[q] <= cq[q] /\ txq[q] + cq[q] - cq[q] <= tx_size  BY <1>5, <2>3, Sizes, SMT
  <2>5. QED  BY <1>3, <1>4, <1>6, <2>1, <2>2, <2>3, <2>4 DEF SentInv
<1>11. FlowInv'
  <2>1. Counted /\ Counted'  BY <1>2, <1>7, Counts, PTL
  <2>2. \A x \in Ports : /\ Held(x) = 0 /\ Done(x) = 0 /\ Held(x)' = 0
                           /\ Done(x)' = 0 /\ 1 - x \in Ports
    BY <1>3, <1>4, <1>6, <2>1 DEF Counted
  <2>3. \A x \in Ports : Flow(x)' = Flow(x)  BY <1>4, <2>2 DEF Flow
  <2>4. QED  BY <1>2, <1>4, <2>3, FlowKept
<1>12. QED  BY <1>7, <1>8, <1>9, <1>10, <1>11, SMT DEF XskInv
\* Where a direction has buffers, the pool has room for a slab.
LEMMA RoomForASlab ==
  ASSUME XskSizes, XskTypes, FlowInv, NEW p \in Ports, Flow(p) > 0
  PROVE  n_slabs_available < n_slabs
<1>1. PICK f \in [Ports -> Nat] :
        \A x \in Ports : Flow(x) = Full(f[x]) /\ f[x] + f[1 - x] = n_slabs - n_slabs_available
  BY DEF FlowInv
<1>2. f[p] \in Nat /\ f[1 - p] \in Nat /\ f[p] # 0
  BY <1>1, TwoPorts, Whole, SMT
<1>3. QED  BY <1>1, <1>2, Sizes, SMT DEF XskTypes

LEMMA CollectStep ==
  ASSUME XskSizes, XskInv, Collect
  PROVE  XskInv'
<1>1. PICK p \in Ports : p = thread.port  BY SMT DEF XskInv, XskTypes, Threads
<1> DEFINE q == 1 - p
           s == bcache_prod(Cache(q))
<1>2. XskTypes /\ PoolInv /\ FillInv /\ ReadyInv /\ SentInv /\ FlowInv  BY SMT DEF XskInv
<1>3. q \in Ports /\ q # p /\ 1 - q = p /\ 1 - p = q /\ Ports = {p, q}  BY TwoPorts, SMT
<1>4. /\ thread.at = "collect" /\ thread.left > 0 /\ SetCache(q, s)
      /\ thread' = [thread EXCEPT !.left = @ - 1, !.done = @ + 1]
      /\ UNCHANGED <<fq, rxq, txq, cq>>
  BY <1>1 DEF Collect, At, Peer, rings
<1>5. thread.left \in Nat /\ thread.done \in Nat  BY <1>2 DEF XskTypes, Threads
<1>6. /\ thread' \in Threads /\ thread'.at = "collect" /\ thread'.port = p
      /\ thread'.ready = thread.ready /\ thread'.left = thread.left - 1
      /\ thread'.done = thread.done + 1
  <2>1. thread.left - 1 \in Nat /\ thread.done + 1 \in Nat  BY <1>4, <1>5, SMT
  <2>2. QED  BY <1>1, <1>2, <1>4, <2>1 DEF XskTypes, Threads
<1>7. /\ bc[p] \in Caches /\ bc[q] \in Caches /\ fq[p] \in Nat /\ rxq[p] \in Nat
      /\ txq[q] \in Nat /\ cq[q] \in Nat
  BY <1>2, <1>3 DEF XskTypes
<1>8. Putting(q) = thread.left + thread.done /\ Putting(q)' = thread.left + thread.done
  <2>1. Putting(q) = thread.left + thread.done  BY <1>1, <1>4 DEF Putting
  <2>2. Putting(q)' = thread'.left + thread'.done  BY <1>6 DEF Putting
  <2>3. QED  BY <1>5, <1>6, <2>1, <2>2, SMT
<1>9. Putting(p) = 0 /\ Putting(p)' = 0  BY <1>1, <1>3, <1>6 DEF Putting
<1>10. Counted  BY <1>2, Counts, SMT
<1>11. /\ Held(p) = 0 /\ Held(q) = 0 /\ Done(p) = 0 /\ Done(q) = thread.done
       /\ thread.done <= cq[q]
  <2>1. Putting(q) <= cq[q]  BY <1>2, <1>3 DEF SentInv
  <2>2. thread.done <= cq[q]  BY <1>5, <1>7, <1>8, <2>1, SMT
  <2>3. QED  BY <1>1, <1>3, <1>4, <1>10, <2>2 DEF Counted
<1>12. /\ Flow(p) \in Nat /\ Flow(p) >= bc[q].prod
  BY <1>3, <1>5, <1>7, <1>11, SMT DEF Flow, Caches
<1>13. /\ Sound(s) /\ s.c.cons = bc[q].cons
       /\ \/ s.n = n_slabs_available /\ s.c.prod = bc[q].prod + 1
          \/ /\ s.n = n_slabs_available + 1 /\ s.c.prod = 1
             /\ bc[q].prod = n_buffers_per_slab
  <2>1. Sound(Cache(q)) /\ Cache(q).c = bc[q] /\ Cache(q).n = n_slabs_available
    BY <1>2, <1>3, CacheIsSound
  <2>2. bc[q].prod = n_buffers_per_slab => n_slabs_available < n_slabs
    <3>1. ASSUME bc[q].prod = n_buffers_per_slab PROVE Flow(p) > 0
      BY <1>12, <3>1, Sizes, SMT
    <3>2. QED  BY <1>2, <3>1, RoomForASlab
  <2>3. QED  BY <2>1, <2>2, ProdPuts
<1> HIDE DEF s
<1>14. /\ PoolInv' /\ bc' \in [Ports -> Caches] /\ bc'[q] = s.c /\ bc'[p] = bc[p]
       /\ n_slabs_available' = s.n /\ s.n \in Nat /\ s.n <= n_slabs
  BY <1>2, <1>3, <1>4, <1>13, Trade
<1>15. XskTypes'  BY <1>2, <1>4, <1>6, <1>14 DEF XskTypes
<1>16. FillInv'  BY <1>2, <1>4, <1>6, FillKept
<1>17. ReadyInv'  BY <1>1, <1>2, <1>4, <1>6 DEF ReadyInv
<1>18. SentInv'
  <2>1. /\ Putting(q)' = Putting(q) /\ Putting(p)' = Putting(p) /\ thread'.at = "collect"
        /\ thread'.port = thread.port /\ thread.at = "collect"
    BY <1>1, <1>4, <1>6, <1>8, <1>9
  <2>2. \A x \in Ports : /\ txq[x] <= tx_size /\ Putting(x) <= cq[x]
                           /\ txq[x] + cq[x] - Putting(x) <= tx_size
    BY <1>2, <1>4 DEF SentInv
  <2>3. \A x \in Ports : Putting(x)' = Putting(x)  BY <1>3, <2>1
  <2>4. QED  BY <1>4, <2>1, <2>2, <2>3 DEF SentInv
<1>19. FlowInv'
  <2>1. Counted'  BY <1>15, Counts, PTL
  <2>2. /\ Held(p)' = 0 /\ Held(q)' = 0 /\ Done(p)' = 0
        /\ Done(q)' = thread.done + 1
    BY <1>3, <1>6, <2>1 DEF Counted
  <2>3. Flow(q)' = Flow(q)
    BY <1>3, <1>4, <1>11, <1>13, <1>14, <2>2 DEF Flow
  <2>4. CASE s.n = n_slabs_available /\ s.c.prod = bc[q].prod + 1
    <3>1. Flow(p)' = Flow(p)
      BY <1>3, <1>4, <1>5, <1>7, <1>11, <1>14, <2>2, <2>4, SMT DEF Flow, Caches
    <3>2. QED  BY <1>2, <1>3, <1>14, <2>3, <2>4, <3>1, FlowKept
  <2>5. CASE /\ s.n = n_slabs_available + 1 /\ s.c.prod = 1
             /\ bc[q].prod = n_buffers_per_slab
    <3>1. Flow(p)' = Flow(p) - n_buffers_per_slab
      BY <1>3, <1>4, <1>5, <1>7, <1>11, <1>14, <2>2, <2>5, Sizes, SMT DEF Flow, Caches
    <3>2. Flow(p) > 0  BY <1>12, <2>5, Sizes, SMT
    <3>3. QED  BY <1>2, <1>3, <1>12, <1>14, <2>3, <2>5, <3>1, <3>2, FlowShrinks
  <2>6. QED  BY <1>13, <2>4, <2>5
<1>20. QED  BY <1>14, <1>15, <1>16, <1>17, <1>18, <1>19 DEF XskInv

LEMMA ReleaseStep ==
  ASSUME XskSizes, XskInv, Release
  PROVE  XskInv'
<1>1. PICK p \in Ports : p = thread.port  BY SMT DEF XskInv, XskTypes, Threads
<1> DEFINE q == 1 - p
<1>2. XskTypes /\ PoolInv /\ FillInv /\ ReadyInv /\ SentInv /\ FlowInv  BY SMT DEF XskInv
<1>3. q \in Ports /\ q # p /\ 1 - q = p /\ 1 - p = q /\ Ports = {p, q}  BY TwoPorts, SMT
<1>4. /\ thread.at = "collect" /\ thread.left = 0
      /\ cq' = [cq EXCEPT ![q] = @ - thread.done] /\ NextPort("receive", "poll")
      /\ UNCHANGED <<slabs, n_slabs_available, bc, fq, rxq, txq>>
  BY <1>1 DEF Release, At, Peer, pool
<1>5. /\ thread' \in Threads /\ thread'.left = 0 /\ thread'.done = 0
      /\ \/ /\ thread.port = 0 /\ 1 \in thread.ready /\ thread'.at = "receive"
            /\ thread'.port = 1
         \/ thread'.at = "poll" /\ thread'.ready = {}
  <2>1. "receive" \in Places /\ "poll" \in Places  BY SMT DEF Places
  <2>2. QED  BY <1>2, <1>4, <2>1, ToNextPort
<1>6. thread'.at \in {"receive", "poll"}  BY <1>5, SMT
<1>7. /\ thread.done \in Nat /\ cq[q] \in Nat /\ txq[q] \in Nat /\ bc[p] \in Caches
      /\ bc[q] \in Caches /\ fq[p] \in Nat /\ rxq[p] \in Nat
  BY <1>2, <1>3 DEF XskTypes, Threads
<1>8. thread.done <= cq[q] /\ txq[q] + cq[q] - thread.done <= tx_size
  <2>1. Putting(q) = thread.left + thread.done  BY <1>1, <1>4 DEF Putting
  <2>2. Putting(q) = thread.done  BY <1>4, <1>7, <2>1, SMT
  <2>3. Putting(q) <= cq[q] /\ txq[q] + cq[q] - Putting(q) <= tx_size
    BY <1>2, <1>3, <1>4 DEF SentInv
  <2>4. QED  BY <2>2, <2>3
<1>9. cq' \in [Ports -> Nat] /\ cq'[q] = cq[q] - thread.done /\ cq'[p] = cq[p]
  BY <1>2, <1>3, <1>4, <1>7, <1>8, SMT DEF XskTypes
<1>10. XskTypes'  BY <1>2, <1>4, <1>5, <1>9 DEF XskTypes
<1>11. PoolInv' /\ FillInv'  BY <1>2, <1>4, <1>6, PoolKept, FillKept
<1>12. ReadyInv'  BY <1>2, <1>4, <1>5 DEF ReadyInv
<1>13. SentInv'
  <2>1. /\ \A x \in Ports : Putting(x)' = 0
        /\ Putting(p) = 0
    BY <1>1, <1>3, <1>6 DEF Putting
  <2>2. /\ txq[p] <= tx_size /\ txq[q] <= tx_size /\ 0 <= cq[p]
        /\ txq[p] + cq[p] - 0 <= tx_size
    BY <1>2, <1>3, <1>4, <2>1 DEF SentInv
  <2>3. 0 <= cq'[q] /\ txq[q] + cq'[q] - 0 <= tx_size  BY <1>7, <1>8, <1>9, Sizes, SMT
  <2>4. QED  BY <1>3, <1>4, <1>5, <1>6, <1>9, <2>1, <2>2, <2>3 DEF SentInv
<1>14. FlowInv'
  <2>1. Counted /\ Counted'  BY <1>2, <1>10, Counts, PTL
  <2>2. /\ Held(p) = 0 /\ Held(q) = 0 /\ Done(p) = 0 /\ Done(q) = thread.done
        /\ Held(p)' = 0 /\ Held(q)' = 0 /\ Done(p)' = 0 /\ Done(q)' = 0
    BY <1>1, <1>3, <1>4, <1>6, <2>1 DEF Counted
  <2>3. Flow(q)' = Flow(q)  BY <1>3, <1>4, <1>9, <2>2 DEF Flow
  <2>4. Flow(p)' = Flow(p)
    BY <1>3, <1>4, <1>7, <1>8, <1>9, <2>2, SMT DEF Flow, Caches
  <2>5. QED  BY <1>2, <1>3, <1>4, <2>3, <2>4, FlowKept
<1>15. QED  BY <1>10, <1>11, <1>12, <1>13, <1>14, SMT DEF XskInv
\* The kernel moves a buffer from one ring of a port to another.
LEMMA ThreadWaits ==
  ASSUME thread' = thread
  PROVE  \A x \in Ports :
           /\ Held(x)' = Held(x) /\ Done(x)' = Done(x) /\ Putting(x)' = Putting(x)
           /\ Unfilled(x)' = Unfilled(x)
  BY DEF Held, Done, At, Port, Peer, Putting, Unfilled

LEMMA HeldIsNat ==
  ASSUME XskTypes, NEW x \in Ports
  PROVE  Held(x) \in Nat /\ Done(x) \in Nat
  BY DEF XskTypes, Threads, Held, Done

LEMMA ArriveStep ==
  ASSUME XskSizes, XskInv, NEW p \in Ports, Arrive(p)
  PROVE  XskInv'
<1> DEFINE q == 1 - p
<1>1. XskTypes /\ PoolInv /\ FillInv /\ ReadyInv /\ SentInv /\ FlowInv  BY DEF XskInv
<1>2. q \in Ports /\ q # p /\ 1 - q = p /\ 1 - p = q /\ Ports = {p, q}  BY TwoPorts
<1>3. /\ fq[p] > 0 /\ fq' = [fq EXCEPT ![p] = @ - 1] /\ rxq' = [rxq EXCEPT ![p] = @ + 1]
      /\ UNCHANGED <<slabs, n_slabs_available, bc, txq, cq, thread>>
  BY DEF Arrive, pool
<1>4. /\ fq' \in [Ports -> Nat] /\ rxq' \in [Ports -> Nat]
      /\ fq'[p] = fq[p] - 1 /\ rxq'[p] = rxq[p] + 1 /\ fq'[q] = fq[q] /\ rxq'[q] = rxq[q]
      /\ fq[p] \in Nat /\ rxq[p] \in Nat /\ fq[q] \in Nat /\ rxq[q] \in Nat
  BY <1>1, <1>2, <1>3, SMT DEF XskTypes
<1>5. \A x \in Ports :
        /\ Held(x)' = Held(x) /\ Done(x)' = Done(x) /\ Putting(x)' = Putting(x)
        /\ Unfilled(x)' = Unfilled(x)
  BY <1>3, ThreadWaits
<1>6. XskTypes'  BY <1>1, <1>3, <1>4 DEF XskTypes
<1>7. PoolInv'  BY <1>1, <1>3, PoolKept
<1>8. FillInv'
  <2>1. fq'[p] + rxq'[p] = fq[p] + rxq[p] /\ fq'[q] + rxq'[q] = fq[q] + rxq[q]  BY <1>4, SMT
  <2>2. \A x \in Ports : fq'[x] + rxq'[x] = fq[x] + rxq[x]  BY <1>2, <2>1
  <2>3. QED  BY <1>1, <1>3, <1>5, <2>2, ZenonT(30) DEF FillInv, umem_fq_size
<1>9. ReadyInv'
  <2>1. \A x \in Ports : rxq[x] > 0 => rxq'[x] > 0  BY <1>2, <1>4, SMT
  <2>2. thread.port \in Ports /\ 1 \in Ports  BY <1>1 DEF XskTypes, Threads, Ports
  <2>3. QED  BY <1>1, <1>3, <2>1, <2>2 DEF ReadyInv
<1>10. SentInv'  BY <1>1, <1>3, <1>5 DEF SentInv
<1>11. FlowInv'
  <2>1. bc[p] \in Caches /\ bc[q] \in Caches /\ txq[q] \in Nat /\ cq[q] \in Nat
    BY <1>1, <1>2 DEF XskTypes
  <2>2. Held(p) \in Nat /\ Done(q) \in Nat  BY <1>1, <1>2, HeldIsNat
  <2>3. Flow(p)' = Flow(p)
    BY <1>2, <1>3, <1>4, <1>5, <2>1, <2>2, SMT DEF Flow, Caches
  <2>4. Flow(q)' = Flow(q)  BY <1>2, <1>3, <1>4, <1>5 DEF Flow
  <2>5. QED  BY <1>1, <1>2, <1>3, <2>3, <2>4, FlowKept
<1>12. QED  BY <1>6, <1>7, <1>8, <1>9, <1>10, <1>11 DEF XskInv

LEMMA TransmitStep ==
  ASSUME XskSizes, XskInv, NEW p \in Ports, Transmit(p)
  PROVE  XskInv'
<1> DEFINE q == 1 - p
<1>1. XskTypes /\ PoolInv /\ FillInv /\ ReadyInv /\ SentInv /\ FlowInv  BY SMT DEF XskInv
<1>2. q \in Ports /\ q # p /\ 1 - q = p /\ 1 - p = q /\ Ports = {p, q}  BY TwoPorts, SMT
<1>3. /\ txq[p] > 0 /\ txq' = [txq EXCEPT ![p] = @ - 1] /\ cq' = [cq EXCEPT ![p] = @ + 1]
      /\ UNCHANGED <<slabs, n_slabs_available, bc, fq, rxq, thread>>
  BY DEF Transmit, pool
<1>4. /\ txq' \in [Ports -> Nat] /\ cq' \in [Ports -> Nat]
      /\ txq'[p] = txq[p] - 1 /\ cq'[p] = cq[p] + 1 /\ txq'[q] = txq[q] /\ cq'[q] = cq[q]
      /\ txq[p] \in Nat /\ cq[p] \in Nat
  BY <1>1, <1>2, <1>3, SMT DEF XskTypes
<1>5. \A x \in Ports :
        /\ Held(x)' = Held(x) /\ Done(x)' = Done(x) /\ Putting(x)' = Putting(x)
        /\ Unfilled(x)' = Unfilled(x)
  BY <1>3, ThreadWaits, SMT
<1>6. XskTypes'  BY <1>1, <1>3, <1>4 DEF XskTypes
<1>7. PoolInv'  BY <1>1, <1>3, PoolKept, SMT
<1>8. FillInv'  BY <1>1, <1>3, <1>5 DEF FillInv, umem_fq_size
<1>9. ReadyInv'  BY <1>1, <1>3 DEF ReadyInv
<1>10. SentInv'
  <2>1. Putting(p) \in Nat  BY <1>1, SMT DEF Putting, XskTypes, Threads
  <2>2. /\ txq[p] <= tx_size => txq'[p] <= tx_size
        /\ Putting(p) <= cq[p] => Putting(p) <= cq'[p]
        /\ txq'[p] + cq'[p] - Putting(p) = txq[p] + cq[p] - Putting(p)
    BY <1>4, <2>1, Sizes, SMT
  <2>3. \A x \in Ports :
          /\ txq[x] <= tx_size => txq'[x] <= tx_size
          /\ Putting(x) <= cq[x] => Putting(x) <= cq'[x]
          /\ txq'[x] + cq'[x] - Putting(x) = txq[x] + cq[x] - Putting(x)
    BY <1>2, <1>4, <2>2
  <2>4. QED  BY <1>1, <1>3, <1>5, <2>3 DEF SentInv
<1>11. FlowInv'
  <2>1. bc[p] \in Caches /\ bc[q] \in Caches /\ fq[q] \in Nat /\ rxq[q] \in Nat
    BY <1>1, <1>2 DEF XskTypes
  <2>2. Held(q) \in Nat /\ Done(p) \in Nat  BY <1>1, <1>2, HeldIsNat
  <2>3. Flow(q)' = Flow(q)
    BY <1>2, <1>3, <1>4, <1>5, <2>1, <2>2, SMT DEF Flow, Caches
  <2>4. Flow(p)' = Flow(p)  BY <1>2, <1>3, <1>4, <1>5 DEF Flow
  <2>5. QED  BY <1>1, <1>2, <1>3, <2>3, <2>4, FlowKept
<1>12. QED  BY <1>6, <1>7, <1>8, <1>9, <1>10, <1>11, SMT DEF XskInv

LEMMA XskInductive ==
  ASSUME XskSizes
  PROVE  XskInv /\ [Next]_xskVars => XskInv'
<1> SUFFICES ASSUME XskInv, [Next]_xskVars PROVE XskInv'
  OBVIOUS
<1>1. CASE UNCHANGED xskVars
  <2>1. UNCHANGED <<slabs, n_slabs_available, bc, fq, rxq, txq, cq, thread>>
    BY <1>1 DEF xskVars, pool, rings
  <2>2. XskTypes' /\ PoolInv'  BY <2>1, PoolKept DEF XskInv, XskTypes
  <2>3. \A x \in Ports :
          /\ Held(x)' = Held(x) /\ Done(x)' = Done(x) /\ Putting(x)' = Putting(x)
          /\ Unfilled(x)' = Unfilled(x)
    BY <2>1, ThreadWaits
  <2>4. FillInv' /\ ReadyInv' /\ SentInv'
    BY <2>1, <2>3 DEF XskInv, FillInv, ReadyInv, SentInv, umem_fq_size
  <2>5. \A x \in Ports : Flow(x)' = Flow(x)  BY <2>1, <2>3, TwoPorts DEF Flow
  <2>6. FlowInv'  BY <2>1, <2>5, FlowKept DEF XskInv
  <2>7. QED  BY <2>2, <2>4, <2>6 DEF XskInv
<1>2. QED
  BY <1>1, PortInitStep, PollStep, ReceiveStep, FillStep, SendStep, PeekStep, CollectStep,
     ReleaseStep, ArriveStep, TransmitStep DEF Next

LEMMA XskInitially ==
  ASSUME XskSizes
  PROVE  Init => XskInv
<1> SUFFICES ASSUME Init PROVE XskInv
  OBVIOUS
<1> DEFINE zero == [p \in Ports |-> 0]
<1>1. /\ n_slabs_available = n_slabs /\ n_slabs \in Nat
      /\ fq = zero /\ rxq = zero /\ txq = zero /\ cq = zero
      /\ bc = [p \in Ports |-> [cons |-> 0, prod |-> 0, n_cons |-> 0, n_prod |-> 0]]
      /\ thread = [at |-> "init", port |-> 0, ready |-> Ports, left |-> 0, done |-> 0]
      /\ slabs = [k \in 0 .. n_slabs - 1 |-> n_buffers_per_slab]
  BY Sizes DEF Init
<1>2. zero \in [Ports -> Nat] /\ \A p \in Ports : zero[p] = 0  OBVIOUS
<1> HIDE DEF zero
<1>3. XskTypes
  BY <1>1, <1>2, SMT DEF XskTypes, Caches, Threads, Places, Ports
<1>4. PoolInv
  <2>1. slabs = Slabs(n_slabs)  BY <1>1, SMT DEF Slabs
  <2>2. QED  BY <1>1, <2>1, Sizes, SMT DEF PoolInv, Exact
<1>5. thread.at = "init" /\ thread.port = 0 /\ thread.ready = Ports /\ thread.left = 0
      /\ thread.done = 0 /\ \A p \in Ports : bc[p].cons = 0 /\ bc[p].prod = 0
  BY <1>1
<1>6. FillInv /\ ReadyInv
  BY <1>1, <1>2, <1>5, SMT DEF FillInv, ReadyInv, Unfilled, Ports
<1>7. SentInv
  <2>1. \A p \in Ports : Putting(p) = 0  BY <1>5 DEF Putting
  <2>2. QED  BY <1>1, <1>2, <1>5, <2>1, Sizes, SMT DEF SentInv
<1>8. FlowInv
  <2>1. Counted  BY <1>3, Counts
  <2>2. \A p \in Ports : Held(p) = 0 /\ Done(p) = 0 /\ 1 - p \in Ports
    BY <1>5, <2>1, TwoPorts DEF Counted
  <2>3. \A p \in Ports : Flow(p) = 0  BY <1>1, <1>2, <1>5, <2>2, SMT DEF Flow
  <2>4. \A p \in Ports : Flow(p) = Full(zero[p])
                           /\ zero[p] + zero[1 - p] = n_slabs - n_slabs_available
    BY <1>1, <1>2, <2>2, <2>3, Whole, SMT
  <2>5. QED  BY <1>2, <2>4 DEF FlowInv
<1>9. QED  BY <1>3, <1>4, <1>6, <1>7, <1>8 DEF XskInv

\* Whatever the sizes, every buffer of the forwarder is in one place: slabs of the pool are
\* full below n_slabs_available and empty above, so bcache_prod finds an empty slab for a
\* full one, and a thread that waits to send does not wait for a kernel that waits for it.
THEOREM BuffersStay ==
  ASSUME XskSizes
  PROVE  Spec => []BuffersConserved
<1>1. XskInv => BuffersConserved
  <2> SUFFICES ASSUME XskInv PROVE BuffersConserved
    OBVIOUS
  <2>1. n_slabs_available \in 0 .. n_slabs  BY Sizes, SMT DEF XskInv, XskTypes
  <2>2. \A k \in DOMAIN slabs :
          slabs[k] = IF k < n_slabs_available THEN n_buffers_per_slab ELSE 0
    BY DEF XskInv, PoolInv, Slabs
  <2>3. \A p \in Ports : bc[p].cons = bc[p].n_cons /\ bc[p].prod = bc[p].n_prod
    BY DEF XskInv, PoolInv, Exact
  <2>4. Flow(0) + Flow(1) = (n_slabs - n_slabs_available) * n_buffers_per_slab
    <3>1. PICK f \in [Ports -> Nat] :
            \A x \in Ports : Flow(x) = Full(f[x])
                               /\ f[x] + f[1 - x] = n_slabs - n_slabs_available
      BY DEF XskInv, FlowInv
    <3>2. 0 \in Ports /\ 1 \in Ports /\ 1 - 0 = 1  BY SMT DEF Ports
    <3>3. f[0] \in Nat /\ f[1] \in Nat /\ f[0] + f[1] = n_slabs - n_slabs_available
      BY <3>1, <3>2
    <3>4. Flow(0) + Flow(1) = Full(f[0] + f[1])  BY <3>1, <3>2, <3>3, Whole
    <3>5. QED  BY <3>3, <3>4 DEF Full
  <2>5. ASSUME thread.at = "send", txq[1 - thread.port] = tx_size
        PROVE  cq[1 - thread.port] < comp_size
    <3> DEFINE q == 1 - thread.port
    <3>1. q \in Ports  BY TwoPorts DEF XskInv, XskTypes, Threads
    <3>2. txq[q] + cq[q] - Putting(q) <= tx_size /\ Putting(q) = 0 /\ cq[q] \in Nat
      BY <2>5, <3>1 DEF XskInv, SentInv, Putting, XskTypes
    <3>3. QED  BY <2>5, <3>2, Sizes, SMT
  <2>6. QED
    BY <2>1, <2>2, <2>3, <2>4, <2>5 DEF BuffersConserved, At, Peer
<1>2. QED  BY <1>1, XskInitially, XskInductive, PTL DEF Spec

\* A port that has received a packet has a buffer to put in its place, however traffic is
\* mixed: with four slabs or more, and slabs larger than half the fill queue and the
\* transmit queue, the two directions cannot hold all slabs.
THEOREM PortsAreFed ==
  ASSUME XskSizes
  PROVE  Spec => []NeverStarved
<1>1. XskInv => NeverStarved
  <2> SUFFICES ASSUME XskInv, thread.at = "receive", ~HasBuffer(Cache(thread.port))
               PROVE  FALSE
    BY DEF NeverStarved, At, Port
  <2>1. XskTypes /\ PoolInv /\ FillInv /\ SentInv /\ FlowInv  BY DEF XskInv
  <2>2. PICK p \in Ports : p = thread.port  BY <2>1 DEF XskTypes, Threads
  <2> DEFINE q == 1 - p
  <2>3. q \in Ports /\ q # p /\ 1 - q = p /\ 1 - p = q /\ Ports = {p, q}  BY TwoPorts
  <2>4. n_slabs_available = 0 /\ bc[p].cons = 0
    <3>1. Cache(p).c = bc[p] /\ Cache(p).n = n_slabs_available  BY DEF Cache
    <3>2. QED  BY <2>1, <2>2, <3>1 DEF HasBuffer, PoolInv, Exact
  <2>5. /\ fq[p] + rxq[p] + 0 = umem_fq_size /\ fq[q] + rxq[q] + 0 = umem_fq_size
    BY <2>1, <2>3 DEF FillInv, Unfilled
  <2>6. Counted  BY <2>1, Counts
  <2>7. Held(p) = 0 /\ Held(q) = 0 /\ Done(p) = 0 /\ Done(q) = 0
    BY <2>3, <2>6 DEF Counted
  <2>8. txq[p] + cq[p] <= tx_size /\ txq[q] + cq[q] <= tx_size
    <3>1. Putting(p) = 0 /\ Putting(q) = 0  BY DEF Putting
    <3>2. txq[p] + cq[p] - 0 <= tx_size /\ txq[q] + cq[q] - 0 <= tx_size
      BY <2>1, <2>3, <3>1 DEF SentInv
    <3>3. txq[p] \in Nat /\ cq[p] \in Nat /\ txq[q] \in Nat /\ cq[q] \in Nat
      BY <2>1, <2>3 DEF XskTypes
    <3>4. QED  BY <3>2, <3>3, SMT
  <2>9. /\ bc[p] \in Caches /\ bc[q] \in Caches /\ bc[q].cons <= n_buffers_per_slab
        /\ bc[p].prod <= n_buffers_per_slab /\ bc[q].prod <= n_buffers_per_slab
        /\ \A x \in Ports : fq[x] \in Nat /\ rxq[x] \in Nat /\ txq[x] \in Nat /\ cq[x] \in Nat
    BY <2>1, <2>3 DEF XskTypes, PoolInv, Exact
  <2>10. Flow(p) < 2 * n_buffers_per_slab
    BY <2>3, <2>4, <2>5, <2>7, <2>8, <2>9, Sizes, SMT DEF Flow, Caches
  <2>11. Flow(q) < 3 * n_buffers_per_slab
    BY <2>3, <2>5, <2>7, <2>8, <2>9, Sizes, SMT DEF Flow, Caches
  <2>12. PICK f \in [Ports -> Nat] :
           \A x \in Ports : Flow(x) = Full(f[x])
                              /\ f[x] + f[1 - x] = n_slabs - n_slabs_available
    BY <2>1 DEF FlowInv
  <2>13. /\ f[p] \in Nat /\ f[q] \in Nat /\ Flow(p) = Full(f[p]) /\ Flow(q) = Full(f[q])
         /\ f[p] + f[q] = n_slabs - 0
    BY <2>3, <2>4, <2>12
  <2>14. f[p] < 2
    <3>1. f[p] >= 2 => Full(f[p]) >= 2 * n_buffers_per_slab  BY <2>13, Whole
    <3>2. Full(f[p]) \in Nat  BY <2>13, Whole
    <3>3. 2 * n_buffers_per_slab \in Nat  BY Sizes, SMT
    <3>4. QED  BY <2>10, <2>13, <3>1, <3>2, <3>3, SMT
  <2>15. f[q] < 3
    <3>1. f[q] >= 3 => Full(f[q]) >= 3 * n_buffers_per_slab  BY <2>13, Whole
    <3>2. Full(f[q]) \in Nat  BY <2>13, Whole
    <3>3. 3 * n_buffers_per_slab \in Nat  BY Sizes, SMT
    <3>4. QED  BY <2>11, <2>13, <3>1, <3>2, <3>3, SMT
  <2>16. QED  BY <2>13, <2>14, <2>15, Sizes, SMT
<1>2. QED  BY <1>1, XskInitially, XskInductive, PTL DEF Spec

-----------------------------------------------------------------------------
CONSTANTS Rounds, SLOT_LEN
VARIABLES demo, at, round, locked, counter, done, content_queue, loaded, index, over,
          updates, overlap, spurious, seen
D == INSTANCE SyncDemos WITH i <- index

\* The demonstrations of locks.  Loops that run at least once.
DemoSizes == Rounds \in Nat \ {0} /\ SLOT_LEN \in Nat \ {0}

Stations == {"test", "lock", "set", "in", "add", "unlock", "wait", "woken", "end"}

DemoTypes ==
    /\ demo \in D!Demos /\ at \in [D!Threads -> Stations]
    /\ locked \in BOOLEAN /\ overlap \in BOOLEAN /\ spurious \in BOOLEAN
    /\ round \in [D!Threads -> Nat] /\ loaded \in [D!Threads -> Nat]
    /\ index \in [D!Threads -> Nat]
    /\ counter \in Nat /\ updates \in Nat
    /\ content_queue \in [D!Slots -> Nat] /\ seen \in [D!Slots -> Nat]

\* Which demonstration has a thread at a place.
DemoPlaces ==
    \A t \in D!Threads :
      /\ at[t] = "test" => demo = "rwlock" /\ t = 1
      /\ at[t] = "set" => demo = "std"
      /\ at[t] = "add" => demo \notin {"sem", "cond"}
      /\ at[t] \in {"wait", "woken"} => demo = "cond"

\* The lock: at most one thread is inside, unless the spin lock let both in.
Inside(t) == at[t] \in {"in", "add", "unlock"}
Exclusive ==
    /\ overlap => demo = "std"
    /\ ~overlap => /\ \A t \in D!Threads : Inside(t) => locked
                   /\ \A s, t \in D!Threads : Inside(s) /\ Inside(t) => s = t

\* A thread that is about to add has the current counter.
CountInv ==
    ~overlap /\ demo \notin {"sem", "cond"} =>
      /\ counter = updates
      /\ \A t \in D!Threads : at[t] = "add" => loaded[t] = counter

\* The queue holds one round of the producer, or nothing, unless a thread is in its
\* loop over the slots; then it holds that up to the slot the thread is at.
Times(r, k) == k * r
WholeRound(q) == \E r \in 0 .. Rounds - 1 : \A k \in D!Slots : q[k] = Times(r, k)
Halfway(r) == \A k \in D!Slots :
    IF k < index[2] THEN seen[k] = Times(r, k) /\ content_queue[k] = 0
                    ELSE content_queue[k] = Times(r, k)
SlotInv ==
    demo = "sem" =>
      /\ \A t \in D!Threads :
           /\ at[t] \in {"lock", "in", "unlock", "end"}
           /\ at[t] # "end" => round[t] < Rounds
           /\ at[t] = "lock" => index[t] = 0
           /\ at[t] = "in" => index[t] \in D!Slots
      /\ at[1] = "in" =>
           \A k \in D!Slots : k < index[1] => content_queue[k] = Times(round[1], k)
      /\ at[1] # "in" /\ at[2] # "in" => WholeRound(content_queue)
      /\ at[2] = "in" => \E r \in 0 .. Rounds - 1 : Halfway(r)
      /\ at[2] = "unlock" => WholeRound(seen)

\* The counter says how far the two threads of cond have come.
CondInv ==
    demo = "cond" /\ ~spurious =>
      /\ \A t \in D!Threads : loaded[t] \in {0, 7}
      /\ \/ counter = 1 /\ \A t \in D!Threads : at[t] \in {"lock", "in"}
         \/ counter = 2 /\ \E t \in D!Threads :
              at[t] = "wait" /\ \A s \in D!Threads : s # t => at[s] \in {"lock", "in"}
         \/ counter = 7 /\ \A t \in D!Threads : at[t] \in {"unlock", "woken", "end"}

DemoInv == DemoTypes /\ DemoPlaces /\ Exclusive /\ CountInv /\ SlotInv /\ CondInv

LEMMA DemoInitially ==
  ASSUME DemoSizes, D!Init
  PROVE  DemoInv
<1>1. 0 \in D!Slots  BY SMT DEF DemoSizes, D!Slots
<1>2. DemoTypes  BY DEF D!Init, DemoTypes, D!Demos, D!Threads, Stations
<1>3. DemoPlaces  BY DEF D!Init, DemoPlaces, D!Threads
<1>4. Exclusive  BY DEF D!Init, Exclusive, Inside, D!Threads
<1>5. CountInv  BY DEF D!Init, CountInv, D!Threads
<1>6. SlotInv
  <2>1. 0 \in 0 .. Rounds - 1 /\ \A k \in D!Slots : content_queue[k] = Times(0, k)
    BY SMT DEF D!Init, DemoSizes, Times, D!Slots
  <2>2. WholeRound(content_queue)  BY <2>1 DEF WholeRound
  <2>3. QED  BY <2>2, SMT DEF D!Init, SlotInv, DemoSizes, D!Threads
<1>7. CondInv  BY DEF D!Init, CondInv, D!Threads
<1>8. QED  BY <1>2, <1>3, <1>4, <1>5, <1>6, <1>7 DEF DemoInv

\* A step of a thread moves that thread, and wakes the other one at most.
LEMMA DemoMoves ==
  ASSUME DemoTypes, NEW t \in D!Threads, NEW where, D!Goto(t, where)
  PROVE  at'[t] = where /\ \A s \in D!Threads : s # t => at'[s] = at[s]
  BY DEF DemoTypes, D!Goto

LEMMA Products ==
  ASSUME NEW a \in Nat, NEW b \in Nat
  PROVE  a * b \in Nat
  BY SMT

DemoStep(t) ==
    \/ D!Lock(t) \/ D!spinlock_lock(t) \/ D!std_test(t) \/ D!std_set(t) \/ D!Unlock(t)
    \/ D!load(t) \/ D!trythis(t) \/ D!writer(t) \/ D!reader(t) \/ D!producer(t)
    \/ D!consumer(t) \/ D!foo(t) \/ D!Spurious(t) \/ D!Woken(t)

LEMMA DemoTypesKept ==
  ASSUME DemoSizes, DemoInv, NEW t \in D!Threads, DemoStep(t)
  PROVE  DemoTypes'
<1> USE DEF DemoTypes, D!Goto, Stations, D!shared, D!history
<1>1. DemoTypes  BY DEF DemoInv
<1>2. CASE D!Lock(t)  BY <1>1, <1>2 DEF D!Lock, D!Take
<1>3. CASE D!spinlock_lock(t)  BY <1>1, <1>3 DEF D!spinlock_lock, D!Take
<1>4. CASE D!std_test(t)  BY <1>1, <1>4 DEF D!std_test
<1>5. CASE D!std_set(t)  BY <1>1, <1>5 DEF D!std_set
<1>6. CASE D!Unlock(t)
  <2>1. UNCHANGED <<demo, D!shared, loaded, over, D!history>> /\ locked' = FALSE
        /\ index' = [index EXCEPT ![t] = 0]
    BY <1>6 DEF D!Unlock
  <2>2. round' \in [D!Threads -> Nat]  BY <1>1, <1>6, SMT DEF D!Unlock
  <2>3. \E w \in {"test", "lock", "end"} : D!Goto(t, w)  BY <1>6 DEF D!Unlock
  <2>4. at' \in [D!Threads -> Stations]  BY <1>1, <2>3
  <2>5. QED  BY <1>1, <2>1, <2>2, <2>4
<1>7. CASE D!load(t)  BY <1>1, <1>7 DEF D!load
<1>8. CASE D!trythis(t)  BY <1>1, <1>8, SMT DEF D!trythis
<1>9. CASE D!writer(t)  BY <1>1, <1>9 DEF D!writer
<1>10. CASE D!reader(t)  BY <1>1, <1>10, SMT DEF D!reader
<1>11. CASE D!producer(t)
  <2>1. index[t] * round[t] \in Nat  BY <1>1, Products
  <2>2. \E w \in {"unlock", "in"} : D!Goto(t, w)  BY <1>11 DEF D!producer, D!NextSlot
  <2>3. at' \in [D!Threads -> Stations]  BY <1>1, <2>2
  <2>4. content_queue' \in [D!Slots -> Nat]  BY <1>1, <1>11, <2>1 DEF D!producer
  <2>5. index' \in [D!Threads -> Nat]  BY <1>1, <1>11, SMT DEF D!producer, D!NextSlot
  <2>6. QED  BY <1>1, <1>11, <2>3, <2>4, <2>5 DEF D!producer
<1>12. CASE D!consumer(t)
  <2>1. demo = "sem" /\ at[t] = "in" /\ t = 2  BY <1>12 DEF D!consumer
  <2>2. index[t] \in D!Slots  BY <2>1 DEF DemoInv, SlotInv
  <2>3. \E w \in {"unlock", "in"} : D!Goto(t, w)  BY <1>12 DEF D!consumer, D!NextSlot
  <2>4. at' \in [D!Threads -> Stations]  BY <1>1, <2>3, SMT
  <2>5. index' \in [D!Threads -> Nat]  BY <1>1, <1>12, SMT DEF D!consumer, D!NextSlot
  <2>6. seen' \in [D!Slots -> Nat] /\ content_queue' \in [D!Slots -> Nat]
    <3>1. content_queue[index[t]] \in Nat  BY <1>1, <2>2
    <3>2. QED  BY <1>1, <1>12, <3>1 DEF D!consumer
  <2>7. UNCHANGED <<demo, round, locked, counter, loaded, updates, overlap, spurious>>
    BY <1>12 DEF D!consumer
  <2>8. QED  BY <1>1, <2>4, <2>5, <2>6, <2>7
<1>13. CASE D!foo(t)
  <2>1. UNCHANGED <<demo, round, content_queue, loaded, index, D!history>>
    BY <1>13 DEF D!foo
  <2>2. CASE counter = 1
    <3>1. D!Goto(t, "wait") /\ counter' = 2 /\ locked' = FALSE  BY <1>13, <2>2 DEF D!foo
    <3>2. QED  BY <1>1, <2>1, <3>1
  <2>3. CASE counter # 1
    <3>1. /\ counter' = counter + 5 /\ locked' = locked
          /\ at' = [s \in D!Threads |-> IF s = t THEN "unlock"
                                       ELSE IF at[s] = "wait" THEN "woken" ELSE at[s]]
      BY <1>13, <2>3 DEF D!foo
    <3>2. at' \in [D!Threads -> Stations]  BY <1>1, <3>1
    <3>3. QED  BY <1>1, <2>1, <3>1, <3>2, SMT
  <2>4. QED  BY <2>2, <2>3
<1>14. CASE D!Spurious(t)  BY <1>1, <1>14 DEF D!Spurious
<1>15. CASE D!Woken(t)  BY <1>1, <1>15 DEF D!Woken
<1>16. QED  BY <1>2, <1>3, <1>4, <1>5, <1>6, <1>7, <1>8, <1>9, <1>10, <1>11, <1>12, <1>13,
               <1>14, <1>15 DEF DemoStep

LEMMA DemoPlacesKept ==
  ASSUME DemoInv, NEW t \in D!Threads, DemoStep(t)
  PROVE  DemoPlaces'
<1> USE DEF DemoPlaces
<1>1. DemoTypes /\ DemoPlaces  BY DEF DemoInv
<1>2. CASE D!Lock(t)  BY <1>1, <1>2, DemoMoves, ZenonT(30) DEF D!Lock, D!Take
<1>3. CASE D!spinlock_lock(t)  BY <1>1, <1>3, DemoMoves DEF D!spinlock_lock, D!Take
<1>4. CASE D!std_test(t)  BY <1>1, <1>4, DemoMoves DEF D!std_test
<1>5. CASE D!std_set(t)  BY <1>1, <1>5, DemoMoves DEF D!std_set
<1>6. CASE D!Unlock(t)  BY <1>1, <1>6, DemoMoves, SMT DEF D!Unlock
<1>7. CASE D!load(t)  BY <1>1, <1>7, DemoMoves, ZenonT(30) DEF D!load, D!Adds
<1>8. CASE D!trythis(t)  BY <1>1, <1>8, DemoMoves, ZenonT(30) DEF D!trythis
<1>9. CASE D!writer(t)  BY <1>1, <1>9, DemoMoves, SMT DEF D!writer
<1>10. CASE D!reader(t)  BY <1>1, <1>10, DemoMoves, SMT DEF D!reader
<1>11. CASE D!producer(t)  BY <1>1, <1>11, DemoMoves, SMT DEF D!producer, D!NextSlot
<1>12. CASE D!consumer(t)  BY <1>1, <1>12, DemoMoves, ZenonT(30) DEF D!consumer, D!NextSlot
<1>13. CASE D!foo(t)  BY <1>1, <1>13, DemoMoves, ZenonT(30) DEF D!foo
<1>14. CASE D!Spurious(t)  BY <1>1, <1>14, DemoMoves DEF D!Spurious
<1>15. CASE D!Woken(t)  BY <1>1, <1>15, DemoMoves DEF D!Woken
<1>16. QED  BY <1>2, <1>3, <1>4, <1>5, <1>6, <1>7, <1>8, <1>9, <1>10, <1>11, <1>12, <1>13,
               <1>14, <1>15 DEF DemoStep

\* Only the one inside leaves, and only the spin lock that tests and then sets lets a
\* second one in.
LEMMA ExclusiveKept ==
  ASSUME DemoInv, NEW t \in D!Threads, DemoStep(t)
  PROVE  Exclusive'
<1> USE DEF Exclusive, Inside
<1>1. DemoTypes /\ DemoPlaces /\ Exclusive  BY DEF DemoInv
<1>2. CASE D!Lock(t)  BY <1>1, <1>2, DemoMoves DEF D!Lock, D!Take, D!history
<1>3. CASE D!spinlock_lock(t)  BY <1>1, <1>3, DemoMoves DEF D!spinlock_lock, D!Take, D!history
<1>4. CASE D!std_test(t)  BY <1>1, <1>4, DemoMoves DEF D!std_test, D!history
<1>5. CASE D!std_set(t)  BY <1>1, <1>5, DemoMoves DEF D!std_set, DemoTypes, DemoPlaces
<1>6. CASE D!Unlock(t)  BY <1>1, <1>6, DemoMoves, SMT DEF D!Unlock, D!history
<1>7. CASE D!load(t)
  <2>1. /\ at[t] = "in" /\ at'[t] = "add" /\ \A s \in D!Threads : s # t => at'[s] = at[s]
        /\ UNCHANGED <<demo, locked, overlap>>
    BY <1>1, <1>7, DemoMoves DEF D!load, D!history
  <2>2. \A s \in D!Threads : Inside(s)' <=> Inside(s)  BY <2>1
  <2> HIDE DEF Inside
  <2>3. QED  BY <1>1, <2>1, <2>2
<1>8. CASE D!trythis(t)  BY <1>1, <1>8, DemoMoves DEF D!trythis
<1>9. CASE D!writer(t)  BY <1>1, <1>9, DemoMoves, SMT DEF D!writer, D!history
<1>10. CASE D!reader(t)  BY <1>1, <1>10, DemoMoves, SMT DEF D!reader, D!history
<1>11. CASE D!producer(t)  BY <1>1, <1>11, DemoMoves, SMT DEF D!producer, D!NextSlot, D!history
<1>12. CASE D!consumer(t)  BY <1>1, <1>12, DemoMoves, SMT DEF D!consumer, D!NextSlot
<1>13. CASE D!foo(t)  BY <1>1, <1>13, DemoMoves, SMT DEF D!foo, D!history
<1>14. CASE D!Spurious(t)  BY <1>1, <1>14, DemoMoves, ZenonT(30) DEF D!Spurious
<1>15. CASE D!Woken(t)  BY <1>1, <1>15, DemoMoves DEF D!Woken, D!history
<1>16. QED  BY <1>2, <1>3, <1>4, <1>5, <1>6, <1>7, <1>8, <1>9, <1>10, <1>11, <1>12, <1>13,
               <1>14, <1>15 DEF DemoStep

\* Nobody else is inside while a thread loads the counter and stores it.
LEMMA CountKept ==
  ASSUME DemoInv, NEW t \in D!Threads, DemoStep(t)
  PROVE  CountInv'
<1> SUFFICES ASSUME ~overlap', demo' \notin {"sem", "cond"}
             PROVE  /\ counter' = updates'
                    /\ \A s \in D!Threads : at'[s] = "add" => loaded'[s] = counter'
  BY DEF CountInv
<1>1. DemoTypes /\ Exclusive  BY DEF DemoInv
<1>2. demo' = demo /\ ~overlap
  BY <1>1 DEF DemoStep, DemoTypes, D!history, D!Lock, D!spinlock_lock, D!std_test, D!std_set,
              D!Unlock, D!load, D!trythis, D!writer, D!reader, D!producer, D!consumer, D!foo,
              D!Spurious, D!Woken
<1>3. counter = updates /\ \A s \in D!Threads : at[s] = "add" => loaded[s] = counter
  BY <1>2 DEF DemoInv, CountInv
<1>4. ASSUME UNCHANGED <<counter, loaded, updates>>, NEW w, w # "add", D!Goto(t, w)
      PROVE  /\ counter' = updates'
             /\ \A s \in D!Threads : at'[s] = "add" => loaded'[s] = counter'
  BY <1>1, <1>3, <1>4, DemoMoves
<1> USE DEF D!shared, D!history
<1>5. CASE D!Lock(t)  BY <1>4, <1>5 DEF D!Lock, D!Take
<1>6. CASE D!spinlock_lock(t)  BY <1>4, <1>6 DEF D!spinlock_lock, D!Take
<1>7. CASE D!std_test(t)  BY <1>4, <1>7 DEF D!std_test
<1>8. CASE D!std_set(t)  BY <1>4, <1>8 DEF D!std_set
<1>9. CASE D!Unlock(t)
  <2>1. UNCHANGED <<counter, loaded, updates>>  BY <1>9 DEF D!Unlock
  <2>2. \E w \in {"test", "lock", "end"} : D!Goto(t, w)  BY <1>9 DEF D!Unlock
  <2>3. QED  BY <1>4, <2>1, <2>2
<1>10. CASE D!load(t)
  <2>1. UNCHANGED <<counter, updates>> /\ loaded' = [loaded EXCEPT ![t] = counter]
        /\ D!Goto(t, "add")
    BY <1>10 DEF D!load
  <2>2. loaded'[t] = counter /\ \A s \in D!Threads : s # t => loaded'[s] = loaded[s]
    BY <1>1, <2>1 DEF DemoTypes
  <2>3. QED  BY <1>1, <1>3, <2>1, <2>2, DemoMoves
<1>11. CASE D!trythis(t)
  <2>1. at[t] = "add" /\ counter' = loaded[t] + 1 /\ updates' = updates + 1
        /\ D!Goto(t, "unlock") /\ loaded' = loaded
    BY <1>11 DEF D!trythis
  <2>2. \A s \in D!Threads : s # t => at[s] # "add"  BY <1>1, <1>2, <2>1 DEF Exclusive, Inside
  <2>3. QED  BY <1>1, <1>3, <2>1, <2>2, DemoMoves
<1>12. CASE D!writer(t)  BY <1>4, <1>12 DEF D!writer
<1>13. CASE D!reader(t)
  <2>1. CASE at[t] = "test"
    <3>1. UNCHANGED <<counter, loaded, updates>> /\ \E w \in {"lock", "end"} : D!Goto(t, w)
      BY <1>13, <2>1 DEF D!reader
    <3>2. QED  BY <1>4, <3>1
  <2>2. CASE at[t] # "test"
    <3>1. UNCHANGED <<counter, updates>> /\ loaded' = [loaded EXCEPT ![t] = counter]
          /\ D!Goto(t, "unlock")
      BY <1>13, <2>2 DEF D!reader
    <3>2. \A s \in D!Threads : s # t => loaded'[s] = loaded[s]  BY <1>1, <3>1 DEF DemoTypes
    <3>3. QED  BY <1>1, <1>3, <3>1, <3>2, DemoMoves, SMT
  <2>3. QED  BY <2>1, <2>2
<1>14. demo # "sem" /\ demo # "cond"  BY <1>2
<1>15. ~D!producer(t) /\ ~D!consumer(t) /\ ~D!foo(t)
  BY <1>14 DEF D!producer, D!consumer, D!foo
<1>16. ~D!Spurious(t) /\ ~D!Woken(t)
  BY <1>14 DEF D!Spurious, D!Woken, DemoInv, DemoPlaces
<1>17. QED  BY <1>5, <1>6, <1>7, <1>8, <1>9, <1>10, <1>11, <1>12, <1>13, <1>15, <1>16
            DEF DemoStep

\* Producer and consumer: a thread enters and leaves its loop with a whole round in the
\* queue, or an empty one.
LEMMA SlotKept ==
  ASSUME DemoSizes, DemoInv, NEW t \in D!Threads, DemoStep(t)
  PROVE  SlotInv'
<1> SUFFICES ASSUME demo = "sem" PROVE SlotInv'
  <2>1. demo' = demo
    BY DEF DemoStep, D!Lock, D!spinlock_lock, D!std_test, D!std_set, D!Unlock, D!load, D!trythis,
           D!writer, D!reader, D!producer, D!consumer, D!foo, D!Spurious, D!Woken
  <2>2. QED  BY <2>1 DEF SlotInv
<1>1. DemoTypes /\ DemoPlaces /\ Exclusive /\ ~overlap  BY DEF DemoInv, Exclusive
<1>2. /\ \A s \in D!Threads :
           /\ at[s] \in {"lock", "in", "unlock", "end"}
           /\ at[s] # "end" => round[s] < Rounds
           /\ at[s] = "lock" => index[s] = 0
           /\ at[s] = "in" => index[s] \in D!Slots
      /\ at[1] = "in" =>
           \A k \in D!Slots : k < index[1] => content_queue[k] = Times(round[1], k)
      /\ at[1] # "in" /\ at[2] # "in" => WholeRound(content_queue)
      /\ at[2] = "in" => \E r \in 0 .. Rounds - 1 : Halfway(r)
      /\ at[2] = "unlock" => WholeRound(seen)
  BY DEF DemoInv, SlotInv
<1>3. \A s \in D!Threads : s # t /\ Inside(t) => at[s] \in {"lock", "end"}
  BY <1>1, <1>2 DEF Exclusive, Inside
<1>4. D!Threads = {1, 2} /\ \A k \in D!Slots : k \in Nat
  BY SMT DEF D!Threads, D!Slots, DemoSizes
<1>5. CASE D!Lock(t)
  <2>1. /\ at[t] = "lock" /\ ~locked /\ D!Goto(t, "in")
        /\ UNCHANGED <<demo, round, content_queue, index, seen>>
    BY <1>5 DEF D!Lock, D!Take, D!shared, D!history
  <2>2. \A s \in D!Threads : at[s] \in {"lock", "end"}  BY <1>1, <1>2, <2>1 DEF Exclusive, Inside
  <2>3. at'[t] = "in" /\ \A s \in D!Threads : s # t => at'[s] = at[s]  BY <1>1, <2>1, DemoMoves
  <2>4. index[t] = 0 /\ index[t] \in D!Slots  BY <1>2, <2>1, SMT DEF DemoSizes, D!Slots
  <2>5. PICK r \in 0 .. Rounds - 1 : \A k \in D!Slots : content_queue[k] = Times(r, k)
    BY <1>2, <1>4, <2>2 DEF WholeRound
  <2>6. t = 2 => Halfway(r)'
    <3> SUFFICES ASSUME t = 2, NEW k \in D!Slots
                 PROVE  ~(k < index'[2]) /\ content_queue'[k] = Times(r, k)
      BY DEF Halfway
    <3>1. QED  BY <1>4, <2>1, <2>4, <2>5, SMT
  <2>7. t = 1 => \A k \in D!Slots : ~(k < index'[1])  BY <1>4, <2>1, <2>4, SMT
  <2>8. QED  BY <1>2, <1>4, <2>1, <2>2, <2>3, <2>4, <2>6, <2>7, SMT DEF SlotInv
<1>6. CASE D!Unlock(t)
  <2>1. /\ at[t] = "unlock" /\ D!Goto(t, IF round'[t] < Rounds THEN "lock" ELSE "end")
        /\ round' = [round EXCEPT ![t] = @ + 1] /\ index' = [index EXCEPT ![t] = 0]
        /\ UNCHANGED <<demo, content_queue, seen>>
    BY <1>6 DEF D!Unlock, D!Last, D!shared, D!history
  <2>2. \A s \in D!Threads : s # t => at[s] \in {"lock", "end"}  BY <1>3, <2>1 DEF Inside
  <2>3. /\ at'[t] = (IF round'[t] < Rounds THEN "lock" ELSE "end")
        /\ \A s \in D!Threads : s # t => at'[s] = at[s]
    BY <1>1, <2>1, DemoMoves
  <2>4. \A s \in D!Threads : s # t => round'[s] = round[s] /\ index'[s] = index[s]
    BY <1>1, <2>1 DEF DemoTypes
  <2>5. index'[t] = 0  BY <1>1, <2>1 DEF DemoTypes
  <2>6. WholeRound(content_queue)'  BY <1>2, <1>4, <2>1, <2>2 DEF WholeRound
  <2>7. \A s \in D!Threads : at'[s] \in {"lock", "end"}  BY <2>2, <2>3
  <2>8. \A s \in D!Threads : at'[s] # "end" => round'[s] < Rounds  BY <1>2, <2>3, <2>4
  <2>9. \A s \in D!Threads : at'[s] = "lock" => index'[s] = 0  BY <1>2, <2>3, <2>4, <2>5
  <2>10. QED  BY <1>4, <2>6, <2>7, <2>8, <2>9 DEF SlotInv
<1>7. CASE D!producer(t)
  <2>1. /\ t = 1 /\ at[1] = "in" /\ D!NextSlot(1) /\ UNCHANGED <<demo, round, seen>>
        /\ content_queue' = [content_queue EXCEPT ![index[1]] = index[1] * round[1]]
    BY <1>7 DEF D!producer, D!history
  <2>2. /\ index' = [index EXCEPT ![1] = @ + 1]
        /\ D!Goto(1, IF index'[1] = SLOT_LEN THEN "unlock" ELSE "in")
    BY <2>1 DEF D!NextSlot
  <2>3. at[2] \in {"lock", "end"}  BY <1>3, <1>4, <2>1, SMT DEF Inside
  <2>4. /\ index[1] \in D!Slots /\ index'[1] = index[1] + 1 /\ index'[2] = index[2]
        /\ index[1] \in Nat
    BY <1>1, <1>2, <1>4, <2>1, <2>2, SMT DEF DemoTypes
  <2>5. at'[1] = (IF index'[1] = SLOT_LEN THEN "unlock" ELSE "in") /\ at'[2] = at[2]
    BY <1>1, <1>4, <2>2, DemoMoves, SMT
  <2>6. \A k \in D!Slots : k < index'[1] => content_queue'[k] = Times(round[1], k)
    <3> SUFFICES ASSUME NEW k \in D!Slots, k < index'[1]
                 PROVE  content_queue'[k] = Times(round[1], k)
      OBVIOUS
    <3>1. CASE k = index[1]  BY <1>1, <2>1, <3>1 DEF DemoTypes, Times
    <3>2. CASE k # index[1]
      <4>1. k < index[1]  BY <1>4, <2>4, <3>2, SMT
      <4>2. QED  BY <1>1, <1>2, <2>1, <3>2, <4>1 DEF DemoTypes
    <3>3. QED  BY <3>1, <3>2
  <2>7. at'[1] = "unlock" => WholeRound(content_queue)'
    <3> SUFFICES ASSUME at'[1] = "unlock" PROVE WholeRound(content_queue')
      BY DEF WholeRound
    <3>1. index'[1] = SLOT_LEN  BY <2>5
    <3>2. \A k \in D!Slots : k < index'[1]  BY <3>1, SMT DEF D!Slots, DemoSizes
    <3>3. round[1] \in 0 .. Rounds - 1  BY <1>1, <1>2, <1>4, <2>1, SMT DEF DemoTypes, DemoSizes
    <3>4. QED  BY <2>6, <3>2, <3>3 DEF WholeRound
  <2>8. at'[1] = "in" => index'[1] \in D!Slots  BY <2>4, <2>5, SMT DEF D!Slots, DemoSizes
  <2>9. \A s \in D!Threads : /\ at'[s] \in {"lock", "in", "unlock", "end"}
                             /\ at'[s] # "end" => round'[s] < Rounds
                             /\ at'[s] = "lock" => index'[s] = 0
                             /\ at'[s] = "in" => index'[s] \in D!Slots
    BY <1>2, <1>4, <2>1, <2>3, <2>4, <2>5, <2>8
  <2>10. at'[2] \in {"lock", "end"} /\ at'[1] \in {"in", "unlock"}  BY <2>3, <2>5
  <2>11. QED  BY <2>1, <2>6, <2>7, <2>9, <2>10 DEF SlotInv
<1>8. CASE D!consumer(t)
  <2>1. /\ t = 2 /\ at[2] = "in" /\ D!NextSlot(2) /\ UNCHANGED <<demo, round>>
        /\ seen' = [seen EXCEPT ![index[2]] = content_queue[index[2]]]
        /\ content_queue' = [content_queue EXCEPT ![index[2]] = 0]
    BY <1>8 DEF D!consumer
  <2>2. /\ index' = [index EXCEPT ![2] = @ + 1]
        /\ D!Goto(2, IF index'[2] = SLOT_LEN THEN "unlock" ELSE "in")
    BY <2>1 DEF D!NextSlot
  <2>3. at[1] \in {"lock", "end"}  BY <1>3, <1>4, <2>1, SMT DEF Inside
  <2>4. /\ index[2] \in D!Slots /\ index'[2] = index[2] + 1 /\ index'[1] = index[1]
        /\ index[2] \in Nat
    BY <1>1, <1>2, <1>4, <2>1, <2>2, SMT DEF DemoTypes
  <2>5. at'[2] = (IF index'[2] = SLOT_LEN THEN "unlock" ELSE "in") /\ at'[1] = at[1]
    BY <1>1, <1>4, <2>2, DemoMoves, SMT
  <2>6. PICK r \in 0 .. Rounds - 1 : Halfway(r)  BY <1>2, <2>1
  <2>7. \A k \in D!Slots :
          IF k < index'[2] THEN seen'[k] = Times(r, k) /\ content_queue'[k] = 0
                           ELSE content_queue'[k] = Times(r, k)
    <3> SUFFICES ASSUME NEW k \in D!Slots
                 PROVE  IF k < index'[2] THEN seen'[k] = Times(r, k) /\ content_queue'[k] = 0
                                         ELSE content_queue'[k] = Times(r, k)
      OBVIOUS
    <3>1. IF k < index[2] THEN seen[k] = Times(r, k) /\ content_queue[k] = 0
                          ELSE content_queue[k] = Times(r, k)
      BY <2>6 DEF Halfway
    <3>2. CASE k = index[2]
      <4>1. seen'[k] = content_queue[k] /\ content_queue'[k] = 0
        BY <1>1, <2>1, <3>2 DEF DemoTypes
      <4>2. k < index'[2] /\ ~(k < index[2])  BY <2>4, <3>2, SMT
      <4>3. QED  BY <3>1, <4>1, <4>2
    <3>3. CASE k # index[2]
      <4>1. seen'[k] = seen[k] /\ content_queue'[k] = content_queue[k]
        BY <1>1, <2>1, <3>3 DEF DemoTypes
      <4>2. k < index'[2] <=> k < index[2]  BY <1>4, <2>4, <3>3, SMT
      <4>3. QED  BY <3>1, <4>1, <4>2
    <3>4. QED  BY <3>2, <3>3
  <2>8. at'[2] = "unlock" => WholeRound(seen') /\ WholeRound(content_queue')
    <3> SUFFICES ASSUME at'[2] = "unlock" PROVE WholeRound(seen') /\ WholeRound(content_queue')
      OBVIOUS
    <3>1. index'[2] = SLOT_LEN  BY <2>5
    <3>2. \A k \in D!Slots : k < index'[2]  BY <3>1, SMT DEF D!Slots, DemoSizes
    <3>3. WholeRound(seen')  BY <2>7, <3>2 DEF WholeRound
    <3>4. 0 \in 0 .. Rounds - 1 /\ \A k \in D!Slots : Times(0, k) = 0
      BY <1>4, SMT DEF Times, DemoSizes
    <3>5. WholeRound(content_queue')  BY <2>7, <3>2, <3>4 DEF WholeRound
    <3>6. QED  BY <3>3, <3>5
  <2>9. at'[2] = "in" => index'[2] \in D!Slots  BY <2>4, <2>5, SMT DEF D!Slots, DemoSizes
  <2>10. \A s \in D!Threads : /\ at'[s] \in {"lock", "in", "unlock", "end"}
                              /\ at'[s] # "end" => round'[s] < Rounds
                              /\ at'[s] = "lock" => index'[s] = 0
                              /\ at'[s] = "in" => index'[s] \in D!Slots
    BY <1>2, <1>4, <2>1, <2>3, <2>4, <2>5, <2>9
  <2>11. at'[1] \in {"lock", "end"} /\ at'[2] \in {"in", "unlock"}  BY <2>3, <2>5
  <2>12. Halfway(r)'  BY <2>7 DEF Halfway
  <2>13. /\ WholeRound(seen') <=> WholeRound(seen)'
         /\ WholeRound(content_queue') <=> WholeRound(content_queue)'
    BY DEF WholeRound
  <2>14. QED  BY <2>8, <2>10, <2>11, <2>12, <2>13 DEF SlotInv
<1>9. /\ ~D!spinlock_lock(t) /\ ~D!std_test(t) /\ ~D!writer(t) /\ ~D!foo(t)
      /\ ~D!std_set(t) /\ ~D!load(t) /\ ~D!trythis(t) /\ ~D!reader(t)
      /\ ~D!Spurious(t) /\ ~D!Woken(t)
  BY <1>2 DEF D!spinlock_lock, D!std_test, D!writer, D!foo, D!std_set, D!load, D!Adds, D!trythis,
              D!reader, D!Spurious, D!Woken
<1>10. QED  BY <1>5, <1>6, <1>7, <1>8, <1>9 DEF DemoStep

\* The two threads of cond, as long as nobody is woken by nobody.
LEMMA CondKept ==
  ASSUME DemoInv, NEW t \in D!Threads, DemoStep(t)
  PROVE  CondInv'
<1> SUFFICES ASSUME demo' = "cond", ~spurious' PROVE CondInv'
  BY DEF CondInv
<1>1. demo = "cond" /\ ~spurious
  BY DEF DemoInv, DemoTypes, DemoStep, D!history, D!Lock, D!spinlock_lock, D!std_test, D!std_set,
         D!Unlock, D!load, D!trythis, D!writer, D!reader, D!producer, D!consumer, D!foo,
         D!Spurious, D!Woken
<1>2. DemoTypes /\ DemoPlaces /\ Exclusive /\ ~overlap  BY <1>1 DEF DemoInv, Exclusive
<1>3. PICK o \in D!Threads : o # t /\ \A s \in D!Threads : s = t \/ s = o
  BY SMT DEF D!Threads
<1>4. /\ loaded[t] \in {0, 7} /\ loaded[o] \in {0, 7}
      /\ \/ counter = 1 /\ at[t] \in {"lock", "in"} /\ at[o] \in {"lock", "in"}
         \/ counter = 2 /\ at[t] = "wait" /\ at[o] \in {"lock", "in"}
         \/ counter = 2 /\ at[o] = "wait" /\ at[t] \in {"lock", "in"}
         \/ counter = 7 /\ at[t] \in {"unlock", "woken", "end"}
                        /\ at[o] \in {"unlock", "woken", "end"}
  BY <1>1, <1>3 DEF DemoInv, CondInv
<1>5. ASSUME /\ loaded'[t] \in {0, 7} /\ loaded'[o] \in {0, 7}
             /\ \/ counter' = 1 /\ at'[t] \in {"lock", "in"} /\ at'[o] \in {"lock", "in"}
                \/ counter' = 2 /\ at'[t] = "wait" /\ at'[o] \in {"lock", "in"}
                \/ counter' = 2 /\ at'[o] = "wait" /\ at'[t] \in {"lock", "in"}
                \/ counter' = 7 /\ at'[t] \in {"unlock", "woken", "end"}
                                /\ at'[o] \in {"unlock", "woken", "end"}
      PROVE  CondInv'
  BY <1>3, <1>5 DEF CondInv
<1> USE DEF D!shared, D!history
<1>6. CASE D!Lock(t)  BY <1>2, <1>3, <1>4, <1>5, <1>6, DemoMoves DEF D!Lock, D!Take
<1>7. CASE D!Unlock(t)
  <2>1. at[t] = "unlock" /\ round' = [round EXCEPT ![t] = @ + 1]
        /\ D!Goto(t, IF round'[t] < 1 THEN "lock" ELSE "end") /\ UNCHANGED <<counter, loaded>>
    BY <1>1, <1>7 DEF D!Unlock, D!Last
  <2>2. ~(round'[t] < 1)  BY <1>2, <2>1, SMT DEF DemoTypes
  <2>3. at'[t] = "end" /\ at'[o] = at[o]  BY <1>2, <1>3, <2>1, <2>2, DemoMoves
  <2>4. QED  BY <1>4, <1>5, <2>1, <2>3
<1>8. CASE D!foo(t)
  <2>1. at[t] = "in" /\ loaded' = loaded  BY <1>8 DEF D!foo
  <2>2. CASE counter = 1
    <3>1. counter' = 2 /\ D!Goto(t, "wait")  BY <1>8, <2>2 DEF D!foo
    <3>2. at'[t] = "wait" /\ at'[o] = at[o]  BY <1>2, <1>3, <3>1, DemoMoves
    <3>3. QED  BY <1>4, <1>5, <2>1, <2>2, <3>1, <3>2, SMT
  <2>3. CASE counter # 1
    <3>1. counter = 2 /\ at[o] = "wait"  BY <1>4, <2>1, <2>3
    <3>2. counter' = 7 /\ at'[t] = "unlock" /\ at'[o] = "woken"
      BY <1>3, <1>8, <2>3, <3>1, SMT DEF D!foo
    <3>3. QED  BY <1>4, <1>5, <2>1, <3>2
  <2>4. QED  BY <2>2, <2>3
<1>9. CASE D!Woken(t)
  <2>1. at[t] = "woken" /\ D!Goto(t, "unlock") /\ counter' = counter
        /\ loaded' = [loaded EXCEPT ![t] = counter]
    BY <1>9 DEF D!Woken
  <2>2. loaded'[t] = counter /\ loaded'[o] = loaded[o]  BY <1>2, <1>3, <2>1 DEF DemoTypes
  <2>3. at'[t] = "unlock" /\ at'[o] = at[o]  BY <1>2, <1>3, <2>1, DemoMoves
  <2>4. QED  BY <1>4, <1>5, <2>1, <2>2, <2>3
<1>10. at[t] \notin {"test", "set", "add"}  BY <1>4
<1>11. /\ ~D!spinlock_lock(t) /\ ~D!std_test(t) /\ ~D!writer(t) /\ ~D!producer(t)
       /\ ~D!consumer(t) /\ ~D!std_set(t) /\ ~D!load(t) /\ ~D!trythis(t) /\ ~D!reader(t)
       /\ ~D!Spurious(t)
  BY <1>1, <1>10 DEF D!spinlock_lock, D!std_test, D!writer, D!producer, D!consumer, D!std_set,
                     D!load, D!Adds, D!trythis, D!reader, D!Spurious
<1>12. QED  BY <1>6, <1>7, <1>8, <1>9, <1>11 DEF DemoStep

LEMMA DemoInductive ==
  ASSUME DemoSizes, DemoInv, [D!Next]_D!syncVars
  PROVE  DemoInv'
<1>1. CASE \E t \in D!Threads : DemoStep(t)
  BY <1>1, DemoTypesKept, DemoPlacesKept, ExclusiveKept, CountKept, SlotKept, CondKept DEF DemoInv
<1>2. CASE UNCHANGED <<demo, at, round, locked, D!shared, loaded, index, D!history>>
  <2>1. UNCHANGED <<demo, at, round, locked, counter, content_queue, loaded, index, updates,
                    overlap, spurious, seen>>
    BY <1>2 DEF D!shared, D!history
  <2>2. DemoTypes' /\ DemoPlaces' /\ Exclusive' /\ CountInv' /\ CondInv'
    BY <2>1 DEF DemoInv, DemoTypes, DemoPlaces, Exclusive, Inside, CountInv, CondInv
  <2>3. SlotInv'  BY <2>1 DEF DemoInv, SlotInv, WholeRound, Halfway
  <2>4. QED  BY <2>2, <2>3 DEF DemoInv
<1>3. QED  BY <1>1, <1>2 DEF D!Next, D!main, DemoStep, D!syncVars

\* No addition under a lock is lost, the consumer sees whole rounds of the producer and
\* the waiting thread what the other one has added, for any number of rounds and slots:
\* but for the spin lock that tests and then sets, and a thread woken by nobody.
THEOREM LocksKeepUpdates ==
  ASSUME DemoSizes
  PROVE  D!Init /\ [][D!Next]_D!syncVars => []D!NoLostUpdate
<1>1. DemoInv => D!NoLostUpdate
  BY DEF DemoInv, Exclusive, CountInv, SlotInv, WholeRound, Times, CondInv, D!NoLostUpdate
<1>2. D!Init => DemoInv  BY DemoInitially
<1>3. DemoInv /\ [D!Next]_D!syncVars => DemoInv'  BY DemoInductive
<1>4. QED  BY <1>1, <1>2, <1>3, PTL

-----------------------------------------------------------------------------
INSTANCE SequenceTheorems

CONSTANTS Queries, MaxCalls, MaxFaults
VARIABLES ncall, query, seq, inbox, outcome, nfault
L == INSTANCE NetlinkQuery

\* sendrecv_xfrm_msg.
Messages == [kernel : BOOLEAN, seq : Nat, about : Queries, type : {"NEWSA", "ERROR"}]
Outcomes == {L!None, [type |-> "wait"]} \union Messages

\* The kernel has answered no request later than seq, and the one of this call with seq.
Ordered == \A k \in DOMAIN inbox : inbox[k].kernel =>
             inbox[k].seq <= seq /\ (inbox[k].seq = seq => inbox[k].about = query)

QueryInv ==
    /\ seq \in Nat /\ inbox \in Seq(Messages)
    /\ outcome \in Outcomes
    /\ Ordered
    /\ L!AnswersItsQuery

LEMMA QueryInitially == L!Init => QueryInv
  BY SMT DEF L!Init, L!None, L!Waiting, QueryInv, Ordered, Outcomes, L!AnswersItsQuery

\* What a queue holds after one more message.
LEMMA OneMore ==
  ASSUME inbox \in Seq(Messages), NEW m \in Messages, inbox' = Append(inbox, m)
  PROVE  /\ inbox' \in Seq(Messages)
         /\ \A k \in DOMAIN inbox' : inbox'[k] = m \/ (k \in DOMAIN inbox /\ inbox'[k] = inbox[k])
         /\ \A k \in DOMAIN inbox : k \in DOMAIN inbox' /\ inbox'[k] = inbox[k]
         /\ \E k \in DOMAIN inbox' : inbox'[k] = m
<1>1. /\ inbox' \in Seq(Messages) /\ Len(inbox') = Len(inbox) + 1
      /\ inbox'[Len(inbox) + 1] = m
      /\ \A k \in 1 .. Len(inbox) : inbox'[k] = inbox[k]
  BY AppendProperties, SMT
<1>2. DOMAIN inbox = 1 .. Len(inbox) /\ DOMAIN inbox' = 1 .. Len(inbox) + 1 /\ Len(inbox) \in Nat
  BY <1>1, SMT
<1>3. QED  BY <1>1, <1>2, SMT

LEMMA QueryInductive == QueryInv /\ [L!Next]_L!netlinkVars => QueryInv'
<1> SUFFICES ASSUME QueryInv, [L!Next]_L!netlinkVars PROVE QueryInv'
  OBVIOUS
<1>1. seq \in Nat /\ inbox \in Seq(Messages) /\ outcome \in Outcomes /\ Ordered
  BY DEF QueryInv
<1>2. ASSUME NEW k \in DOMAIN inbox PROVE inbox[k] \in Messages /\ inbox[k].seq \in Nat
  <2>1. inbox[k] \in Messages  BY <1>1, SMT
  <2>2. QED  BY <2>1 DEF Messages
<1>3. CASE L!Write
  <2>1. seq' = seq + 1 /\ query' \in Queries  BY <1>3 DEF L!Write, L!NextSeq
  <2>2. \A k \in DOMAIN inbox : inbox[k].kernel => inbox[k].seq < seq'
    BY <1>1, <1>2, <2>1, SMT DEF Ordered
  <2>3. CASE outcome' = L!None /\ UNCHANGED inbox
    <3>1. outcome' \in Outcomes /\ ~(outcome'.type \in {"NEWSA", "ERROR", "wait"})
      BY <2>3 DEF Outcomes, L!None
    <3>2. Ordered'  BY <1>1, <1>2, <2>1, <2>2, <2>3, SMT DEF Ordered
    <3>3. QED
      BY <1>1, <2>1, <2>3, <3>1, <3>2, SMT DEF QueryInv, L!AnswersItsQuery, L!Waiting
  <2>4. ASSUME NEW type \in {"NEWSA", "ERROR"},
               inbox' = Append(inbox, [kernel |-> TRUE, seq |-> seq', about |-> query',
                                       type |-> type]),
               outcome' = [type |-> "wait"]
        PROVE  QueryInv'
    <3> DEFINE m == [kernel |-> TRUE, seq |-> seq', about |-> query', type |-> type]
    <3>1. m \in Messages /\ m.kernel /\ m.seq = seq' /\ m.about = query'
      BY <1>1, <2>1, SMT DEF Messages
    <3>2. inbox' = Append(inbox, m)  BY <2>4
    <3> HIDE DEF m
    <3>3. /\ inbox' \in Seq(Messages)
          /\ \A k \in DOMAIN inbox' : inbox'[k] = m
                                      \/ (k \in DOMAIN inbox /\ inbox'[k] = inbox[k])
          /\ \E k \in DOMAIN inbox' : inbox'[k] = m
      BY <1>1, <3>1, <3>2, OneMore
    <3>4. Ordered'
      <4>1. seq' \in Nat /\ seq' <= seq'  BY <1>1, <2>1, SMT
      <4>2. \A k \in DOMAIN inbox : inbox[k].kernel => inbox[k].seq <= seq' /\ inbox[k].seq # seq'
        BY <1>2, <2>2, <4>1, SMT
      <4>3. QED  BY <3>1, <3>3, <4>1, <4>2 DEF Ordered
    <3>5. L!AnswersItsQuery'
      BY <2>4, <3>1, <3>3 DEF L!AnswersItsQuery, L!Ours, L!Waiting
    <3>6. QED  BY <1>1, <2>1, <2>4, <3>3, <3>4, <3>5, SMT DEF QueryInv, Outcomes
  <2>5. QED  BY <1>3, <2>3, <2>4 DEF L!Write
<1>4. CASE L!RecvFails
  BY <1>4 DEF L!RecvFails, L!None, QueryInv, Ordered, Outcomes, L!AnswersItsQuery, L!Ours,
              L!Waiting
<1>5. CASE L!Recv
  <2>1. /\ outcome.type = "wait" /\ inbox # <<>> /\ inbox' = Tail(inbox)
        /\ \/ outcome' = (IF L!Ours(Head(inbox)) THEN Head(inbox) ELSE outcome)
           \/ L!Ours(Head(inbox)) /\ outcome' = L!None
        /\ UNCHANGED <<query, seq>>
    BY <1>5 DEF L!Recv, L!Waiting
  <2>2. /\ Head(inbox) = inbox[1] /\ Len(inbox) \in Nat /\ Len(inbox) > 0
        /\ inbox' \in Seq(Messages) /\ Len(inbox') = Len(inbox) - 1
        /\ \A k \in 1 .. Len(inbox) - 1 : inbox'[k] = inbox[k + 1]
    BY <1>1, <2>1, HeadTailProperties, SMT
  <2>3. DOMAIN inbox = 1 .. Len(inbox) /\ DOMAIN inbox' = 1 .. Len(inbox) - 1
    BY <1>1, <2>2, SMT
  <2>4. \A k \in DOMAIN inbox' : k + 1 \in DOMAIN inbox /\ inbox'[k] = inbox[k + 1]
    BY <2>2, <2>3, SMT
  <2>5. Ordered'  BY <1>1, <2>1, <2>4 DEF Ordered
  <2>6. PICK k \in DOMAIN inbox : L!Ours(inbox[k]) /\ inbox[k].about = query
    BY <2>1 DEF QueryInv, L!AnswersItsQuery, L!Waiting
  <2>7. CASE L!Ours(Head(inbox)) /\ outcome' = Head(inbox)
    <3>1. 1 \in DOMAIN inbox /\ outcome' = inbox[1]  BY <2>1, <2>2, <2>3, <2>7, SMT
    <3>2. outcome' \in Messages /\ outcome'.type \in {"NEWSA", "ERROR"}
      BY <1>2, <3>1 DEF Messages
    <3>3. outcome'.kernel /\ outcome'.about = query
      BY <1>1, <2>2, <2>7, <3>1 DEF L!Ours, Ordered
    <3>4. L!AnswersItsQuery'  BY <2>1, <3>2, <3>3 DEF L!AnswersItsQuery, L!Waiting
    <3>5. QED  BY <1>1, <2>1, <2>2, <2>5, <3>2, <3>4 DEF QueryInv, Outcomes
  <2>8. CASE ~L!Ours(Head(inbox))
    <3>1. k # 1  BY <2>2, <2>6, <2>8
    <3>2. k - 1 \in DOMAIN inbox' /\ (k - 1) + 1 = k  BY <2>2, <2>3, <3>1, SMT
    <3>3. inbox'[k - 1] = inbox[k]  BY <2>4, <3>2
    <3>4. outcome' = outcome  BY <2>1, <2>8
    <3>5. L!AnswersItsQuery'
      BY <2>1, <2>6, <3>2, <3>3, <3>4 DEF L!AnswersItsQuery, L!Ours, L!Waiting
    <3>6. QED  BY <1>1, <2>1, <2>2, <2>5, <3>4, <3>5 DEF QueryInv
  <2>9. CASE outcome' = L!None
    <3>1. outcome' \in Outcomes /\ ~(outcome'.type \in {"NEWSA", "ERROR", "wait"})
      BY <2>9 DEF Outcomes, L!None
    <3>2. L!AnswersItsQuery'  BY <3>1 DEF L!AnswersItsQuery, L!Waiting
    <3>3. QED  BY <1>1, <2>1, <2>2, <2>5, <3>1, <3>2 DEF QueryInv
  <2>10. QED  BY <2>1, <2>7, <2>8, <2>9
<1>6. CASE L!Other
  <2>1. PICK s \in 1 .. MaxCalls, about \in Queries :
          inbox' = Append(inbox, [kernel |-> FALSE, seq |-> s, about |-> about,
                                  type |-> "NEWSA"])
    BY <1>6 DEF L!Other
  <2> DEFINE m == [kernel |-> FALSE, seq |-> s, about |-> about, type |-> "NEWSA"]
  <2>2. m \in Messages /\ ~m.kernel  BY SMT DEF Messages
  <2>3. inbox' = Append(inbox, m) /\ UNCHANGED <<query, seq, outcome>>
    BY <1>6, <2>1 DEF L!Other
  <2> HIDE DEF m
  <2>4. /\ inbox' \in Seq(Messages)
        /\ \A k \in DOMAIN inbox' : inbox'[k] = m \/ (k \in DOMAIN inbox /\ inbox'[k] = inbox[k])
        /\ \A k \in DOMAIN inbox : k \in DOMAIN inbox' /\ inbox'[k] = inbox[k]
    BY <1>1, <2>2, <2>3, OneMore
  <2>5. Ordered'  BY <1>1, <2>2, <2>3, <2>4 DEF Ordered
  <2>6. L!AnswersItsQuery'
    BY <2>3, <2>4 DEF QueryInv, L!AnswersItsQuery, L!Ours, L!Waiting
  <2>7. QED  BY <1>1, <2>3, <2>4, <2>5, <2>6 DEF QueryInv
<1>7. CASE UNCHANGED L!netlinkVars
  BY <1>7 DEF L!netlinkVars, QueryInv, Ordered, L!AnswersItsQuery, L!Ours, L!Waiting
<1>8. QED  BY <1>3, <1>4, <1>5, <1>6, <1>7 DEF L!Next, L!Done

\* sendrecv_xfrm_msg returns the kernel's answer to the request of this call, whatever
\* answers to earlier calls and messages of other processes the socket still holds, and
\* however many there are.
THEOREM QueryIsAnswered == L!Spec => []L!AnswersItsQuery
<1>1. QueryInv => L!AnswersItsQuery  BY DEF QueryInv
<1>2. QED  BY <1>1, QueryInitially, QueryInductive, PTL DEF L!Spec
-----------------------------------------------------------------------------
VARIABLES field, callback, queued, running, asked, answer, calls, unload, requeued
W == INSTANCE WlanWork

\* The wireless device.
Names == W!Works \union {"freed"}
\* What virtual_wifi_exit has done is a beginning of what it does.
Unloading ==
    /\ unload \in Seq(Names) /\ Len(unload) <= 4
    /\ \A k \in 1 .. Len(unload) : unload[k] = W!Order[k]

\* What a callback that has not returned leaves in the context nobody else looks at: its
\* work item is neither queued nor running.
InCall ==
    callback # W!Nobody =>
      \E w \in W!Works, v \in Nat \ {W!NULL} :
        callback = <<w, v>> /\ field[w] = v /\ asked[w] = W!NULL

WlanInv ==
    /\ calls \in Nat /\ Unloading
    /\ field \in [W!Works -> Nat] /\ asked \in [W!Works -> Nat]
    /\ queued \subseteq W!Works /\ running \subseteq W!Works /\ queued \intersect running = {}
    /\ \A w \in W!Works : asked[w] # W!NULL => field[w] = asked[w]
    /\ \A w \in queued \union running :
         asked[w] # W!NULL /\ (W!Cancelled(w) => w \in requeued)
    /\ InCall
    /\ W!AnswersItsRequest

LEMMA WlanInitially == W!Init => WlanInv
  BY SMT DEF W!Init, W!Nobody, W!NULL, W!Answer, W!AnswersItsRequest, WlanInv, InCall, Unloading

LEMMA WhatIsCancelled ==
  ASSUME Unloading
  PROVE  /\ Len(unload) \in 0 .. 4
         /\ \A x : W!Cancelled(x) <=> \E k \in 1 .. Len(unload) : x = W!Order[k]
         /\ W!Freed <=> Len(unload) = 4
<1>1. Len(unload) \in 0 .. 4 /\ DOMAIN unload = 1 .. Len(unload)
  <2>1. Len(unload) \in Nat /\ DOMAIN unload = 1 .. Len(unload)
    BY LenProperties DEF Unloading
  <2>2. QED  BY <2>1, SMT DEF Unloading
<1>2. \A x : W!Cancelled(x) <=> \E k \in 1 .. Len(unload) : x = W!Order[k]
  BY <1>1 DEF W!Cancelled, Unloading
<1>3. \A k \in 1 .. 4 : W!Order[k] = "freed" <=> k = 4
  BY SMT DEF W!Order, W!connect, W!disconnect, W!scan
<1>4. W!Freed <=> \E k \in 1 .. Len(unload) : "freed" = W!Order[k]  BY <1>2 DEF W!Freed
<1>5. (\E k \in 1 .. Len(unload) : "freed" = W!Order[k]) <=> Len(unload) = 4
  <2>1. \A k \in 1 .. Len(unload) : k \in 1 .. 4  BY <1>1, SMT
  <2>2. Len(unload) = 4 <=> 4 \in 1 .. Len(unload)  BY <1>1, SMT
  <2>3. QED  BY <1>3, <2>1, <2>2
<1>6. QED  BY <1>1, <1>2, <1>4, <1>5

\* virtual_wifi_exit goes on from one stage to the next.
LEMMA NextStage ==
  ASSUME Unloading, ~W!Freed, unload' = Append(unload, W!Order[Len(unload) + 1])
  PROVE  /\ Unloading'
         /\ \A x : W!Cancelled(x)' => W!Cancelled(x) \/ x = W!Order[Len(unload) + 1]
<1>1. Len(unload) \in 0 .. 3  BY WhatIsCancelled, SMT
<1>2. \A k \in 1 .. 4 : W!Order[k] \in Names
  BY SMT DEF W!Order, Names, W!Works
<1>3. /\ unload' \in Seq(Names) /\ Len(unload') = Len(unload) + 1
      /\ unload'[Len(unload) + 1] = W!Order[Len(unload) + 1]
      /\ \A m \in 1 .. Len(unload) : unload'[m] = unload[m]
  BY <1>1, <1>2, AppendProperties, SMT DEF Unloading
<1>4. \A k \in 1 .. Len(unload') : k \in 1 .. Len(unload) \/ k = Len(unload) + 1
  BY <1>1, <1>3, SMT
<1>5. Len(unload') <= 4 /\ \A k \in 1 .. Len(unload') : unload'[k] = W!Order[k]
  BY <1>1, <1>3, <1>4, SMT DEF Unloading
<1>6. DOMAIN unload' = 1 .. Len(unload') /\ DOMAIN unload = 1 .. Len(unload)
  BY <1>3, SMT DEF Unloading
<1>7. QED  BY <1>3, <1>4, <1>5, <1>6 DEF Unloading, W!Cancelled

LEMMA StageKept ==
  ASSUME WlanInv, unload' = unload, answer' = answer
  PROVE  Unloading' /\ W!AnswersItsRequest' /\ \A x : W!Cancelled(x)' <=> W!Cancelled(x)
<1>1. Unloading'  BY DEF WlanInv, Unloading
<1>2. W!AnswersItsRequest'  BY DEF WlanInv, W!AnswersItsRequest
<1>3. QED  BY <1>1, <1>2 DEF W!Cancelled

LEMMA AskStep ==
  ASSUME WlanInv, NEW w \in W!Works, NEW v \in Nat \ {W!NULL}, asked[w] = W!NULL, W!Ask(w, v)
  PROVE  WlanInv'
<1>1. /\ callback' = <<w, v>> /\ field' = [field EXCEPT ![w] = v] /\ calls' = calls + 1
      /\ UNCHANGED <<queued, running, asked, answer, unload, requeued>>
  BY DEF W!Ask
<1>2. field' \in [W!Works -> Nat] /\ field'[w] = v /\ calls' \in Nat
  BY <1>1, SMT DEF WlanInv
<1>3. \A x \in W!Works : asked'[x] # W!NULL => field'[x] = asked'[x]
  BY <1>1 DEF WlanInv
<1>4. InCall'  BY <1>1, <1>2 DEF InCall
<1>5. Unloading' /\ W!AnswersItsRequest' /\ \A x : W!Cancelled(x)' <=> W!Cancelled(x)
  BY <1>1, StageKept
<1>6. \A x \in queued' \union running' :
        asked'[x] # W!NULL /\ (W!Cancelled(x)' => x \in requeued')
  BY <1>1, <1>5 DEF WlanInv
<1>7. QED  BY <1>1, <1>2, <1>3, <1>4, <1>5, <1>6 DEF WlanInv

LEMMA RoutineStep ==
  ASSUME WlanInv, NEW w \in W!Works, NEW given, W!Routine(w, given, given)
  PROVE  WlanInv'
<1>1. /\ w \in running /\ running' = running \ {w}
      /\ answer' = W!Answer(given, given, asked[w])
      /\ field' = [field EXCEPT ![w] = W!NULL] /\ asked' = [asked EXCEPT ![w] = W!NULL]
      /\ UNCHANGED <<queued, callback, calls, unload, requeued>>
  BY DEF W!Routine
<1>2. asked[w] # W!NULL /\ W!NULL \in Nat  BY <1>1 DEF WlanInv, W!NULL
<1>3. field' \in [W!Works -> Nat] /\ asked' \in [W!Works -> Nat]
  BY <1>1, <1>2 DEF WlanInv
<1>4. W!AnswersItsRequest'  BY <1>1, <1>2 DEF W!AnswersItsRequest, W!Answer
<1>5. /\ \A x \in W!Works : asked'[x] # W!NULL => field'[x] = asked'[x]
      /\ \A x \in queued' \union running' :
           asked'[x] # W!NULL /\ (W!Cancelled(x)' => x \in requeued')
  BY <1>1 DEF WlanInv, W!Cancelled
<1>6. InCall'
  <2>1. SUFFICES ASSUME callback # W!Nobody PROVE InCall'
    BY <1>1 DEF InCall, W!Nobody
  <2>2. PICK x \in W!Works, v \in Nat \ {W!NULL} :
          callback = <<x, v>> /\ field[x] = v /\ asked[x] = W!NULL
    BY <2>1 DEF WlanInv, InCall
  <2>3. field'[x] = v /\ asked'[x] = W!NULL  BY <1>1, <1>2, <2>2 DEF WlanInv
  <2>4. QED  BY <1>1, <2>2, <2>3 DEF InCall
<1>7. Unloading'  BY <1>1 DEF WlanInv, Unloading
<1>8. QED  BY <1>1, <1>3, <1>4, <1>5, <1>6, <1>7 DEF WlanInv

LEMMA WlanInductive == WlanInv /\ [W!Next]_W!wlanVars => WlanInv'
<1> SUFFICES ASSUME WlanInv, [W!Next]_W!wlanVars PROVE WlanInv'
  BY SMT
<1>1. /\ W!scan \in W!Works /\ W!connect \in W!Works /\ W!disconnect \in W!Works
      /\ calls + 1 \in Nat \ {W!NULL} /\ {W!SSID_DUMMY, 2} \subseteq Nat \ {W!NULL}
  BY SMT DEF WlanInv, W!Works, W!NULL, W!SSID_DUMMY
<1>2. CASE W!wi_scan
  <2>1. asked[W!scan] = W!NULL  BY <1>1, <1>2 DEF W!wi_scan, WlanInv
  <2>2. QED  BY <1>1, <1>2, <2>1, AskStep DEF W!wi_scan
<1>3. CASE W!wi_connect
  <2>1. PICK ssid \in {W!SSID_DUMMY, 2} : W!Ask(W!connect, ssid)  BY <1>3 DEF W!wi_connect
  <2>2. QED  BY <1>1, <1>3, <2>1, AskStep DEF W!wi_connect
<1>4. CASE W!wi_disconnect
  BY <1>1, <1>4, AskStep DEF W!wi_disconnect
<1>5. CASE W!schedule_work
  <2>1. PICK w \in W!Works, v \in Nat \ {W!NULL} :
          callback = <<w, v>> /\ field[w] = v /\ asked[w] = W!NULL
    BY <1>5 DEF W!schedule_work, WlanInv, InCall
  <2>2. w \notin queued /\ w \notin running  BY <2>1 DEF WlanInv
  <2>3. callback[1] = w /\ callback[2] = v  BY <2>1
  <2>4. /\ queued' = queued \union {w} /\ asked' = [asked EXCEPT ![w] = v]
        /\ requeued' = IF W!Cancelled(w) THEN requeued \union {w} ELSE requeued
        /\ callback' = W!Nobody
        /\ UNCHANGED <<field, running, answer, calls, unload>>
    BY <1>5, <2>2, <2>3 DEF W!schedule_work
  <2>5. asked' \in [W!Works -> Nat] /\ asked'[w] = v  BY <2>4 DEF WlanInv
  <2>6. \A x \in W!Works : asked'[x] # W!NULL => field'[x] = asked'[x]
    BY <2>1, <2>4, <2>5 DEF WlanInv
  <2>7. \A x \in queued' \union running' :
          asked'[x] # W!NULL /\ (W!Cancelled(x)' => x \in requeued')
    BY <2>4, <2>5 DEF WlanInv, W!Cancelled
  <2>8. InCall'  BY <2>4 DEF InCall
  <2>9. Unloading' /\ W!AnswersItsRequest'  BY <2>4, StageKept
  <2>10. queued' \subseteq W!Works /\ running' \subseteq W!Works /\ queued' \intersect running' = {}
    BY <2>2, <2>4 DEF WlanInv
  <2>11. calls' \in Nat /\ field' \in [W!Works -> Nat]  BY <2>4 DEF WlanInv
  <2>12. QED  BY <2>5, <2>6, <2>7, <2>8, <2>9, <2>10, <2>11 DEF WlanInv
<1>6. ASSUME NEW w \in W!Works, W!Run(w) PROVE WlanInv'
  <2>1. /\ w \in queued /\ queued' = queued \ {w} /\ running' = running \union {w}
        /\ UNCHANGED <<field, callback, asked, answer, calls, unload, requeued>>
    BY <1>6 DEF W!Run
  <2>2. Unloading' /\ W!AnswersItsRequest' /\ \A x : W!Cancelled(x)' <=> W!Cancelled(x)
    BY <2>1, StageKept
  <2>3. InCall'  BY <2>1 DEF WlanInv, InCall
  <2>4. queued' \union running' = queued \union running /\ queued' \intersect running' = {}
    BY <2>1 DEF WlanInv
  <2>5. \A x \in queued' \union running' :
          asked'[x] # W!NULL /\ (W!Cancelled(x)' => x \in requeued')
    BY <2>1, <2>2, <2>4 DEF WlanInv
  <2>6. QED  BY <2>1, <2>2, <2>3, <2>4, <2>5 DEF WlanInv
<1>7. CASE W!Routines
  <2>1. \A w \in running : asked[w] = field[w]  BY DEF WlanInv
  <2>2. CASE W!wlanidt_scan_routine
    <3>1. field[W!scan] = asked[W!scan]  BY <2>1, <2>2 DEF W!wlanidt_scan_routine, W!Routine
    <3>2. QED  BY <1>1, <2>2, <3>1, RoutineStep DEF W!wlanidt_scan_routine
  <2>3. CASE W!wlanidt_connect_routine
    <3>1. field[W!connect] = asked[W!connect]
      BY <2>1, <2>3 DEF W!wlanidt_connect_routine, W!Routine
    <3>2. QED  BY <1>1, <2>3, <3>1, RoutineStep DEF W!wlanidt_connect_routine
  <2>4. CASE W!wlanidt_disconnect_routine
    <3>1. field[W!disconnect] = asked[W!disconnect]
      BY <2>1, <2>4, SMT DEF W!wlanidt_disconnect_routine, W!Routine
    <3>2. QED  BY <1>1, <2>4, <3>1, RoutineStep DEF W!wlanidt_disconnect_routine
  <2>5. QED  BY <1>7, <2>2, <2>3, <2>4 DEF W!Routines
<1>8. CASE W!virtual_wifi_exit
  <2> DEFINE next == W!Order[Len(unload) + 1]
  <2>1. /\ ~W!Freed /\ next \notin running /\ queued' = queued \ {next}
        /\ unload' = Append(unload, next)
        /\ UNCHANGED <<field, callback, running, asked, answer, calls, requeued>>
    BY <1>8 DEF W!virtual_wifi_exit
  <2>2. Unloading' /\ \A x : W!Cancelled(x)' => W!Cancelled(x) \/ x = next
    BY <2>1, NextStage DEF WlanInv
  <2> HIDE DEF next
  <2>3. \A x \in queued' \union running' :
          asked'[x] # W!NULL /\ (W!Cancelled(x)' => x \in requeued')
    BY <2>1, <2>2 DEF WlanInv
  <2>4. InCall' /\ W!AnswersItsRequest'  BY <2>1 DEF WlanInv, InCall, W!AnswersItsRequest
  <2>5. QED  BY <2>1, <2>2, <2>3, <2>4 DEF WlanInv
<1>9. CASE UNCHANGED W!wlanVars
  <2>1. UNCHANGED <<field, callback, queued, running, asked, answer, calls, unload, requeued>>
    BY <1>9 DEF W!wlanVars
  <2>2. Unloading' /\ W!AnswersItsRequest' /\ \A x : W!Cancelled(x)' <=> W!Cancelled(x)
    BY <2>1, StageKept
  <2>3. InCall'  BY <2>1 DEF WlanInv, InCall
  <2>4. QED  BY <2>1, <2>2, <2>3 DEF WlanInv
<1>10. QED
  BY <1>2, <1>3, <1>4, <1>5, <1>6, <1>7, <1>8, <1>9 DEF W!Next

\* The routine of a work item answers the scan, the connection or the end of one that
\* cfg80211 waits for, and answers none twice, after any number of calls that come while
\* other routines run.
THEOREM WlanAnswers == W!Init /\ [][W!Next]_W!wlanVars => []W!AnswersItsRequest
<1>1. WlanInv => W!AnswersItsRequest  BY DEF WlanInv
<1>2. QED  BY <1>1, WlanInitially, WlanInductive, PTL

\* After virtual_wifi_exit has freed the context the only work items left are those a
\* callback has scheduled after they were cancelled.
THEOREM WlanCancels == W!Init /\ [][W!Next]_W!wlanVars => []W!NoWorkOnFreed
<1>1. WlanInv => W!NoWorkOnFreed
  <2> SUFFICES ASSUME WlanInv, W!Freed PROVE queued \union running \subseteq requeued
    BY DEF W!NoWorkOnFreed
  <2>1. \A x : W!Cancelled(x) <=> \E k \in 1 .. 4 : x = W!Order[k]
    BY WhatIsCancelled DEF WlanInv
  <2>2. \A w \in W!Works : W!Cancelled(w)
    BY <2>1, SMT DEF W!Order, W!Works
  <2>3. QED  BY <2>2 DEF WlanInv
<1>2. QED  BY <1>1, WlanInitially, WlanInductive, PTL

-----------------------------------------------------------------------------
INSTANCE WellFoundedInduction

CONSTANTS MAX_CONNECTIONS, Descriptors, MaxConnections
VARIABLES clients, slot, parent, open, child, nconn, lateClose, deadSlots
F == INSTANCE ForkServer

\* serve_forever.  A table with an entry, and descriptors as the kernel numbers them.
ForkSizes == MAX_CONNECTIONS \in Nat \ {0} /\ Descriptors \subseteq Nat

Children == [fd : Descriptors, slot : F!Slots, at : {"respond", "clear"}]

ForkTypes ==
    /\ clients \in [F!Slots -> Descriptors \union {-1}] /\ slot \in F!Slots
    /\ parent \in {"accept", "fork", "close", "search", "exit"}
    /\ child \subseteq Children
    /\ open \subseteq Descriptors

\* Where the parent is says what it knows of the entry at slot: free when it accepts,
\* nobody's when it forks, its connection or already taken out when it closes.
ForkInv ==
    /\ ForkTypes
    /\ \A c \in child : clients[c.slot] = c.fd
    /\ \A c, d \in child : c.slot = d.slot => c = d
    /\ parent = "accept" => clients[slot] = -1
    /\ parent = "fork" => clients[slot] # -1 /\ \A c \in child : c.slot # slot
    /\ parent \in {"search", "accept"} => open = lateClose
    /\ parent \in {"fork", "close"} =>
         \E fd \in Descriptors \ lateClose :
           /\ open = lateClose \union {fd}
           /\ clients[slot] \in {fd, -1}

LEMMA LeastDescriptor ==
  ASSUME NEW S, S \subseteq Nat, S # {}
  PROVE  F!Min(S) \in S
<1> DEFINE R == {ss \in Nat \X Nat : ss[1] < ss[2]}
<1>1. IsWellFoundedOn(R, Nat)  BY NatLessThanWellFounded DEF OpToRel
<1>2. PICK x \in S : \A y \in S : ~(<<y, x>> \in R)  BY <1>1, WFMin
<1>3. ASSUME NEW y \in S PROVE x <= y
  <2>1. x \in Nat /\ y \in Nat  OBVIOUS
  <2>2. y < x => <<y, x>> \in R  BY <2>1
  <2>3. QED  BY <1>2, <2>1, <2>2, SMT
<1>4. QED  BY <1>3 DEF F!Min

LEMMA ForkInitially ==
  ASSUME ForkSizes, F!Init
  PROVE  ForkInv
<1>1. 0 \in F!Slots  BY SMT DEF ForkSizes, F!Slots
<1>2. QED  BY <1>1 DEF F!Init, ForkInv, ForkTypes

LEMMA NextSlotInTable ==
  ASSUME ForkSizes, NEW s \in F!Slots
  PROVE  (s + 1) % MAX_CONNECTIONS \in F!Slots
  BY SMT DEF ForkSizes, F!Slots

LEMMA ForkInductive ==
  ASSUME ForkSizes, ForkInv, [F!Next]_F!forkVars
  PROVE  ForkInv'
<1> USE DEF ForkInv, ForkTypes
<1>1. -1 \notin Descriptors  BY SMT DEF ForkSizes
<1>2. CASE F!accept
  <2>1. CASE Descriptors \ open = {}
    BY <1>2, <2>1, SMT DEF F!accept
  <2>2. CASE Descriptors \ open # {}
    <3> DEFINE fd == F!Min(Descriptors \ open)
    <3>1. fd \in Descriptors \ open  BY <2>2, LeastDescriptor DEF ForkSizes
    <3>2. /\ clients' = [clients EXCEPT ![slot] = fd] /\ open' = open \union {fd}
          /\ parent' = "fork" /\ UNCHANGED <<slot, child, lateClose>>
      BY <1>2, <2>2 DEF F!accept
    <3>3. open = lateClose /\ clients[slot] = -1  BY <1>2 DEF F!accept
    <3> HIDE DEF fd
    <3>4. \A c \in child : c.slot # slot  BY <1>1, <3>3, ZenonT(30) DEF Children
    <3>5. \A c \in child : c.slot \in F!Slots  BY DEF Children
    <3>6. clients'[slot] = fd /\ fd # -1  BY <1>1, <3>1, <3>2
    <3>7. QED  BY <3>1, <3>2, <3>3, <3>4, <3>5, <3>6
  <2>3. QED  BY <2>1, <2>2
<1>3. CASE F!fork
  <2>1. parent = "fork" /\ parent' = "close" /\ UNCHANGED <<clients, slot, open, lateClose>>
    BY <1>3 DEF F!fork
  <2>2. CASE child' = child \union {[fd |-> clients[slot], slot |-> slot, at |-> "respond"]}
    BY <2>1, <2>2, SMT DEF Children
  <2>3. CASE UNCHANGED child  BY <2>1, <2>3
  <2>4. QED  BY <1>3, <2>2, <2>3 DEF F!fork
<1>4. CASE F!close
  <2>1. /\ parent = "close" /\ parent' = "search" /\ UNCHANGED <<clients, slot, child>>
        /\ open' = open \ {clients[slot]}
        /\ lateClose' = IF clients[slot] = -1
                        THEN lateClose \union (open \ lateClose) ELSE lateClose
    BY <1>4 DEF F!close
  <2>2. PICK fd \in Descriptors \ lateClose :
          open = lateClose \union {fd} /\ clients[slot] \in {fd, -1}
    BY <2>1
  <2>3. open' = lateClose'  BY <1>1, <2>1, <2>2, SMT
  <2>4. open' \subseteq Descriptors  BY <2>1
  <2>5. QED  BY <2>1, <2>3, <2>4
<1>5. CASE F!Search
  BY <1>5, NextSlotInTable DEF F!Search, F!search
<1>6. ASSUME NEW c \in child, F!respond(c) PROVE ForkInv'
  <2>1. UNCHANGED <<clients, slot, parent, open, lateClose>>  BY <1>6 DEF F!respond
  <2>2. c \in Children  OBVIOUS
  <2>3. CASE child' = child \ {c}  BY <2>1, <2>3
  <2>4. CASE child' = (child \ {c}) \union {[c EXCEPT !.at = "clear"]}
    <3> DEFINE e == [c EXCEPT !.at = "clear"]
    <3>1. e \in Children /\ e.slot = c.slot /\ e.fd = c.fd  BY <2>2 DEF Children
    <3>2. child' = (child \ {c}) \union {e}  BY <2>4
    <3> HIDE DEF e
    <3>3. child' \subseteq Children  BY <3>1, <3>2
    <3>4. \A d \in child' : \E b \in child : d.slot = b.slot /\ d.fd = b.fd
      BY <3>1, <3>2
    <3>5. \A b, d \in child' : b.slot = d.slot => b = d  BY <3>1, <3>2, SMT
    <3>6. QED  BY <2>1, <3>3, <3>4, <3>5, SMT
  <2>5. QED  BY <1>6, <2>3, <2>4 DEF F!respond
<1>7. ASSUME NEW c \in child, F!clear(c) PROVE ForkInv'
  <2>1. /\ child' = child \ {c} /\ clients' = [clients EXCEPT ![c.slot] = -1]
        /\ UNCHANGED <<slot, parent, open, lateClose>>
    BY <1>7 DEF F!clear
  <2>2. \A d \in child' : d \in Children /\ d.slot # c.slot  BY <2>1
  <2>3. c.slot \in F!Slots /\ \A d \in child' : d.slot \in F!Slots  BY <2>2 DEF Children
  <2>4. QED  BY <2>1, <2>2, <2>3
<1>8. CASE UNCHANGED F!forkVars
  BY <1>8 DEF F!forkVars
<1> HIDE DEF ForkInv, ForkTypes
<1>9. CASE F!Child  BY <1>6, <1>7, <1>9 DEF F!Child
<1>10. CASE F!Done  BY <1>8, <1>10 DEF F!Done
<1>11. QED  BY <1>2, <1>3, <1>4, <1>5, <1>8, <1>9, <1>10, ZenonT(30) DEF F!Next

\* While a child of serve_forever runs, its entry in the shared table is its own, and the
\* parent keeps open only connections whose entry was gone when it looked: for every
\* length of the table and every set of descriptors.
THEOREM SlotsAreOwned ==
  ASSUME ForkSizes
  PROVE  F!Spec => []F!SlotIsItsChilds
<1>1. F!Init => ForkInv  BY ForkInitially, SMT
<1>2. ForkInv /\ [F!Next]_F!forkVars => ForkInv'  BY ForkInductive, SMT
<1>3. ForkInv => F!SlotIsItsChilds  BY DEF ForkInv, F!SlotIsItsChilds
<1>4. QED  BY <1>1, <1>2, <1>3, PTL DEF F!Spec
=============================================================================
