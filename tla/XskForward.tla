----------------------------- MODULE XskForward ------------------------------
(***************************************************************************)
(* One thread of the AF_XDP forwarder (dev-net-ebpf-xdp/xsk) and the pool  *)
(* of packet buffers of its two ports.  The pool hands out slabs: each     *)
(* port's cache takes buffers from a consumer slab and puts them back on a *)
(* producer slab, and trades an empty or a full one with the pool.  A      *)
(* packet received on one port is sent from the other in the same buffer.  *)
(*                                                                         *)
(* Buffers are counted and not told apart: a slab is the number of buffers *)
(* in it, a ring the number of entries.                                    *)
(***************************************************************************)
EXTENDS Integers

CONSTANTS n_slabs, n_buffers_per_slab, fill_size, comp_size, tx_size

Ports == {0, 1}
BPOOL_GRP == 2

VARIABLES slabs, n_slabs_available,      \* struct bpool
          bc,            \* the caches: slabs, and how many buffers they are taken to hold
          fq, rxq, txq, cq,              \* the rings of each port
          thread         \* where it is, for which port, the ports poll reported, and the
                         \* completions still to put back and put back

pool  == <<slabs, n_slabs_available>>
rings == <<fq, rxq, txq, cq>>
xskVars == <<pool, bc, rings, thread>>

\* bpool_init, and bcache_init for each port.
Init ==
    /\ slabs = [k \in 0 .. n_slabs - 1 |-> n_buffers_per_slab]
    /\ n_slabs_available = n_slabs
    /\ bc = [p \in Ports |-> [cons |-> 0, prod |-> 0, n_cons |-> 0, n_prod |-> 0]]
    /\ fq = [p \in Ports |-> 0] /\ rxq = fq /\ txq = fq /\ cq = fq
    /\ thread = [at |-> "init", port |-> 0, ready |-> Ports, left |-> 0, done |-> 0]

-----------------------------------------------------------------------------
\* Slips a programmer might make in the definitions that follow.
WholeFillQueue == fill_size
EmptySlabKept(s) ==
    IF s.c.n_cons # 0 THEN s
    ELSE [s EXCEPT !.n = @ - 1, !.c.cons = s.slabs[s.n - 1], !.c.n_cons = n_buffers_per_slab]

umem_fq_size == fill_size \div BPOOL_GRP

\* A cache and the pool it trades with.
Cache(p) == [c |-> bc[p], slabs |-> slabs, n |-> n_slabs_available]
SetCache(p, s) ==
    /\ bc' = [bc EXCEPT ![p] = s.c] /\ slabs' = s.slabs /\ n_slabs_available' = s.n

\* bcache_cons_check: whether there is a buffer, and the trade of an empty consumer slab.
HasBuffer(s) == s.c.n_cons # 0 \/ s.n # 0
bcache_cons_check(s) ==
    IF s.c.n_cons # 0 THEN s
    ELSE [c |-> [s.c EXCEPT !.cons = s.slabs[s.n - 1], !.n_cons = n_buffers_per_slab],
          slabs |-> [s.slabs EXCEPT ![s.n - 1] = s.c.cons], n |-> s.n - 1]

\* n calls of bcache_cons.
bcache_cons(s, n) == [s EXCEPT !.c.n_cons = @ - n, !.c.cons = @ - n]

bcache_prod(s) ==
    IF s.c.n_prod < n_buffers_per_slab
    THEN [s EXCEPT !.c.n_prod = @ + 1, !.c.prod = @ + 1]
    ELSE [c |-> [s.c EXCEPT !.n_prod = 1, !.prod = s.slabs[s.n] + 1],
          slabs |-> [s.slabs EXCEPT ![s.n] = s.c.prod], n |-> s.n + 1]

-----------------------------------------------------------------------------
At(where) == thread.at = where
Port == thread.port
Peer == 1 - thread.port
Then(where) == thread' = [thread EXCEPT !.at = where]
\* Port 1 follows port 0, and the end of the loop port 1.
NextPort(where, end) ==
    thread' = IF Port = 0 /\ 1 \in thread.ready
              THEN [thread EXCEPT !.at = where, !.port = 1, !.done = 0]
              ELSE [at |-> end, port |-> 0, ready |-> {}, left |-> 0, done |-> 0]

\* port_init fills half of the fill queue.
port_init ==
    /\ At("init") /\ HasBuffer(Cache(Port))
    /\ SetCache(Port, bcache_cons(bcache_cons_check(Cache(Port)), umem_fq_size))
    /\ fq' = [fq EXCEPT ![Port] = umem_fq_size]
    /\ NextPort("init", "poll") /\ UNCHANGED <<rxq, txq, cq>>

\* poll waits for a port that has received something; each such port is handled.
thread_func_poll ==
    /\ At("poll") /\ \E p \in Ports : rxq[p] > 0
    /\ thread' = [thread EXCEPT !.at = "receive", !.port = IF rxq[0] > 0 THEN 0 ELSE 1,
                               !.ready = {p \in Ports : rxq[p] > 0}]
    /\ UNCHANGED <<pool, bc, rings>>

\* handle_port takes a packet if there is a buffer to replace it in the fill queue; without
\* one the packet stays where it is, and the next poll returns at once.
Receive ==
    /\ At("receive")
    /\ IF HasBuffer(Cache(Port))
       THEN /\ SetCache(Port, bcache_cons_check(Cache(Port)))
            /\ rxq' = [rxq EXCEPT ![Port] = @ - 1] /\ Then("fill")
       ELSE NextPort("receive", "poll") /\ UNCHANGED <<pool, bc, rxq>>
    /\ UNCHANGED <<fq, txq, cq>>

\* Then it waits for room in the fill queue, ...
Fill ==
    /\ At("fill") /\ fq[Port] < fill_size
    /\ fq' = [fq EXCEPT ![Port] = @ + 1] /\ SetCache(Port, bcache_cons(Cache(Port), 1))
    /\ Then("send") /\ UNCHANGED <<rxq, txq, cq>>

\* ... and in the transmit queue of the other port, ...
Send ==
    /\ At("send") /\ txq[Peer] < tx_size
    /\ txq' = [txq EXCEPT ![Peer] = @ + 1]
    /\ Then("peek") /\ UNCHANGED <<pool, bc, fq, rxq, cq>>

\* ... and puts back the buffers that the other port has sent.
Peek ==
    /\ At("peek") /\ thread' = [thread EXCEPT !.at = "collect", !.left = cq[Peer]]
    /\ UNCHANGED <<pool, bc, rings>>

Collect ==
    /\ At("collect") /\ thread.left > 0
    /\ SetCache(Peer, bcache_prod(Cache(Peer)))
    /\ thread' = [thread EXCEPT !.left = @ - 1, !.done = @ + 1] /\ UNCHANGED rings

\* xsk_ring_cons__release
Release ==
    /\ At("collect") /\ thread.left = 0
    /\ cq' = [cq EXCEPT ![Peer] = @ - thread.done]
    /\ NextPort("receive", "poll") /\ UNCHANGED <<pool, bc, fq, rxq, txq>>

-----------------------------------------------------------------------------
\* The kernel: a packet comes in, a packet goes out.
Arrive(p) ==
    /\ fq[p] > 0
    /\ fq' = [fq EXCEPT ![p] = @ - 1] /\ rxq' = [rxq EXCEPT ![p] = @ + 1]
    /\ UNCHANGED <<pool, bc, txq, cq, thread>>

Transmit(p) ==
    /\ txq[p] > 0 /\ cq[p] < comp_size
    /\ txq' = [txq EXCEPT ![p] = @ - 1] /\ cq' = [cq EXCEPT ![p] = @ + 1]
    /\ UNCHANGED <<pool, bc, fq, rxq, thread>>

Next ==
    \/ port_init \/ thread_func_poll \/ Receive \/ Fill \/ Send \/ Peek \/ Collect
    \/ Release
    \/ \E p \in Ports : Arrive(p) \/ Transmit(p)

Spec == Init /\ [][Next]_xskVars

-----------------------------------------------------------------------------
Held(p) == IF (At("fill") \/ At("send")) /\ Port = p THEN 1 ELSE 0
Done(p) == IF At("collect") /\ Peer = p THEN thread.done ELSE 0

\* The buffers that come out of the pool at p and go back to it at the other port.
Flow(p) == bc[p].cons + fq[p] + rxq[p] + Held(p) +
           txq[1 - p] + cq[1 - p] - Done(1 - p) + bc[1 - p].prod

\* Every buffer is in one place.  The slabs of the pool below n_slabs_available are full
\* and the others empty, so that an empty one is there for a full one, as the comment in
\* bcache_prod says; the caches hold what they are taken to hold.  And a thread that waits
\* for room to send never waits for a kernel that waits for room to complete.
BuffersConserved ==
    /\ n_slabs_available \in 0 .. n_slabs
    /\ \A k \in DOMAIN slabs :
         slabs[k] = IF k < n_slabs_available THEN n_buffers_per_slab ELSE 0
    /\ \A p \in Ports : bc[p].cons = bc[p].n_cons /\ bc[p].prod = bc[p].n_prod
    /\ Flow(0) + Flow(1) = (n_slabs - n_slabs_available) * n_buffers_per_slab
    /\ At("send") /\ txq[Peer] = tx_size => cq[Peer] < comp_size

\* However the traffic of the two directions is mixed, a port that has received a packet
\* has a buffer to put in its place: full slabs are not all held back on the producer side
\* or in the rings.
NeverStarved == At("receive") => HasBuffer(Cache(Port))
=============================================================================
