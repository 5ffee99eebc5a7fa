----------------------------- MODULE PairDrivers -----------------------------
(***************************************************************************)
(* The drivers that grew out of the pair of kdev-net-veth: deth (a plain   *)
(* pair), kneigh (looks up the neighbour of each packet), kxdp (generic    *)
(* and native XDP) and kxfrm (looks into ESP packets, with CBC and with    *)
(* GCM).  They share the buffers, the interrupt and the flow control of    *)
(* DummVeth, whose steps are used here function by function; lockup is a   *)
(* plain variable there and stays 0.  The pair itself, dummveth, runs      *)
(* beside them.                                                            *)
(*                                                                         *)
(* What is their own: hw_tx of kneigh and kxfrm may return before it has   *)
(* taken a buffer, and the poll of native kxdp takes one packet without    *)
(* looking, completes, and only then returns the buffer.                   *)
(***************************************************************************)
EXTENDS DummVeth

CONSTANTS Drivers,       \* the drivers tried
          Share          \* bound: packets for each device, with each driver

VARIABLES driver,
          given,         \* skbs hw_tx returned with before it took a buffer
          xdp_prog,      \* native kxdp: the device has a program
          late,          \* buffers its polls return after napi_complete_done
          oops           \* a NULL packet was followed

own == <<driver, xdp_prog, late, oops>>
pairVars == <<vars, own, given>>

Template(A) == A /\ UNCHANGED <<own, given>>
MoreTraffic(d) == count[d] < Share[driver][d]

-----------------------------------------------------------------------------
\* Slips a programmer might make in the definitions that follow.
TakeTwice(d) == rx_queue[d]

AfterCons(d) == IF rx_queue[d] = <<>> THEN <<>> ELSE Tail(rx_queue[d])

-----------------------------------------------------------------------------
\* hw_tx of kneigh or kxfrm returns early: there is no neighbour, no state for the
\* SPI, or the decryption fails.  xmit has stored the skb before, and nothing
\* frees it but a later transmission.
GiveUp(d) ==
    /\ MoreTraffic(d) /\ Handed(d)
    /\ given' = given \union {<<d, count[d] + 1>>}
    /\ UNCHANGED <<tx, cur, buf, ppool, stopped, locked, own>>

\* kdev-net-veth/kernel/core.c
dummveth(d) == Template(DeviceStep(d)) /\ (count' # count => MoreTraffic(d))

\* kdev-net-eth/deth.c
deth_open(d) == Template(Open(d))
deth_stop(d) == Template(Stop(d) \/ NapiDisabled(d))
deth_xmit(d) == MoreTraffic(d) /\ Template(Xmit(d) \/ XmitOutOfPool(d))
deth_rx_prod_buf(d) == Template(EnqueueBuf(d))
deth_hw_tx(d) == Template(LoadStatus(d) \/ StoreRx(d) \/ StoreTx(d))
deth_napi_interrupt(d) == Template(Interrupt(d))
deth_tx_timeout(d) == Template(TxTimeout(d) \/ StoreTimeout(d) \/ WakeAfterTimeout(d))
deth_setup_pool(d) == \E new \in NewPools : Template(RefillPool(d, new))
deth_rx_cons_buf(d) == Template(DequeueBuf(d))
deth_tx_release_buffer(d) == Template(ReleaseBuffer(d) \/ WakeQueue(d))
deth_poll(d) == Template(LoopEnd(d) \/ PollEnd(d))

deth_steps(d) ==
    \/ deth_rx_prod_buf(d) \/ deth_hw_tx(d) \/ deth_napi_interrupt(d)
    \/ deth_setup_pool(d) \/ deth_rx_cons_buf(d) \/ deth_tx_release_buffer(d)
    \/ deth_poll(d)
deth(d) ==
    \/ deth_open(d) \/ deth_stop(d) \/ deth_xmit(d) \/ deth_tx_timeout(d)
    \/ deth_steps(d)

\* kneigh/kneigh.c
kneigh_open(d) == Template(Open(d))
kneigh_stop(d) == Template(Stop(d) \/ NapiDisabled(d))
kneigh_xmit(d) == MoreTraffic(d) /\ Template(Xmit(d) \/ XmitOutOfPool(d))
kneigh_rx_prod_buf(d) == Template(EnqueueBuf(d))
kneigh_gives_up(d) == GiveUp(d)
kneigh_hw_tx(d) == Template(LoadStatus(d) \/ StoreRx(d) \/ StoreTx(d))
kneigh_napi_interrupt(d) == Template(Interrupt(d))
kneigh_tx_timeout(d) == Template(TxTimeout(d) \/ StoreTimeout(d) \/ WakeAfterTimeout(d))
kneigh_setup_pool(d) == \E new \in NewPools : Template(RefillPool(d, new))
kneigh_rx_cons_buf(d) == Template(DequeueBuf(d))
kneigh_tx_release_buffer(d) == Template(ReleaseBuffer(d) \/ WakeQueue(d))
kneigh_poll(d) == Template(LoopEnd(d) \/ PollEnd(d))

kneigh_steps(d) ==
    \/ kneigh_rx_prod_buf(d) \/ kneigh_hw_tx(d) \/ kneigh_napi_interrupt(d)
    \/ kneigh_setup_pool(d) \/ kneigh_rx_cons_buf(d) \/ kneigh_tx_release_buffer(d)
    \/ kneigh_poll(d)
kneigh(d) ==
    \/ kneigh_open(d) \/ kneigh_stop(d) \/ kneigh_xmit(d) \/ kneigh_tx_timeout(d)
    \/ kneigh_gives_up(d) \/ kneigh_steps(d)

\* kxdp/generic/kxdp.c
kxdp_generic_open(d) == Template(Open(d))
kxdp_generic_stop(d) == Template(Stop(d) \/ NapiDisabled(d))
kxdp_generic_xmit(d) == MoreTraffic(d) /\ Template(Xmit(d) \/ XmitOutOfPool(d))
kxdp_generic_rx_prod_buf(d) == Template(EnqueueBuf(d))
kxdp_generic_hw_tx(d) == Template(LoadStatus(d) \/ StoreRx(d) \/ StoreTx(d))
kxdp_generic_napi_interrupt(d) == Template(Interrupt(d))
kxdp_generic_tx_timeout(d) == Template(TxTimeout(d) \/ StoreTimeout(d) \/ WakeAfterTimeout(d))
kxdp_generic_setup_pool(d) == \E new \in NewPools : Template(RefillPool(d, new))
kxdp_generic_rx_cons_buf(d) == Template(DequeueBuf(d))
kxdp_generic_tx_release_buffer(d) == Template(ReleaseBuffer(d) \/ WakeQueue(d))
kxdp_generic_poll(d) == Template(LoopEnd(d) \/ PollEnd(d))

kxdp_generic_steps(d) ==
    \/ kxdp_generic_rx_prod_buf(d) \/ kxdp_generic_hw_tx(d) \/ kxdp_generic_napi_interrupt(d)
    \/ kxdp_generic_setup_pool(d) \/ kxdp_generic_rx_cons_buf(d) \/ kxdp_generic_tx_release_buffer(d)
    \/ kxdp_generic_poll(d)
kxdp_generic(d) ==
    \/ kxdp_generic_open(d) \/ kxdp_generic_stop(d) \/ kxdp_generic_xmit(d) \/ kxdp_generic_tx_timeout(d)
    \/ kxdp_generic_steps(d)

\* kxdp/native/kxdp.c
kxdp_native_open(d) == Template(Open(d))
kxdp_native_stop(d) == Template(Stop(d) \/ NapiDisabled(d))
kxdp_native_xmit(d) == MoreTraffic(d) /\ Template(Xmit(d) \/ XmitOutOfPool(d))
kxdp_native_rx_prod_buf(d) == Template(EnqueueBuf(d))
kxdp_native_hw_tx(d) == Template(LoadStatus(d) \/ StoreRx(d) \/ StoreTx(d))
kxdp_native_napi_interrupt(d) == Template(Interrupt(d))
kxdp_native_tx_timeout(d) == Template(TxTimeout(d) \/ StoreTimeout(d) \/ WakeAfterTimeout(d))
kxdp_native_setup_pool(d) == \E new \in NewPools : Template(RefillPool(d, new))

\* kxdp_rx_cons_buf without a look at rx_queue.  On an empty queue it returns NULL,
\* which is followed; so is the skb, when there is no memory for it.  Without a
\* program, or when the program says XDP_PASS, the packet is passed on; otherwise it is
\* dropped, and the skb made for it, which nobody else knows of, is not freed.
kxdp_native_rx_cons_buf(d) ==
    /\ Polling(d) /\ ~locked[d]
    /\ rx_queue' = [rx_queue EXCEPT ![d] = AfterCons(d)]
    /\ pkt' = [pkt EXCEPT ![d] = First(rx_queue[d])]
    /\ poll' = [poll EXCEPT ![d] = "complete"]
    /\ data' = [p \in Pkt |-> IF p = First(rx_queue[d]) THEN NoSkb ELSE data[p]]
    /\ LET content == {data[p] : p \in {First(rx_queue[d])} \ {NULL}} IN
       \/ /\ received' = received \union content /\ oops' = (content = {})
          /\ UNCHANGED <<dropped, faults, disturbed>>
       \/ /\ xdp_prog[d] /\ dropped' = dropped \union content /\ oops' = (content = {})
          /\ UNCHANGED <<received, faults, disturbed>>
       \/ /\ faults < MaxFaults /\ faults' = faults + 1
          /\ disturbed' = disturbed \union {"nomem"} /\ oops' = TRUE
          /\ dropped' = dropped \union content /\ UNCHANGED received
    /\ UNCHANGED <<lockup, up, stopped, ppool, next, dev, priv, napi, sending, npackets,
                   early, driver, given, xdp_prog, late>>

\* napi_complete_done: at most one packet is below the weight of 2.  From here on
\* the next poll may run while this one still holds its buffer.
kxdp_native_poll(d) ==
    /\ poll[d] = "complete" /\ ~locked[d]
    /\ napi' = [napi EXCEPT ![d] = Completed(@)]
    /\ poll' = [poll EXCEPT ![d] = "loop"]
    /\ late' = late \union {<<pkt[d], "release">>} /\ pkt' = [pkt EXCEPT ![d] = NULL]
    /\ UNCHANGED <<lockup, up, stopped, lists, priv, sending, npackets, sorted, faults,
                   disturbed, driver, given, xdp_prog, oops>>

\* kxdp_tx_release_buffer for such a buffer, whose device is h: the push under the
\* lock, and the test after it.
kxdp_native_tx_release_buffer(h) ==
    \E p \in Pkt :
       /\ \/ /\ <<p, "release">> \in late /\ dev[p] = h /\ ~locked[h]
             /\ next' = [next EXCEPT ![p] = First(ppool[h])]
             /\ ppool' = [ppool EXCEPT ![h] = <<p>> \o @]
             /\ late' = (late \ {<<p, "release">>}) \union {<<p, "wake">>}
             /\ UNCHANGED <<stopped, disturbed>>
          \/ /\ <<p, "wake">> \in late /\ (dev[p] = h \/ p \notin Live)
             /\ IF p \in Live
                THEN stopped' = IF stopped[h] /\ next[p] = NULL THEN Woken(h) ELSE stopped
                ELSE stopped' \in {stopped, Woken(h)}
             /\ NoteWakeup(p)
             /\ late' = late \ {<<p, "wake">>}
             /\ UNCHANGED <<ppool, next>>
       /\ UNCHANGED <<lockup, up, rx_queue, dev, data, priv, napi, sending, polling, sorted,
                      faults, driver, given, xdp_prog, oops>>

\* kxdp_xdp_set installs a program or takes it away; a failure puts the old one back.
kxdp_native_xdp_set(d) ==
    /\ d \in Restless /\ faults < MaxFaults /\ faults' = faults + 1
    /\ xdp_prog' \in {[xdp_prog EXCEPT ![d] = b] : b \in BOOLEAN}
    /\ UNCHANGED <<lockup, up, stopped, lists, priv, napi, sending, polling, sorted,
                   disturbed, driver, given, late, oops>>

kxdp_native_steps(d) ==
    \/ kxdp_native_rx_prod_buf(d) \/ kxdp_native_hw_tx(d) \/ kxdp_native_napi_interrupt(d)
    \/ kxdp_native_setup_pool(d) \/ kxdp_native_rx_cons_buf(d) \/ kxdp_native_tx_release_buffer(d)
    \/ kxdp_native_poll(d)
kxdp_native(d) ==
    \/ kxdp_native_open(d) \/ kxdp_native_stop(d) \/ kxdp_native_xmit(d) \/ kxdp_native_tx_timeout(d)
    \/ kxdp_native_steps(d) \/ kxdp_native_xdp_set(d)

\* kxfrm/cbc/kxfrm.c
kxfrm_cbc_open(d) == Template(Open(d))
kxfrm_cbc_stop(d) == Template(Stop(d) \/ NapiDisabled(d))
kxfrm_cbc_xmit(d) == MoreTraffic(d) /\ Template(Xmit(d) \/ XmitOutOfPool(d))
kxfrm_cbc_rx_prod_buf(d) == Template(EnqueueBuf(d))
kxfrm_cbc_gives_up(d) == GiveUp(d)
kxfrm_cbc_hw_tx(d) == Template(LoadStatus(d) \/ StoreRx(d) \/ StoreTx(d))
kxfrm_cbc_napi_interrupt(d) == Template(Interrupt(d))
kxfrm_cbc_tx_timeout(d) == Template(TxTimeout(d) \/ StoreTimeout(d) \/ WakeAfterTimeout(d))
kxfrm_cbc_setup_pool(d) == \E new \in NewPools : Template(RefillPool(d, new))
kxfrm_cbc_rx_cons_buf(d) == Template(DequeueBuf(d))
kxfrm_cbc_tx_release_buffer(d) == Template(ReleaseBuffer(d) \/ WakeQueue(d))
kxfrm_cbc_poll(d) == Template(LoopEnd(d) \/ PollEnd(d))

kxfrm_cbc_steps(d) ==
    \/ kxfrm_cbc_rx_prod_buf(d) \/ kxfrm_cbc_hw_tx(d) \/ kxfrm_cbc_napi_interrupt(d)
    \/ kxfrm_cbc_setup_pool(d) \/ kxfrm_cbc_rx_cons_buf(d) \/ kxfrm_cbc_tx_release_buffer(d)
    \/ kxfrm_cbc_poll(d)
kxfrm_cbc(d) ==
    \/ kxfrm_cbc_open(d) \/ kxfrm_cbc_stop(d) \/ kxfrm_cbc_xmit(d) \/ kxfrm_cbc_tx_timeout(d)
    \/ kxfrm_cbc_gives_up(d) \/ kxfrm_cbc_steps(d)

\* kxfrm/gcm/kxfrm.c
kxfrm_gcm_open(d) == Template(Open(d))
kxfrm_gcm_stop(d) == Template(Stop(d) \/ NapiDisabled(d))
kxfrm_gcm_xmit(d) == MoreTraffic(d) /\ Template(Xmit(d) \/ XmitOutOfPool(d))
kxfrm_gcm_rx_prod_buf(d) == Template(EnqueueBuf(d))
kxfrm_gcm_gives_up(d) == GiveUp(d)
kxfrm_gcm_hw_tx(d) == Template(LoadStatus(d) \/ StoreRx(d) \/ StoreTx(d))
kxfrm_gcm_napi_interrupt(d) == Template(Interrupt(d))
kxfrm_gcm_tx_timeout(d) == Template(TxTimeout(d) \/ StoreTimeout(d) \/ WakeAfterTimeout(d))
kxfrm_gcm_setup_pool(d) == \E new \in NewPools : Template(RefillPool(d, new))
kxfrm_gcm_rx_cons_buf(d) == Template(DequeueBuf(d))
kxfrm_gcm_tx_release_buffer(d) == Template(ReleaseBuffer(d) \/ WakeQueue(d))
kxfrm_gcm_poll(d) == Template(LoopEnd(d) \/ PollEnd(d))

kxfrm_gcm_steps(d) ==
    \/ kxfrm_gcm_rx_prod_buf(d) \/ kxfrm_gcm_hw_tx(d) \/ kxfrm_gcm_napi_interrupt(d)
    \/ kxfrm_gcm_setup_pool(d) \/ kxfrm_gcm_rx_cons_buf(d) \/ kxfrm_gcm_tx_release_buffer(d)
    \/ kxfrm_gcm_poll(d)
kxfrm_gcm(d) ==
    \/ kxfrm_gcm_open(d) \/ kxfrm_gcm_stop(d) \/ kxfrm_gcm_xmit(d) \/ kxfrm_gcm_tx_timeout(d)
    \/ kxfrm_gcm_gives_up(d) \/ kxfrm_gcm_steps(d)

-----------------------------------------------------------------------------
PairInit ==
    /\ Init /\ driver \in Drivers /\ (driver # "dummveth" => lockup = 0)
    /\ given = {} /\ late = {} /\ oops = FALSE /\ xdp_prog = [d \in Devs |-> FALSE]

Steps(d) ==
    /\ ~oops
    /\ \/ driver = "dummveth" /\ Template(TxStep(d) \/ WatchdogStep(d) \/ PollStep(d))
       \/ driver = "deth" /\ deth_steps(d)
       \/ driver = "kneigh" /\ kneigh_steps(d)
       \/ driver = "kxdp_generic" /\ kxdp_generic_steps(d)
       \/ driver = "kxdp_native" /\ kxdp_native_steps(d)
       \/ driver = "kxfrm_cbc" /\ kxfrm_cbc_steps(d)
       \/ driver = "kxfrm_gcm" /\ kxfrm_gcm_steps(d)

PairNext == ~oops /\ \E d \in Devs :
    \/ driver = "dummveth" /\ dummveth(d)
    \/ driver = "deth" /\ deth(d)
    \/ driver = "kneigh" /\ kneigh(d)
    \/ driver = "kxdp_generic" /\ kxdp_generic(d)
    \/ driver = "kxdp_native" /\ kxdp_native(d)
    \/ driver = "kxfrm_cbc" /\ kxfrm_cbc(d)
    \/ driver = "kxfrm_gcm" /\ kxfrm_gcm(d)

PairSpec == PairInit /\ [][PairNext]_pairVars /\ \A d \in Devs : WF_pairVars(Steps(d))

-----------------------------------------------------------------------------
\* The buffers d's polls hold, of its twin: also those of native kxdp's polls that
\* have completed.
Held(d) ==
    InHand(d) \union (IF poll[d] = "complete" THEN {pkt[d]} \ {NULL} ELSE {})
              \union {p \in Pkt : <<p, "release">> \in late /\ dev[p] = Twin(d)}

\* In every one of these drivers a buffer is in exactly one place and a packet that
\* was enqueued is waiting, passed on or dropped, once: also in native kxdp, where a
\* poll holds its buffer while the next poll of the device already runs.
PairConserved ==
    /\ \A d \in Devs :
         LET places == <<Range(ppool[d]), Sending(d), Range(rx_queue[Twin(d)]), Held(Twin(d))>>
         IN  /\ UNION Range(places) = {p \in Pkt : dev[p] = d}
             /\ \A j, k \in 1 .. 4 : j # k => places[j] \intersect places[k] = {}
             /\ IsInjective(ppool[d]) /\ IsInjective(rx_queue[d])
    /\ LET waiting == {p \in Pkt : data[p] # NoSkb}
           sent == {s \in Skbs(0) \union Skbs(1) : s[2] <= count[s[1]]}
                   \ ({cur[d] : d \in Devs} \union given)
       IN  /\ \A p \in waiting : data[p] \notin received \union dropped
           /\ (\A d \in Devs : ~locked[d]) =>
                 {data[p] : p \in waiting} \union received \union dropped = sent

\* Between two transmissions no skb is left in priv->skb, where the next one would
\* overwrite the only pointer to it: the interrupt of each transmission frees it.
\* Only a lost update of status, an hw_tx that returned early or a simulated lockup
\* leaves one behind.
SkbFreed ==
    \A d \in Devs : tx[d] = "idle" /\ skb[d] # NoSkb =>
        skb[d] \in given \/ "clash" \in disturbed \/ locked[d] \/ lockup # 0

\* The poll of native kxdp is scheduled once for each packet and so finds one, although
\* it does not look: until a lost update of status brings back an RX_INTR that was
\* already served, or there is no memory for an skb.
PollFindsPacket == oops => disturbed \intersect {"clash", "nomem"} # {}
=============================================================================
