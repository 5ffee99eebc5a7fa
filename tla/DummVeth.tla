------------------------------ MODULE DummVeth -------------------------------
(***************************************************************************)
(* The pair of network devices of kdev-net-veth/kernel/core.c in its NAPI  *)
(* mode (use_napi is 1).  A packet given to one device is copied into a    *)
(* buffer of that device's pool, put on the other device's receive queue   *)
(* and announced there by a simulated interrupt; the poll of the other     *)
(* device passes it on and gives the buffer back to the pool it came from. *)
(*                                                                         *)
(* Each device has a transmitting actor (dummveth_xmit or the watchdog's   *)
(* dummveth_tx_timeout: the core takes the transmit lock for both) and a   *)
(* polling actor (dummveth_poll in the softirq).  What happens under       *)
(* priv->lock is one step; status is or-ed without it, as a load and a     *)
(* store.  The network core and NAPI are external.                         *)
(***************************************************************************)
EXTENDS Integers, Sequences, FiniteSets, Functions

CONSTANTS Pkt,           \* the addresses of packet buffers, positive integers
          pool_size, budget,
          Lockups,       \* the values tried for the module parameter lockup
          MaxSend,       \* bounds: packets for each device,
          Restless,      \* the devices that are restarted or time out,
          MaxFaults      \* watchdog runs, restarts and dropped packets

Devs == {0, 1}
Twin(d) == 1 - d         \* dest of dummveth_hw_tx
RX_INTR == "rx"          \* the bits of priv->status
TX_INTR == "tx"
NULL == 0

ASSUME DummVethAssumption ==
    /\ IsFiniteSet(Pkt) /\ Pkt \subseteq Nat \ {0} /\ 1 .. 2 * pool_size \subseteq Pkt
    /\ pool_size \in Nat \ {0} /\ budget \in Nat \ {0}
    /\ Cardinality(Pkt) >= (2 + MaxFaults) * pool_size
    /\ Lockups \subseteq Nat
    /\ MaxSend \in [Devs -> Nat]

VARIABLES lockup,        \* the module parameter
          up, stopped,   \* the device is open; its transmit queue is stopped
          ppool, rx_queue,   \* the lists of buffers, first element first
          next,          \* pkt->next
          dev, data,     \* pkt->dev; the content, 0 when there is none
          status, skb,   \* fields of dummveth_priv
          tx_packets,    \* stats.tx_packets modulo lockup (nothing else reads it)
          locked,        \* priv->lock was left locked
          napi,          \* the NAPI instance
          tx, cur, buf, word,    \* the transmitting actor: place and locals
          poll, npackets, pkt,   \* the polling actor: place and locals
          count,         \* skbs handed to each device
          received, dropped,     \* contents passed on and dropped
          early,         \* skbs freed before hw_tx copied them
          faults,
          disturbed      \* what happened that the pair was not made for

lists   == <<ppool, rx_queue, next, dev, data>>
priv    == <<status, skb, tx_packets, locked>>
sending == <<tx, cur, buf, word, count>>
polling == <<poll, npackets, pkt>>
sorted  == <<received, dropped, early>>
vars == <<lockup, up, stopped, lists, priv, napi, sending, polling, sorted, faults,
          disturbed>>

Goto(d, label) == tx' = [tx EXCEPT ![d] = label]

\* The skbs handed to device d; the contents of its packets.
Skbs(d) == {<<d, n>> : n \in 1 .. MaxSend[d]}
NoSkb == <<>>

Live == {p \in Pkt : dev[p] \in Devs}

-----------------------------------------------------------------------------
\* Slips a programmer might make in the definitions that follow.
OwnDevice(d) == d
StopNever(d) == FALSE
KeepTx(d) == status' = [status EXCEPT ![d] = @ \intersect {TX_INTR}]
WakeIfRunning(d) == ~stopped[dev[pkt[d]]] /\ next[pkt[d]] = NULL
ForgetMissed(n) == "idle"
PollAgain(n) == "sched"

\* A buffer is put first: the pool and, as the comment there says, the receive
\* queue are stacks.
PushRx(q, p) == <<p>> \o q
First(q) == IF q = <<>> THEN NULL ELSE Head(q)

MorePackets(d) == npackets[d] < budget /\ rx_queue[d] # <<>>
Home(d) == dev[pkt[d]]
StopsQueue(d) == Len(ppool[d]) = 1
MustWake(d) == stopped[Home(d)] /\ next[pkt[d]] = NULL
ClearStatus(d) == status' = [status EXCEPT ![d] = {}]

\* napi_schedule: nothing while NAPI is disabled or being disabled; a schedule
\* during a poll is remembered for napi_complete_done.
Scheduled(d) ==
    IF ~up[d] THEN napi[d] ELSE IF napi[d] = "idle" THEN "sched" ELSE "missed"
Completed(n) == IF n = "missed" THEN "sched" ELSE "idle"

-----------------------------------------------------------------------------
\* dummveth_setup_pool allocates pool_size buffers, at any free addresses, or fewer:
\* an allocation that fails ends it.
NewPools == {q \in UNION {[1 .. n -> Pkt \ Live] : n \in 0 .. pool_size} : IsInjective(q)}

\* The buffer after p in the list q.
After(q, p) == LET k == CHOOSE k \in DOMAIN q : q[k] = p
               IN  First(SubSeq(q, k + 1, Len(q)))

\* After dummveth_init_module and the ip link set up of set-dummveth.sh: two open
\* devices, each with a full pool.
Init ==
    /\ lockup \in Lockups
    /\ up = [d \in Devs |-> TRUE] /\ stopped = [d \in Devs |-> FALSE]
    /\ dev = [p \in Pkt |-> IF p <= pool_size THEN 0
                            ELSE IF p <= 2 * pool_size THEN 1 ELSE -1]
    /\ ppool = [d \in Devs |-> [k \in 1 .. pool_size |-> (d + 1) * pool_size + 1 - k]]
    /\ next = [p \in Pkt |-> IF p <= 2 * pool_size /\ p % pool_size # 1 % pool_size
                             THEN p - 1 ELSE NULL]
    /\ rx_queue = [d \in Devs |-> <<>>]
    /\ data = [p \in Pkt |-> NoSkb]
    /\ status = [d \in Devs |-> {}] /\ skb = [d \in Devs |-> NoSkb]
    /\ tx_packets = [d \in Devs |-> 0] /\ locked = [d \in Devs |-> FALSE]
    /\ napi = [d \in Devs |-> "idle"]
    /\ tx = [d \in Devs |-> "idle"] /\ cur = [d \in Devs |-> NoSkb]
    /\ buf = [d \in Devs |-> NULL] /\ word = [d \in Devs |-> {}]
    /\ poll = [d \in Devs |-> "loop"] /\ npackets = [d \in Devs |-> 0]
    /\ pkt = [d \in Devs |-> NULL]
    /\ count = [d \in Devs |-> 0]
    /\ received = {} /\ dropped = {} /\ early = {}
    /\ faults = 0 /\ disturbed = {}

\* dummveth_open.
Open(d) ==
    /\ ~up[d] /\ napi[d] = "off"
    /\ up' = [up EXCEPT ![d] = TRUE]
    /\ napi' = [napi EXCEPT ![d] = "idle"]
    /\ stopped' = [stopped EXCEPT ![d] = FALSE]
    /\ UNCHANGED <<lockup, lists, priv, sending, polling, sorted, faults, disturbed>>

\* dummveth_stop, called when no transmission is going on: it stops the queue and
\* in napi_disable waits for the poll to end.
Stop(d) ==
    /\ up[d] /\ tx[d] = "idle" /\ d \in Restless /\ faults < MaxFaults
    /\ faults' = faults + 1 /\ disturbed' = disturbed \union {"restart"}
    /\ up' = [up EXCEPT ![d] = FALSE]
    /\ stopped' = [stopped EXCEPT ![d] = TRUE]
    /\ UNCHANGED <<lockup, lists, priv, napi, sending, polling, sorted>>

NapiDisabled(d) ==
    /\ ~up[d] /\ napi[d] = "idle"
    /\ napi' = [napi EXCEPT ![d] = "off"]
    /\ UNCHANGED <<lockup, up, stopped, lists, priv, sending, polling, sorted, faults,
                   disturbed>>

-----------------------------------------------------------------------------
\* The core calls dummveth_xmit.  A short packet is padded to ETH_ZLEN, so that
\* dummveth_hw_tx never finds it too short.
Handed(d) ==
    /\ up[d] /\ ~stopped[d] /\ tx[d] = "idle" /\ count[d] < MaxSend[d] /\ ~locked[d]
    /\ count' = [count EXCEPT ![d] = @ + 1]
    /\ skb' = [skb EXCEPT ![d] = <<d, count[d] + 1>>]
    /\ UNCHANGED <<lockup, up, rx_queue, next, dev, data, status, tx_packets, napi, word,
                   polling, sorted, faults, disturbed>>

\* dummveth_get_tx_buffer takes the first buffer of the pool and stops the queue
\* with the last one.
Xmit(d) ==
    /\ Handed(d) /\ ppool[d] # <<>>
    /\ cur' = [cur EXCEPT ![d] = <<d, count[d] + 1>>]
    /\ buf' = [buf EXCEPT ![d] = Head(ppool[d])]
    /\ ppool' = [ppool EXCEPT ![d] = Tail(@)]
    /\ stopped' = IF StopsQueue(d) THEN [stopped EXCEPT ![d] = TRUE] ELSE stopped
    /\ Goto(d, "copy")
    /\ UNCHANGED locked

\* With an empty pool it returns NULL with priv->lock locked, and dummveth_hw_tx and
\* dummveth_xmit return.
XmitOutOfPool(d) ==
    /\ Handed(d) /\ ppool[d] = <<>>
    /\ locked' = [locked EXCEPT ![d] = TRUE]
    /\ UNCHANGED <<tx, cur, buf, ppool, stopped>>

\* dummveth_hw_tx copies the packet and calls dummveth_enqueue_buf.
EnqueueBuf(d) ==
    LET t == Twin(d) IN
    /\ tx[d] = "copy" /\ ~locked[t]
    /\ data' = [data EXCEPT ![buf[d]] = cur[d]]
    /\ next' = [next EXCEPT ![buf[d]] = First(rx_queue[t])]
    /\ rx_queue' = [rx_queue EXCEPT ![t] = PushRx(@, buf[d])]
    /\ buf' = [buf EXCEPT ![d] = NULL] /\ cur' = [cur EXCEPT ![d] = NoSkb]
    /\ disturbed' = IF up[t] THEN disturbed ELSE disturbed \union {"down"}
    /\ Goto(d, "load_rx")
    /\ UNCHANGED <<lockup, up, stopped, ppool, dev, priv, napi, word, count, polling,
                   sorted, faults>>

\* The load of status |= (the twin's status with RX_INTR, then one's own with
\* TX_INTR, in hw_tx; one's own with TX_INTR in dummveth_tx_timeout).
LoadStatus(d) ==
    /\ tx[d] \in {"load_rx", "load_tx", "timeout"}
    /\ word' = [word EXCEPT ![d] = status[IF tx[d] = "load_rx" THEN Twin(d) ELSE d]]
    /\ Goto(d, CASE tx[d] = "load_rx" -> "store_rx"
                 [] tx[d] = "load_tx" -> "store_tx"
                 [] tx[d] = "timeout" -> "store_timeout")
    /\ UNCHANGED <<lockup, up, stopped, lists, priv, napi, cur, buf, count, polling,
                   sorted, faults, disturbed>>

\* The store; it clashes when status changed since the load.
StoreStatus(d, s, bit) ==
    /\ status' = [status EXCEPT ![s] = word[d] \union {bit}]
    /\ word' = [word EXCEPT ![d] = {}]
    /\ disturbed' = IF status[s] = word[d] THEN disturbed
                    ELSE disturbed \union {"clash"}
    /\ UNCHANGED <<lockup, up, lists, skb, tx_packets, locked, napi, cur, buf, count,
                   polling, sorted, faults>>

StoreRx(d) ==
    /\ tx[d] = "store_rx" /\ Goto(d, "int_rx")
    /\ StoreStatus(d, Twin(d), RX_INTR)
    /\ UNCHANGED stopped

\* With lockup, every lockup-th transmission loses its interrupt.
LosesInterrupt(d) == lockup # 0 /\ (tx_packets[d] + 1) % lockup = 0

\* A slip: the interrupt is not called.
StoreTxOnly(d) ==
    tx[d] = "store_tx" /\ StoreStatus(d, d, TX_INTR) /\ UNCHANGED stopped /\ Goto(d, "idle")

StoreTx(d) ==
    /\ tx[d] = "store_tx" /\ StoreStatus(d, d, TX_INTR)
    /\ IF LosesInterrupt(d)
       THEN stopped' = [stopped EXCEPT ![d] = TRUE] /\ Goto(d, "idle")
       ELSE UNCHANGED stopped /\ Goto(d, "int_tx")

StoreTimeout(d) ==
    /\ tx[d] = "store_timeout" /\ Goto(d, "int_timeout")
    /\ StoreStatus(d, d, TX_INTR)
    /\ UNCHANGED stopped

\* dummveth_napi_interrupt for device s.
NapiInterrupt(s) ==
    /\ ~locked[s]
    /\ ClearStatus(s)
    /\ napi' = IF RX_INTR \in status[s] THEN [napi EXCEPT ![s] = Scheduled(s)] ELSE napi
    /\ IF TX_INTR \in status[s]
       THEN /\ tx_packets' = [tx_packets EXCEPT ![s] = IF lockup = 0 THEN 0 ELSE (@ + 1) % lockup]
            /\ early' = early \union (({skb[s]} \ {NoSkb}) \intersect {cur[s]})
            /\ skb' = [skb EXCEPT ![s] = NoSkb]
       ELSE UNCHANGED <<tx_packets, early, skb>>

\* The calls of dummveth_interrupt.
Interrupt(d) ==
    /\ \/ tx[d] = "int_rx" /\ NapiInterrupt(Twin(d)) /\ Goto(d, "load_tx")
       \/ tx[d] = "int_tx" /\ NapiInterrupt(d) /\ Goto(d, "idle")
       \/ tx[d] = "int_timeout" /\ NapiInterrupt(d) /\ Goto(d, "pool")
    /\ UNCHANGED <<lockup, up, stopped, lists, locked, cur, buf, word, count, polling,
                   received, dropped, faults, disturbed>>

\* The watchdog calls dummveth_tx_timeout when the queue is stopped too long.
TxTimeout(d) ==
    /\ up[d] /\ stopped[d] /\ tx[d] = "idle"
    /\ d \in Restless /\ faults < MaxFaults
    /\ faults' = faults + 1
    /\ disturbed' = disturbed \union {"timeout"}
    /\ Goto(d, "timeout")
    /\ UNCHANGED <<lockup, up, stopped, lists, priv, napi, cur, buf, word, count, polling,
                   sorted>>

\* It replaces the buffers in the pool, not the ones under way, by new ones.
RefillPool(d, new) ==
    /\ tx[d] = "pool" /\ ~locked[d]
    /\ ppool' = [ppool EXCEPT ![d] = new]
    /\ dev' = [p \in Pkt |-> IF p \in Range(new) THEN d
                             ELSE IF p \in Range(ppool[d]) THEN -1 ELSE dev[p]]
    /\ next' = [p \in Pkt |-> IF p \in Range(new) THEN After(new, p)
                              ELSE IF p \in Range(ppool[d]) THEN NULL ELSE next[p]]
    /\ Goto(d, "wake")
    /\ UNCHANGED <<lockup, up, stopped, rx_queue, data, priv, napi, cur, buf, word, count,
                   polling, sorted, faults, disturbed>>

WakeAfterTimeout(d) ==
    /\ tx[d] = "wake"
    /\ stopped' = [stopped EXCEPT ![d] = FALSE]
    /\ Goto(d, "idle")
    /\ UNCHANGED <<lockup, up, lists, priv, napi, cur, buf, word, count, polling, sorted,
                   faults, disturbed>>

-----------------------------------------------------------------------------
\* The softirq runs dummveth_poll while NAPI is scheduled.
Polling(d) == napi[d] \in {"sched", "missed"} /\ poll[d] = "loop"

\* dummveth_dequeue_buf; the packet is passed to the network core, or dropped when
\* there is no skb for it.
DequeueBuf(d) ==
    /\ Polling(d) /\ MorePackets(d) /\ ~locked[d]
    /\ pkt' = [pkt EXCEPT ![d] = Head(rx_queue[d])]
    /\ rx_queue' = [rx_queue EXCEPT ![d] = Tail(@)]
    /\ npackets' = [npackets EXCEPT ![d] = @ + 1]
    /\ poll' = [poll EXCEPT ![d] = "release"]
    /\ \/ received' = received \union {data[Head(rx_queue[d])]} /\ UNCHANGED <<dropped, faults>>
       \/ /\ faults < MaxFaults /\ faults' = faults + 1
          /\ dropped' = dropped \union {data[Head(rx_queue[d])]} /\ UNCHANGED received
    /\ data' = [data EXCEPT ![Head(rx_queue[d])] = NoSkb]
    /\ UNCHANGED <<lockup, up, stopped, ppool, next, dev, priv, napi, sending, early,
                   disturbed>>

\* dummveth_release_buffer under the lock of the device the buffer belongs to,
ReleaseBuffer(d) ==
    /\ poll[d] = "release" /\ ~locked[Home(d)]
    /\ next' = [next EXCEPT ![pkt[d]] = First(ppool[Home(d)])]
    /\ ppool' = [ppool EXCEPT ![Home(d)] = <<pkt[d]>> \o @]
    /\ poll' = [poll EXCEPT ![d] = "wake"]
    /\ UNCHANGED <<lockup, up, stopped, rx_queue, dev, data, priv, napi, sending, npackets,
                   pkt, sorted, faults, disturbed>>

\* and after the unlock, when the buffer is in the pool.  Before pkt->dev and
\* pkt->next are read the watchdog may free it: the reads then yield anything.  Or the
\* other device takes it for its next packet, and pkt->next is that of a receive queue.
Woken(d) == [stopped EXCEPT ![d] = FALSE]
InPool(p) == \E d \in Devs : p \in Range(ppool[d])
NoteWakeup(p) ==
    disturbed' = IF InPool(p) \/ stopped' = stopped THEN disturbed
                 ELSE disturbed \union {"reused"}

WakeQueue(d) ==
    /\ poll[d] = "wake"
    /\ IF pkt[d] \in Live
       THEN stopped' = IF MustWake(d) THEN Woken(Home(d)) ELSE stopped
       ELSE stopped' \in {stopped, Woken(Twin(d))}
    /\ NoteWakeup(pkt[d])
    /\ pkt' = [pkt EXCEPT ![d] = NULL]
    /\ poll' = [poll EXCEPT ![d] = "loop"]
    /\ UNCHANGED <<lockup, up, lists, priv, napi, sending, npackets, sorted, faults>>

\* The loop ends, by a look at rx_queue outside the lock.
LoopEnd(d) ==
    /\ Polling(d) /\ ~MorePackets(d)
    /\ poll' = [poll EXCEPT ![d] = "end"]
    /\ UNCHANGED <<lockup, up, stopped, lists, priv, napi, sending, npackets, pkt, sorted,
                   faults, disturbed>>

\* The end of dummveth_poll: napi_complete_done under the lock, or, when the budget
\* is used up, nothing: the core polls again, unless NAPI is being disabled.
PollEnd(d) ==
    /\ poll[d] = "end"
    /\ IF npackets[d] < budget
       THEN ~locked[d] /\ napi' = [napi EXCEPT ![d] = Completed(@)]
       ELSE napi' = IF up[d] THEN napi ELSE [napi EXCEPT ![d] = Completed(@)]
    /\ poll' = [poll EXCEPT ![d] = "loop"] /\ npackets' = [npackets EXCEPT ![d] = 0]
    /\ UNCHANGED <<lockup, up, stopped, lists, priv, sending, pkt, sorted, faults,
                   disturbed>>

-----------------------------------------------------------------------------
TxStep(d) ==
    EnqueueBuf(d) \/ LoadStatus(d) \/ StoreRx(d) \/ StoreTx(d) \/ Interrupt(d)

WatchdogStep(d) ==
    StoreTimeout(d) \/ (\E new \in NewPools : RefillPool(d, new)) \/ WakeAfterTimeout(d)

PollStep(d) ==
    DequeueBuf(d) \/ ReleaseBuffer(d) \/ WakeQueue(d)
    \/ LoopEnd(d) \/ PollEnd(d)

DeviceStep(d) ==
    \/ Open(d) \/ Stop(d) \/ NapiDisabled(d) \/ Xmit(d) \/ XmitOutOfPool(d) \/ TxTimeout(d)
    \/ TxStep(d) \/ WatchdogStep(d) \/ PollStep(d)

\* Traffic between devices that are up, without watchdog and restarts; what these change
\* is checked in module PairDrivers, which takes all steps.
Traffic == \E d \in Devs : Xmit(d) \/ XmitOutOfPool(d) \/ TxStep(d) \/ PollStep(d)

\* The processors run both actors of each device; nobody has to send.
Fairness == \A d \in Devs : WF_vars(TxStep(d)) /\ WF_vars(PollStep(d))

TrafficSpec == Init /\ [][Traffic]_vars /\ Fairness

-----------------------------------------------------------------------------
\* The packet in the hands of the poll of d, before it is in the pool again.
InHand(d) == IF poll[d] = "release" THEN {pkt[d]} ELSE {}
Sending(d) == {buf[d]} \ {NULL}

\* Flow control: hw_tx never finds the pool empty (and so never keeps priv->lock)
\* because the queue is stopped with the last buffer and woken with the first one
\* that comes back.  What can break it is the watchdog or a restart of the device,
\* which wake the queue whatever the pool holds, and a wakeup on account of a buffer
\* that was taken from the pool again before the test.
NeverOutOfPool ==
    disturbed \intersect {"timeout", "restart", "reused"} = {} => \A d \in Devs : ~locked[d]

\* The transmission-done interrupt frees an skb only after hw_tx has copied it and
\* handed it to the twin.
DoneAfterCopy == early = {}

\* That is so as long as no update of status is lost and no interrupt is dropped.
DoneAfterCopyUnlessClash == "clash" \notin disturbed /\ lockup = 0 => DoneAfterCopy

\* Without the watchdog's help a stopped queue is woken again, once the twin has
\* polled: no wakeup is lost between the release of a buffer and the test of the
\* queue, which the code does outside the lock.
QueueWoken ==
    \A d \in Devs :
        up[d] /\ stopped[d] ~> ~stopped[d] \/ disturbed # {} \/ lockup # 0
                                \/ \E e \in Devs : ~up[e]

\* A packet that arrives while the twin is polling, also between its last look at
\* the queue and napi_complete_done, is polled: the receive queue drains.
QueueDrained ==
    \A d \in Devs : rx_queue[d] # <<>> ~> rx_queue[d] = <<>> \/ disturbed # {} \/ ~up[d]
=============================================================================
