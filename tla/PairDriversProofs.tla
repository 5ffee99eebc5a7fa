-------------------------- MODULE PairDriversProofs --------------------------
(***************************************************************************)
(* What holds of the pair of network devices and of the drivers that grew  *)
(* out of it for any number of buffers, any traffic and any driver.        *)
(*                                                                         *)
(* Five inductive invariants, each proved from the ones before it: where   *)
(* the buffers are (BufferInv), what they contain (DataInv), what the bits *)
(* of status and the skb of a device say of its transmission (StatusInv),  *)
(* how many polls are due (PollInv), and when a queue is stopped (FlowInv).*)
(***************************************************************************)
EXTENDS PairDrivers, SequenceTheorems, TLAPS

\* The prover of the leaves that name no other.
USE Zenon

AllSkbs == Skbs(0) \union Skbs(1)
Bits == {RX_INTR, TX_INTR}
Watchdog == {"timeout", "store_timeout", "int_timeout", "pool", "wake"}
Sendings == {"copy", "load_rx", "store_rx", "int_rx", "load_tx", "store_tx", "int_tx"}

Types ==
    /\ lockup \in Nat
    /\ up \in [Devs -> BOOLEAN] /\ stopped \in [Devs -> BOOLEAN] /\ locked \in [Devs -> BOOLEAN]
    /\ ppool \in [Devs -> Seq(Pkt)] /\ rx_queue \in [Devs -> Seq(Pkt)]
    /\ dev \in [Pkt -> Devs \union {-1}]
    /\ data \in [Pkt -> AllSkbs \union {NoSkb}]
    /\ status \in [Devs -> SUBSET Bits] /\ word \in [Devs -> SUBSET Bits]
    /\ skb \in [Devs -> AllSkbs \union {NoSkb}] /\ cur \in [Devs -> AllSkbs \union {NoSkb}]
    /\ napi \in [Devs -> {"off", "idle", "sched", "missed"}]
    /\ tx \in [Devs -> {"idle"} \union Sendings \union Watchdog]
    /\ buf \in [Devs -> Pkt \union {NULL}] /\ pkt \in [Devs -> Pkt \union {NULL}]
    /\ poll \in [Devs -> {"loop", "release", "wake", "end", "complete"}]
    /\ count \in [Devs -> Nat]
    /\ late \subseteq Pkt \X {"release", "wake"}
    /\ oops \in BOOLEAN

\* The buffers of device h, and their places.
Owned(h) == {p \in Pkt : dev[p] = h}

Partition(h) ==
    /\ Range(ppool[h]) \union Sending(h) \union Range(rx_queue[Twin(h)]) \union Held(Twin(h))
       = Owned(h)
    /\ Range(ppool[h]) \intersect Sending(h) = {}
    /\ Range(ppool[h]) \intersect Range(rx_queue[Twin(h)]) = {}
    /\ Range(ppool[h]) \intersect Held(Twin(h)) = {}
    /\ Sending(h) \intersect Range(rx_queue[Twin(h)]) = {}
    /\ Sending(h) \intersect Held(Twin(h)) = {}
    /\ Range(rx_queue[Twin(h)]) \intersect Held(Twin(h)) = {}
    /\ IsInjective(ppool[h]) /\ IsInjective(rx_queue[h])

\* A buffer is in the hands of one poll, and of a device that has it.
Hands ==
    /\ \A d \in Devs : tx[d] = "copy" <=> buf[d] # NULL
    /\ \A d \in Devs : poll[d] = "complete" /\ ~oops => pkt[d] # NULL
    /\ \A d \in Devs : poll[d] \in {"release", "complete"} => <<pkt[d], "release">> \notin late
    /\ \A p \in Pkt : <<p, "release">> \in late => p \in Live

BufferInv == Types /\ Hands /\ \A h \in Devs : Partition(h)

-----------------------------------------------------------------------------
Known == {data[p] : p \in {q \in Pkt : data[q] # NoSkb}} \union received \union dropped
Sent == {s \in AllSkbs : s[2] <= count[s[1]]} \ ({cur[d] : d \in Devs} \union given)

DataInv ==
    /\ \A d \in Devs : count[d] <= MaxSend[d]
    /\ \A d \in Devs : tx[d] = "copy" => count[d] >= 1
    /\ cur = [d \in Devs |-> IF tx[d] = "copy" THEN <<d, count[d]>> ELSE NoSkb]
    /\ \A s \in given : s \in AllSkbs /\ s[2] <= count[s[1]] /\ s # cur[s[1]]
    /\ \A p \in Pkt : data[p] # NoSkb <=> \E d \in Devs : p \in Range(rx_queue[d])
    /\ \A p, q \in Pkt : data[p] # NoSkb /\ data[p] = data[q] => p = q
    /\ \A p \in Pkt : data[p] # NoSkb => data[p] \notin received \union dropped
    /\ Known \subseteq Sent
    /\ (\A d \in Devs : ~locked[d]) => Known = Sent

-----------------------------------------------------------------------------
Faithful == "clash" \notin disturbed /\ lockup = 0

StatusInv ==
    Faithful =>
        /\ early = {}
        /\ \A d \in Devs :
             /\ tx[d] \notin {"int_tx", "int_timeout"} => TX_INTR \notin status[d]
             /\ tx[d] = "int_tx" /\ skb[d] # NoSkb => TX_INTR \in status[d]
             /\ tx[d] \in {"idle"} \union Watchdog /\ skb[d] # NoSkb =>
                   skb[d] \in given \/ locked[d]

-----------------------------------------------------------------------------
\* The polls that NAPI, a bit of status or a transmission under way will start on d.
Runs(n) == IF n = "sched" THEN 1 ELSE IF n = "missed" THEN 2 ELSE 0
One(b) == IF b THEN 1 ELSE 0
Announcing == {"load_rx", "store_rx"}
PollsDue(d) ==
    Runs(napi[d]) - One(poll[d] = "complete")
    + One(RX_INTR \in status[d]) + One(tx[Twin(d)] \in Announcing)

PollInv ==
    /\ driver # "kxdp_native" => ~oops
    /\ oops => disturbed \intersect {"clash", "nomem"} # {}
    /\ \A d \in Devs : up[d] => napi[d] # "off"
    /\ driver = "kxdp_native" /\ "clash" \notin disturbed /\ ~oops =>
          \A d \in Devs : /\ poll[d] = "complete" => napi[d] \in {"sched", "missed"}
                          /\ PollsDue(d) <= Len(rx_queue[d])

-----------------------------------------------------------------------------
FlowInv ==
    disturbed \intersect {"timeout", "restart", "reused"} = {} =>
        \A d \in Devs : /\ up[d] /\ ~locked[d] /\ tx[d] \notin Watchdog
                        /\ ppool[d] = <<>> => stopped[d]

-----------------------------------------------------------------------------
(* Lists of buffers: what taking the first one and putting one first do.   *)

LEMMA TakenFirst ==
  ASSUME NEW S, NEW s \in Seq(S), s # <<>>
  PROVE  /\ Head(s) \in S /\ Head(s) \in Range(s)
         /\ Tail(s) \in Seq(S) /\ Len(Tail(s)) = Len(s) - 1
         /\ IsInjective(s) => /\ IsInjective(Tail(s))
                              /\ Range(Tail(s)) = Range(s) \ {Head(s)}
<1>1. /\ Len(s) \in Nat \ {0} /\ DOMAIN s = 1 .. Len(s) /\ Head(s) = s[1]
      /\ s \in [1 .. Len(s) -> S]
  BY EmptySeq, LenProperties, SMT
<1>2. /\ Head(s) \in S /\ Tail(s) \in Seq(S) /\ Len(Tail(s)) = Len(s) - 1
      /\ \A i \in 1 .. Len(Tail(s)) : Tail(s)[i] = s[i + 1]
  BY HeadTailProperties
<1>3. DOMAIN Tail(s) = 1 .. Len(s) - 1  BY <1>2, LenProperties
<1>4. \A i \in 1 .. Len(s) - 1 : Tail(s)[i] = s[i + 1] /\ i + 1 \in 1 .. Len(s)
  BY <1>1, <1>2, SMT
<1>5. Head(s) \in Range(s)  BY <1>1, SMT DEF Range
<1>6. ASSUME IsInjective(s)
      PROVE  IsInjective(Tail(s)) /\ Range(Tail(s)) = Range(s) \ {Head(s)}
  <2>1. \A i, j \in 1 .. Len(s) : s[i] = s[j] => i = j  BY <1>1, <1>6 DEF IsInjective
  <2>2. \A i, j \in 1 .. Len(s) - 1 : Tail(s)[i] = Tail(s)[j] => i = j
    BY <1>1, <1>4, <2>1, SMT
  <2>3. IsInjective(Tail(s))  BY <1>3, <2>2 DEF IsInjective
  <2>4. ASSUME NEW x \in Range(Tail(s))  PROVE x \in Range(s) \ {Head(s)}
    <3>1. PICK i \in 1 .. Len(s) - 1 : x = Tail(s)[i]  BY <1>3, <2>4 DEF Range
    <3>2. x = s[i + 1] /\ i + 1 \in 1 .. Len(s) /\ i + 1 # 1  BY <1>1, <1>4, <3>1, SMT
    <3>3. QED  BY <1>1, <2>1, <3>2, SMT DEF Range
  <2>5. ASSUME NEW x \in Range(s), x # Head(s)  PROVE x \in Range(Tail(s))
    <3>1. PICK i \in 1 .. Len(s) : x = s[i]  BY <1>1, <2>5 DEF Range
    <3>2. i - 1 \in 1 .. Len(s) - 1 /\ s[(i - 1) + 1] = x  BY <1>1, <2>5, <3>1, SMT
    <3>3. Tail(s)[i - 1] = x  BY <1>4, <3>2
    <3>4. QED  BY <1>3, <3>2, <3>3 DEF Range
  <2>6. QED  BY <2>3, <2>4, <2>5
<1>7. QED  BY <1>2, <1>5, <1>6

LEMMA PutFirst ==
  ASSUME NEW S, NEW s \in Seq(S), NEW p \in S
  PROVE  /\ <<p>> \o s \in Seq(S) /\ Len(<<p>> \o s) = Len(s) + 1 /\ <<p>> \o s # <<>>
         /\ Range(<<p>> \o s) = {p} \union Range(s)
         /\ IsInjective(s) /\ p \notin Range(s) => IsInjective(<<p>> \o s)
<1> DEFINE t == <<p>> \o s
<1>1. <<p>> \in Seq(S) /\ Len(<<p>>) = 1 /\ <<p>>[1] = p  BY SMT
<1>2. /\ Len(s) \in Nat /\ DOMAIN s = 1 .. Len(s)  BY LenProperties
<1>3. /\ t \in Seq(S) /\ Len(t) = Len(s) + 1
      /\ \A i \in 1 .. Len(s) + 1 : t[i] = IF i <= 1 THEN <<p>>[i] ELSE s[i - 1]
  BY <1>1, <1>2, ConcatProperties, SMT
<1>4. DOMAIN t = 1 .. Len(s) + 1  BY <1>3, LenProperties
<1>5. t[1] = p /\ \A i \in 1 .. Len(s) : t[i + 1] = s[i]  BY <1>1, <1>2, <1>3, SMT
<1> HIDE DEF t
<1>6. t # <<>>  BY <1>2, <1>3, EmptySeq, SMT
<1>7. Range(t) = {p} \union Range(s)
  <2>1. ASSUME NEW x \in Range(t)  PROVE x \in {p} \union Range(s)
    <3>1. PICK i \in 1 .. Len(s) + 1 : x = t[i]  BY <1>4, <2>1 DEF Range
    <3>2. CASE i = 1  BY <1>5, <3>1, <3>2
    <3>3. CASE i # 1
      <4>1. i - 1 \in 1 .. Len(s) /\ (i - 1) + 1 = i  BY <1>2, <3>3, SMT
      <4>2. x = s[i - 1]  BY <1>5, <3>1, <4>1
      <4>3. QED  BY <1>2, <4>1, <4>2 DEF Range
    <3>4. QED  BY <3>2, <3>3
  <2>2. p \in Range(t)  BY <1>2, <1>4, <1>5, SMT DEF Range
  <2>3. ASSUME NEW x \in Range(s)  PROVE x \in Range(t)
    <3>1. PICK i \in 1 .. Len(s) : x = s[i]  BY <1>2, <2>3 DEF Range
    <3>2. x = t[i + 1] /\ i + 1 \in 1 .. Len(s) + 1  BY <1>2, <1>5, <3>1, SMT
    <3>3. QED  BY <1>4, <3>2 DEF Range
  <2>4. QED  BY <2>1, <2>2, <2>3
<1>8. ASSUME IsInjective(s), p \notin Range(s)  PROVE IsInjective(t)
  <2>1. \A i, j \in 1 .. Len(s) : s[i] = s[j] => i = j  BY <1>2, <1>8 DEF IsInjective
  <2>2. \A i \in 1 .. Len(s) : s[i] # p  BY <1>2, <1>8 DEF Range
  <2>3. SUFFICES ASSUME NEW i \in 1 .. Len(s) + 1, NEW j \in 1 .. Len(s) + 1, t[i] = t[j]
                 PROVE  i = j
    BY <1>4 DEF IsInjective
  <2>4. i = 1 \/ (i - 1 \in 1 .. Len(s) /\ t[i] = s[i - 1])  BY <1>2, <1>3, SMT
  <2>5. j = 1 \/ (j - 1 \in 1 .. Len(s) /\ t[j] = s[j - 1])  BY <1>2, <1>3, SMT
  <2>6. QED  BY <1>5, <2>1, <2>2, <2>3, <2>4, <2>5, SMT
<1>9. QED  BY <1>3, <1>6, <1>7, <1>8 DEF t

-----------------------------------------------------------------------------
(* The drivers share their steps.                                          *)

CoreStep(d) ==
    \/ Open(d) \/ Stop(d) \/ NapiDisabled(d) \/ Xmit(d) \/ XmitOutOfPool(d) \/ TxTimeout(d)
    \/ TxStep(d) \/ WatchdogStep(d)
NativeStep(d) ==
    \/ kxdp_native_rx_cons_buf(d) \/ kxdp_native_poll(d) \/ kxdp_native_tx_release_buffer(d)
    \/ kxdp_native_xdp_set(d)
AnyStep(d) ==
    \/ Template(CoreStep(d))
    \/ GiveUp(d)
    \/ driver # "kxdp_native" /\ Template(PollStep(d))
    \/ driver = "kxdp_native" /\ NativeStep(d)

\* A step of any driver is a step of the pair, an early return of hw_tx, or one of the
\* poll of native kxdp.
LEMMA StepOfDriver == PairNext => ~oops /\ \E d \in Devs : AnyStep(d)
<1> SUFFICES ASSUME PairNext PROVE ~oops /\ \E d \in Devs : AnyStep(d)
  OBVIOUS
<1>1. PICK d \in Devs :
        \/ driver = "dummveth" /\ dummveth(d)
        \/ driver = "deth" /\ deth(d)
        \/ driver = "kneigh" /\ kneigh(d)
        \/ driver = "kxdp_generic" /\ kxdp_generic(d)
        \/ driver = "kxdp_native" /\ kxdp_native(d)
        \/ driver = "kxfrm_cbc" /\ kxfrm_cbc(d)
        \/ driver = "kxfrm_gcm" /\ kxfrm_gcm(d)
  BY DEF PairNext
<1> SUFFICES AnyStep(d)
  BY DEF PairNext
<1>2. CASE driver = "dummveth" /\ dummveth(d)
  BY <1>2 DEF dummveth, Template, DeviceStep, CoreStep, AnyStep
<1>3. CASE driver = "deth" /\ deth(d)
  BY <1>3 DEF deth, deth_steps, deth_open, deth_stop, deth_xmit, deth_rx_prod_buf,
     deth_hw_tx, deth_napi_interrupt, deth_tx_timeout, deth_setup_pool, deth_rx_cons_buf,
     deth_tx_release_buffer, deth_poll, Template, AnyStep, CoreStep, TxStep, WatchdogStep,
     PollStep
<1>4. CASE driver = "kneigh" /\ kneigh(d)
  BY <1>4 DEF kneigh, kneigh_steps, kneigh_open, kneigh_stop, kneigh_xmit,
     kneigh_rx_prod_buf, kneigh_gives_up, kneigh_hw_tx, kneigh_napi_interrupt,
     kneigh_tx_timeout, kneigh_setup_pool, kneigh_rx_cons_buf, kneigh_tx_release_buffer,
     kneigh_poll, Template, AnyStep, CoreStep, TxStep, WatchdogStep, PollStep
<1>5. CASE driver = "kxdp_generic" /\ kxdp_generic(d)
  BY <1>5 DEF kxdp_generic, kxdp_generic_steps, kxdp_generic_open, kxdp_generic_stop,
     kxdp_generic_xmit, kxdp_generic_rx_prod_buf, kxdp_generic_hw_tx,
     kxdp_generic_napi_interrupt, kxdp_generic_tx_timeout, kxdp_generic_setup_pool,
     kxdp_generic_rx_cons_buf, kxdp_generic_tx_release_buffer, kxdp_generic_poll, Template,
     AnyStep, CoreStep, TxStep, WatchdogStep, PollStep
<1>6. CASE driver = "kxdp_native" /\ kxdp_native(d)
  BY <1>6 DEF kxdp_native, kxdp_native_steps, kxdp_native_open, kxdp_native_stop,
     kxdp_native_xmit, kxdp_native_rx_prod_buf, kxdp_native_hw_tx,
     kxdp_native_napi_interrupt, kxdp_native_tx_timeout, kxdp_native_setup_pool, Template,
     AnyStep, CoreStep, TxStep, WatchdogStep, NativeStep
<1>7. CASE driver = "kxfrm_cbc" /\ kxfrm_cbc(d)
  BY <1>7 DEF kxfrm_cbc, kxfrm_cbc_steps, kxfrm_cbc_open, kxfrm_cbc_stop, kxfrm_cbc_xmit,
     kxfrm_cbc_rx_prod_buf, kxfrm_cbc_gives_up, kxfrm_cbc_hw_tx, kxfrm_cbc_napi_interrupt,
     kxfrm_cbc_tx_timeout, kxfrm_cbc_setup_pool, kxfrm_cbc_rx_cons_buf,
     kxfrm_cbc_tx_release_buffer, kxfrm_cbc_poll, Template, AnyStep, CoreStep, TxStep,
     WatchdogStep, PollStep
<1>8. CASE driver = "kxfrm_gcm" /\ kxfrm_gcm(d)
  BY <1>8 DEF kxfrm_gcm, kxfrm_gcm_steps, kxfrm_gcm_open, kxfrm_gcm_stop, kxfrm_gcm_xmit,
     kxfrm_gcm_rx_prod_buf, kxfrm_gcm_gives_up, kxfrm_gcm_hw_tx, kxfrm_gcm_napi_interrupt,
     kxfrm_gcm_tx_timeout, kxfrm_gcm_setup_pool, kxfrm_gcm_rx_cons_buf,
     kxfrm_gcm_tx_release_buffer, kxfrm_gcm_poll, Template, AnyStep, CoreStep, TxStep,
     WatchdogStep, PollStep
<1>9. QED  BY <1>1, <1>2, <1>3, <1>4, <1>5, <1>6, <1>7, <1>8

-----------------------------------------------------------------------------
(* Types.                                                                  *)

LEMMA Devices == \A d \in Devs : Twin(d) \in Devs /\ Twin(d) # d /\ Twin(Twin(d)) = d
BY SMT DEF Devs, Twin

LEMMA NextSkb ==
  ASSUME NEW d \in Devs, NEW n \in Nat, n < MaxSend[d]
  PROVE  <<d, n + 1>> \in AllSkbs
<1>1. MaxSend[d] \in Nat  BY DummVethAssumption
<1>2. n + 1 \in 1 .. MaxSend[d]  BY <1>1, SMT
<1>3. <<d, n + 1>> \in Skbs(d)  BY <1>2 DEF Skbs
<1>4. QED  BY <1>3 DEF AllSkbs, Devs

\* The steps that leave the buffers where they are.
QuietStep(d) ==
    \/ Template(Open(d) \/ Stop(d) \/ NapiDisabled(d) \/ XmitOutOfPool(d) \/ TxTimeout(d)
                \/ LoadStatus(d) \/ StoreRx(d) \/ StoreTx(d) \/ StoreTimeout(d)
                \/ Interrupt(d) \/ WakeAfterTimeout(d))
    \/ GiveUp(d)
    \/ kxdp_native_xdp_set(d)

LEMMA HandedTypes ==
  ASSUME Types, NEW d \in Devs, Handed(d)
  PROVE  /\ count' \in [Devs -> Nat] /\ skb' \in [Devs -> AllSkbs \union {NoSkb}]
         /\ UNCHANGED <<lockup, up, rx_queue, dev, data, status, word, napi, poll, pkt>>
<1>1. count[d] \in Nat /\ count[d] < MaxSend[d]  BY DEF Types, Handed
<1>2. <<d, count[d] + 1>> \in AllSkbs  BY <1>1, NextSkb
<1>3. skb' = [skb EXCEPT ![d] = <<d, count[d] + 1>>] /\ count' = [count EXCEPT ![d] = @ + 1]
  BY DEF Handed
<1>4. QED  BY <1>1, <1>2, <1>3, SMT DEF Types, Handed, polling

LEMMA InterruptTypes ==
  ASSUME Types, NEW e \in Devs, NapiInterrupt(e)
  PROVE  /\ status' \in [Devs -> SUBSET Bits] /\ skb' \in [Devs -> AllSkbs \union {NoSkb}]
         /\ napi' \in [Devs -> {"off", "idle", "sched", "missed"}]
<1>1. status' \in [Devs -> SUBSET Bits]  BY DEF Types, NapiInterrupt, ClearStatus
<1>2. skb' \in [Devs -> AllSkbs \union {NoSkb}]  BY DEF Types, NapiInterrupt
<1>3. Scheduled(e) \in {"off", "idle", "sched", "missed"}  BY DEF Types, Scheduled
<1>4. napi' \in [Devs -> {"off", "idle", "sched", "missed"}]
  BY <1>3 DEF Types, NapiInterrupt
<1>5. QED  BY <1>1, <1>2, <1>4

LEMMA QuietTypes ==
  ASSUME Types, NEW d \in Devs, QuietStep(d)
  PROVE  Types' /\ UNCHANGED <<ppool, rx_queue, dev, data, buf, cur, pkt, poll, late, oops>>
<1>1. CASE Template(Open(d))
  BY <1>1 DEF Types, Template, own, Open, lists, priv, sending, polling
<1>2. CASE Template(Stop(d))
  BY <1>2 DEF Types, Template, own, Stop, lists, priv, sending, polling
<1>3. CASE Template(NapiDisabled(d))
  BY <1>3 DEF Types, Template, own, NapiDisabled, lists, priv, sending, polling
<1>4. CASE Template(XmitOutOfPool(d))
  <2>1. Handed(d) /\ locked' = [locked EXCEPT ![d] = TRUE]
        /\ UNCHANGED <<tx, cur, buf, ppool, stopped, late, oops>>
    BY <1>4 DEF Template, own, XmitOutOfPool
  <2>2. QED  BY <2>1, HandedTypes DEF Types
<1>5. CASE Template(TxTimeout(d))
  BY <1>5 DEF Types, Template, own, TxTimeout, lists, priv, polling, Goto, Watchdog
<1>6. CASE Template(LoadStatus(d))
  BY <1>6, Devices DEF Types, Template, own, LoadStatus, lists, priv, polling, Goto,
     Watchdog, Sendings
<1>7. CASE Template(StoreRx(d))
  BY <1>7, Devices DEF Types, Template, own, StoreRx, StoreStatus, lists, polling, Goto,
     Watchdog, Sendings, Bits
<1>8. CASE Template(StoreTx(d))
  BY <1>8, Devices DEF Types, Template, own, StoreTx, StoreStatus, lists, polling, Goto,
     Watchdog, Sendings, Bits
<1>9. CASE Template(StoreTimeout(d))
  BY <1>9, Devices DEF Types, Template, own, StoreTimeout, StoreStatus, lists, polling, Goto,
     Watchdog, Sendings, Bits
<1>10. CASE Template(Interrupt(d))
  <2>1. \E e \in Devs : NapiInterrupt(e)  BY <1>10, Devices DEF Template, Interrupt
  <2>2. /\ status' \in [Devs -> SUBSET Bits] /\ skb' \in [Devs -> AllSkbs \union {NoSkb}]
        /\ napi' \in [Devs -> {"off", "idle", "sched", "missed"}]
    BY <2>1, InterruptTypes
  <2>3. tx' \in [Devs -> {"idle"} \union Sendings \union Watchdog]
    <3>1. PICK x \in {"load_tx", "idle", "pool"} : tx' = [tx EXCEPT ![d] = x]
      BY <1>10 DEF Template, Interrupt, Goto
    <3>2. QED  BY <3>1 DEF Types, Sendings, Watchdog
  <2>4. UNCHANGED <<lockup, up, stopped, locked, ppool, rx_queue, dev, data, word, cur, buf,
                    count, poll, pkt, late, oops>>
    BY <1>10 DEF Template, own, Interrupt, lists, polling
  <2>5. QED  BY <2>2, <2>3, <2>4 DEF Types
<1>11. CASE Template(WakeAfterTimeout(d))
  BY <1>11 DEF Types, Template, own, WakeAfterTimeout, lists, priv, polling, Goto
<1>12. CASE GiveUp(d)
  <2>1. Handed(d) /\ UNCHANGED <<tx, cur, buf, ppool, stopped, locked, late, oops>>
    BY <1>12 DEF GiveUp, own
  <2>2. QED  BY <2>1, HandedTypes DEF Types
<1>13. CASE kxdp_native_xdp_set(d)
  BY <1>13 DEF Types, kxdp_native_xdp_set, lists, priv, sending, polling
<1>14. QED
  BY <1>1, <1>2, <1>3, <1>4, <1>5, <1>6, <1>7, <1>8, <1>9, <1>10, <1>11, <1>12, <1>13
     DEF QuietStep, Template

-----------------------------------------------------------------------------
(* Where the buffers are.                                                  *)

LEMMA BuffersAre == NULL \notin Pkt /\ (\A d \in Devs : d \in Int) /\ -1 \notin Devs
BY DummVethAssumption, SMT DEF NULL, Devs

LEMMA PartitionKept ==
  ASSUME NEW h \in Devs, Partition(h),
         UNCHANGED <<ppool, rx_queue, dev, buf>>, UNCHANGED Held(Twin(h))
  PROVE  Partition(h)'
BY DEF Partition, Sending, Owned

LEMMA HeldKept ==
  ASSUME UNCHANGED <<dev, pkt, poll, late>>
  PROVE  \A e : UNCHANGED Held(e)
BY DEF Held, InHand

\* No quiet step starts or ends the copying of a packet.
LEMMA QuietCopies ==
  ASSUME Types, NEW d \in Devs, QuietStep(d)
  PROVE  \A e \in Devs : tx'[e] = "copy" <=> tx[e] = "copy"
<1>1. CASE Template(Open(d) \/ Stop(d) \/ NapiDisabled(d) \/ XmitOutOfPool(d))
           \/ GiveUp(d) \/ kxdp_native_xdp_set(d)
  BY <1>1 DEF Template, Open, Stop, NapiDisabled, XmitOutOfPool, GiveUp,
     kxdp_native_xdp_set, sending
<1>2. CASE Template(TxTimeout(d) \/ LoadStatus(d))
  <2>1. tx[d] # "copy" /\ \E x \in {"timeout", "store_rx", "store_tx", "store_timeout"} :
          tx' = [tx EXCEPT ![d] = x]
    BY <1>2 DEF Template, TxTimeout, LoadStatus, Goto
  <2>2. QED  BY <2>1 DEF Types
<1>3. CASE Template(StoreRx(d) \/ StoreTx(d) \/ StoreTimeout(d))
  <2>1. tx[d] # "copy" /\ \E x \in {"int_rx", "idle", "int_tx", "int_timeout"} :
          tx' = [tx EXCEPT ![d] = x]
    BY <1>3 DEF Template, StoreRx, StoreTx, StoreTimeout, Goto
  <2>2. QED  BY <2>1 DEF Types
<1>4. CASE Template(Interrupt(d) \/ WakeAfterTimeout(d))
  <2>1. tx[d] # "copy" /\ \E x \in {"load_tx", "idle", "pool"} : tx' = [tx EXCEPT ![d] = x]
    BY <1>4 DEF Template, Interrupt, WakeAfterTimeout, Goto
  <2>2. QED  BY <2>1 DEF Types
<1>5. QED  BY <1>1, <1>2, <1>3, <1>4 DEF QuietStep, Template

LEMMA QuietBuffers ==
  ASSUME BufferInv, NEW d \in Devs, QuietStep(d)
  PROVE  BufferInv'
<1>1. Types' /\ UNCHANGED <<ppool, rx_queue, dev, data, buf, cur, pkt, poll, late, oops>>
  BY QuietTypes DEF BufferInv
<1>2. \A h \in Devs : Partition(h)'
  BY <1>1, PartitionKept, HeldKept, Devices DEF BufferInv
<1>3. Live' = Live  BY <1>1 DEF Live
<1>4. Hands'  BY <1>1, <1>3, QuietCopies DEF BufferInv, Hands
<1>5. QED  BY <1>1, <1>2, <1>4 DEF BufferInv

LEMMA XmitBuffers ==
  ASSUME BufferInv, NEW d \in Devs, Template(Xmit(d))
  PROVE  BufferInv'
<1> DEFINE b == Head(ppool[d])
           e == Twin(d)
<1>1. /\ Types /\ Hands /\ Partition(d) /\ Partition(e) /\ e \in Devs /\ e # d /\ Twin(e) = d
  BY Devices DEF BufferInv
<1>2. /\ Handed(d) /\ ppool[d] # <<>> /\ tx[d] = "idle"
      /\ cur' = [cur EXCEPT ![d] = <<d, count[d] + 1>>]
      /\ buf' = [buf EXCEPT ![d] = b]
      /\ ppool' = [ppool EXCEPT ![d] = Tail(@)]
      /\ stopped' \in {stopped, [stopped EXCEPT ![d] = TRUE]}
      /\ tx' = [tx EXCEPT ![d] = "copy"]
      /\ UNCHANGED <<locked, late, oops>>
  BY DEF Template, own, Xmit, Handed, Goto
<1>3. /\ count' \in [Devs -> Nat] /\ skb' \in [Devs -> AllSkbs \union {NoSkb}]
      /\ UNCHANGED <<lockup, up, rx_queue, dev, data, status, word, napi, poll, pkt>>
  BY <1>1, <1>2, HandedTypes
<1>4. ppool[d] \in Seq(Pkt) /\ IsInjective(ppool[d])  BY <1>1 DEF Types, Partition
<1>5. /\ b \in Pkt /\ b \in Range(ppool[d]) /\ Tail(ppool[d]) \in Seq(Pkt)
      /\ IsInjective(Tail(ppool[d])) /\ Range(Tail(ppool[d])) = Range(ppool[d]) \ {b}
  BY <1>2, <1>4, TakenFirst
<1>6. b # NULL  BY <1>5, BuffersAre
<1>7. <<d, count[d] + 1>> \in AllSkbs  BY <1>1, <1>2, NextSkb DEF Handed, Types
<1> HIDE DEF b, e
<1>8. Types'
  <2>1. ppool' \in [Devs -> Seq(Pkt)] /\ buf' \in [Devs -> Pkt \union {NULL}]
    BY <1>1, <1>2, <1>5 DEF Types
  <2>2. cur' \in [Devs -> AllSkbs \union {NoSkb}]  BY <1>1, <1>2, <1>7 DEF Types
  <2>3. tx' \in [Devs -> {"idle"} \union Sendings \union Watchdog]
    BY <1>1, <1>2 DEF Types, Sendings
  <2>4. stopped' \in [Devs -> BOOLEAN]  BY <1>1, <1>2 DEF Types
  <2>5. QED  BY <1>1, <1>2, <1>3, <2>1, <2>2, <2>3, <2>4 DEF Types
<1>9. Live' = Live  BY <1>3 DEF Live
<1>10. Hands'  BY <1>1, <1>2, <1>3, <1>6, <1>9 DEF Hands, Types
<1>11. Partition(d)'
  <2>1. buf[d] = NULL  BY <1>1, <1>2 DEF Hands
  <2>2. Sending(d) = {} /\ Sending(d)' = {b}  BY <1>1, <1>2, <1>6, <2>1, SMT DEF Sending, Types
  <2>3. ppool'[d] = Tail(ppool[d]) /\ UNCHANGED Held(e) /\ UNCHANGED Owned(d)
    BY <1>1, <1>2, <1>3, HeldKept DEF Types, Owned
  <2>4. QED  BY <1>1, <1>3, <1>5, <2>2, <2>3, SMT DEF Partition, e
<1>12. Partition(e)'
  <2>1. UNCHANGED <<ppool[e], buf[e], rx_queue, Held(d), Owned(e)>>
    BY <1>1, <1>2, <1>3, HeldKept DEF Types, Owned
  <2>2. QED  BY <1>1, <2>1 DEF Partition, Sending
<1>13. QED  BY <1>8, <1>10, <1>11, <1>12, SMT DEF BufferInv, Devs, Twin, e

LEMMA BothDevices ==
  ASSUME NEW d \in Devs, Partition(d)', Partition(Twin(d))'
  PROVE  \A h \in Devs : Partition(h)'
BY SMT DEF Devs, Twin

LEMMA EnqueueBuffers ==
  ASSUME BufferInv, NEW d \in Devs, Template(EnqueueBuf(d))
  PROVE  BufferInv'
<1> DEFINE b == buf[d]
           e == Twin(d)
<1>1. /\ Types /\ Hands /\ Partition(d) /\ Partition(e) /\ e \in Devs /\ e # d /\ Twin(e) = d
  BY Devices, SMT DEF BufferInv
<1>2. /\ tx[d] = "copy"
      /\ data' = [data EXCEPT ![b] = cur[d]]
      /\ rx_queue' = [rx_queue EXCEPT ![e] = <<b>> \o @]
      /\ buf' = [buf EXCEPT ![d] = NULL] /\ cur' = [cur EXCEPT ![d] = NoSkb]
      /\ tx' = [tx EXCEPT ![d] = "load_rx"]
      /\ UNCHANGED <<lockup, up, stopped, ppool, dev, status, skb, locked, napi, word, count,
                     poll, pkt, late, oops>>
  BY DEF Template, own, EnqueueBuf, Goto, PushRx, priv, polling
<1>3. b \in Pkt /\ b # NULL  BY <1>1, <1>2 DEF Hands, Types
<1>4. rx_queue[e] \in Seq(Pkt) /\ IsInjective(rx_queue[e])  BY <1>1 DEF Types, Partition
<1>5. Sending(d) = {b} /\ Sending(d)' = {}  BY <1>1, <1>2, <1>3 DEF Sending, Types
<1>6. b \notin Range(rx_queue[e])  BY <1>1, <1>5 DEF Partition
<1>7. /\ rx_queue'[e] = <<b>> \o rx_queue[e] /\ rx_queue'[d] = rx_queue[d]
  BY <1>1, <1>2 DEF Types
<1>8. /\ rx_queue'[e] \in Seq(Pkt) /\ IsInjective(rx_queue'[e])
      /\ Range(rx_queue'[e]) = {b} \union Range(rx_queue[e])
  BY <1>3, <1>4, <1>6, <1>7, PutFirst, SMT
<1> HIDE DEF b, e
<1>9. Types'
  <2>1. rx_queue' \in [Devs -> Seq(Pkt)]  BY <1>1, <1>2, <1>7, <1>8 DEF Types
  <2>2. data' \in [Pkt -> AllSkbs \union {NoSkb}]  BY <1>1, <1>2, <1>3 DEF Types
  <2>3. /\ cur' \in [Devs -> AllSkbs \union {NoSkb}]
        /\ buf' \in [Devs -> Pkt \union {NULL}]
    BY <1>1, <1>2 DEF Types
  <2>4. tx' \in [Devs -> {"idle"} \union Sendings \union Watchdog]
    BY <1>1, <1>2 DEF Types, Sendings
  <2>5. QED  BY <1>1, <1>2, <2>1, <2>2, <2>3, <2>4 DEF Types
<1>10. Live' = Live  BY <1>2 DEF Live
<1>11. Hands'  BY <1>1, <1>2, <1>10 DEF Hands, Types
<1>12. \A h : UNCHANGED Held(h) /\ UNCHANGED Owned(h)  BY <1>2, HeldKept DEF Owned
<1>13. Partition(d)'
  BY <1>1, <1>2, <1>5, <1>7, <1>8, <1>12 DEF Partition, e
<1>14. Partition(e)'
  <2>1. UNCHANGED <<buf[e], Sending(e)>>  BY <1>1, <1>2 DEF Types, Sending
  <2>2. QED  BY <1>1, <1>2, <1>7, <1>8, <1>12, <2>1 DEF Partition
<1>15. QED  BY <1>9, <1>11, <1>13, <1>14, BothDevices DEF BufferInv, e

LEMMA LateIsHeld ==
  ASSUME Hands, NEW p \in Pkt, <<p, "release">> \in late
  PROVE  dev[p] \in Devs /\ p \in Held(Twin(dev[p]))
<1>1. dev[p] \in Devs  BY DEF Hands, Live
<1>2. dev[p] = Twin(Twin(dev[p]))  BY <1>1, Devices
<1>3. QED  BY <1>1, <1>2 DEF Held

LEMMA RefillBuffers ==
  ASSUME BufferInv, NEW d \in Devs, NEW new \in NewPools, Template(RefillPool(d, new))
  PROVE  BufferInv'
<1> DEFINE e == Twin(d)
<1>1. /\ Types /\ Hands /\ Partition(d) /\ Partition(e) /\ e \in Devs /\ e # d /\ Twin(e) = d
  BY Devices DEF BufferInv
<1>2. /\ tx[d] = "pool"
      /\ ppool' = [ppool EXCEPT ![d] = new]
      /\ dev' = [p \in Pkt |-> IF p \in Range(new) THEN d
                               ELSE IF p \in Range(ppool[d]) THEN -1 ELSE dev[p]]
      /\ tx' = [tx EXCEPT ![d] = "wake"]
      /\ UNCHANGED <<lockup, up, stopped, rx_queue, data, status, skb, locked, napi, cur, buf,
                     word, count, poll, pkt, late, oops>>
  BY DEF Template, own, RefillPool, Goto, priv, polling
<1>3. PICK n \in 0 .. pool_size : new \in [1 .. n -> Pkt \ Live]  BY DEF NewPools
<1>4. n \in Nat  BY <1>3, DummVethAssumption, SMT
<1>5. /\ new \in Seq(Pkt) /\ IsInjective(new) /\ Range(new) \subseteq Pkt \ Live
  BY <1>3, <1>4, SeqDef, SMT DEF NewPools, Range
<1> HIDE DEF e
<1>6. Types'
  <2>1. ppool' \in [Devs -> Seq(Pkt)]  BY <1>1, <1>2, <1>5 DEF Types
  <2>2. dev' \in [Pkt -> Devs \union {-1}]  BY <1>1, <1>2 DEF Types
  <2>3. tx' \in [Devs -> {"idle"} \union Sendings \union Watchdog]
    BY <1>1, <1>2 DEF Types, Watchdog
  <2>4. QED  BY <1>1, <1>2, <2>1, <2>2, <2>3 DEF Types
<1>7. ASSUME NEW p \in Pkt
      PROVE  /\ p \in Range(new) => dev[p] = -1 /\ dev'[p] = d
             /\ p \in Range(ppool[d]) => dev[p] = d /\ dev'[p] = -1
             /\ p \notin Range(new) /\ p \notin Range(ppool[d]) => dev'[p] = dev[p]
  <2>1. p \in Range(new) => dev[p] = -1  BY <1>1, <1>5 DEF Live, Types
  <2>2. p \in Range(ppool[d]) => dev[p] = d  BY <1>1 DEF Partition, Owned
  <2>3. QED  BY <1>2, <2>1, <2>2, BuffersAre
<1>8. \A h \in Devs : UNCHANGED Held(Twin(h))
  <2> SUFFICES ASSUME NEW h \in Devs PROVE UNCHANGED Held(Twin(h))
    OBVIOUS
  <2>1. ASSUME NEW p \in Pkt, <<p, "release">> \in late
        PROVE  dev'[p] = h <=> dev[p] = h
    <3>1. dev[p] \in Devs /\ p \in Held(Twin(dev[p]))  BY <1>1, <2>1, LateIsHeld
    <3>2. p \notin Range(ppool[d])
      <4>1. CASE dev[p] = d  BY <1>1, <3>1, <4>1 DEF Partition
      <4>2. CASE dev[p] # d  BY <1>7, <4>2
      <4>3. QED  BY <4>1, <4>2
    <3>3. QED  BY <1>7, <3>1, <3>2, BuffersAre
  <2>2. QED  BY <1>2, <2>1, Devices DEF Held, InHand
<1>9. Hands'
  <2>1. ASSUME NEW p \in Pkt, <<p, "release">> \in late'  PROVE p \in Live'
    <3>1. dev[p] \in Devs /\ p \in Held(Twin(dev[p]))  BY <1>1, <1>2, <2>1, LateIsHeld
    <3>2. p \notin Range(ppool[d])
      <4>1. CASE dev[p] = d  BY <1>1, <3>1, <4>1 DEF Partition
      <4>2. CASE dev[p] # d  BY <1>7, <4>2
      <4>3. QED  BY <4>1, <4>2
    <3>3. QED  BY <1>7, <3>1, <3>2 DEF Live
  <2>2. QED  BY <1>1, <1>2, <2>1 DEF Hands, Types
<1>10. Partition(d)'
  <2>1. ppool'[d] = new  BY <1>1, <1>2 DEF Types
  <2>2. Owned(d)' = (Owned(d) \ Range(ppool[d])) \union Range(new)
    BY <1>5, <1>7, BuffersAre DEF Owned
  <2>3. Owned(d) \intersect Range(new) = {}  BY <1>5, <1>7, BuffersAre DEF Owned
  <2>4. UNCHANGED <<Sending(d), Held(Twin(d)), rx_queue>>  BY <1>2, <1>8 DEF Sending
  <2>5. QED  BY <1>1, <1>5, <2>1, <2>2, <2>3, <2>4, SMT DEF Partition
<1>11. Partition(e)'
  <2>1. UNCHANGED <<ppool[e], Owned(e), Sending(e), Held(Twin(e)), rx_queue>>
    <3>1. ppool'[e] = ppool[e]  BY <1>1, <1>2 DEF Types
    <3>2. Owned(e)' = Owned(e)  BY <1>1, <1>7, BuffersAre DEF Owned
    <3>3. QED  BY <1>1, <1>2, <1>8, <3>1, <3>2 DEF Sending
  <2>2. QED  BY <1>1, <2>1 DEF Partition
<1>12. QED  BY <1>6, <1>9, <1>10, <1>11, BothDevices DEF BufferInv, e

\* What a poll holds belongs to the twin.
LEMMA HandIsHeld ==
  ASSUME BufferInv, NEW d \in Devs,
         poll[d] = "release" \/ (poll[d] = "complete" /\ pkt[d] # NULL)
  PROVE  pkt[d] \in Held(d) /\ pkt[d] \in Pkt /\ dev[pkt[d]] = Twin(d)
<1>1. pkt[d] \in Held(d)  BY DEF Held, InHand
<1>2. Twin(d) \in Devs /\ Twin(Twin(d)) = d /\ Partition(Twin(d))  BY Devices DEF BufferInv
<1>3. QED  BY <1>1, <1>2 DEF Partition, Owned

\* The poll of d takes the first buffer of its receive queue.
LEMMA Taken ==
  ASSUME BufferInv, NEW d \in Devs, NEW x \in {"release", "complete"},
         poll[d] = "loop", rx_queue[d] # <<>>,
         pkt' = [pkt EXCEPT ![d] = Head(rx_queue[d])],
         rx_queue' = [rx_queue EXCEPT ![d] = Tail(rx_queue[d])],
         poll' = [poll EXCEPT ![d] = x], UNCHANGED <<ppool, dev, buf, late>>
  PROVE  /\ rx_queue' \in [Devs -> Seq(Pkt)] /\ pkt' \in [Devs -> Pkt \union {NULL}]
         /\ Head(rx_queue[d]) \in Pkt /\ pkt'[d] = Head(rx_queue[d])
         /\ <<pkt'[d], "release">> \notin late
         /\ \A h \in Devs : Partition(h)'
<1> DEFINE b == Head(rx_queue[d])
           e == Twin(d)
<1>1. /\ Types /\ Hands /\ Partition(d) /\ Partition(e) /\ e \in Devs /\ e # d /\ Twin(e) = d
  BY Devices DEF BufferInv
<1>2. rx_queue[d] \in Seq(Pkt) /\ IsInjective(rx_queue[d])  BY <1>1 DEF Types, Partition
<1>3. /\ b \in Pkt /\ b \in Range(rx_queue[d]) /\ Tail(rx_queue[d]) \in Seq(Pkt)
      /\ IsInjective(Tail(rx_queue[d])) /\ Range(Tail(rx_queue[d])) = Range(rx_queue[d]) \ {b}
  BY <1>2, TakenFirst
<1>4. /\ rx_queue'[d] = Tail(rx_queue[d]) /\ rx_queue'[e] = rx_queue[e] /\ pkt'[d] = b
      /\ poll'[d] = x /\ pkt'[e] = pkt[e] /\ poll'[e] = poll[e]
  BY <1>1 DEF Types
<1>5. b # NULL /\ dev[b] = e  BY <1>1, <1>3, BuffersAre DEF Partition, Owned
<1> HIDE DEF b, e
<1>6. <<b, "release">> \notin late
  <2> SUFFICES ASSUME <<b, "release">> \in late PROVE FALSE
    OBVIOUS
  <2>1. b \in Held(d)  BY <1>1, <1>3, <1>5, LateIsHeld
  <2>2. QED  BY <1>1, <1>3, <2>1 DEF Partition
<1>7. Held(d)' = Held(d) \union {b} /\ Held(e)' = Held(e)
  <2>1. Held(d)' = Held(d) \union {b}  BY <1>4, <1>5 DEF Held, InHand
  <2>2. Held(e)' = Held(e)  BY <1>4 DEF Held, InHand
  <2>3. QED  BY <2>1, <2>2
<1>8. \A h : UNCHANGED Sending(h) /\ UNCHANGED Owned(h)  BY DEF Sending, Owned
<1>9. Partition(e)'  BY <1>1, <1>3, <1>4, <1>7, <1>8, SMT DEF Partition
<1>10. Partition(d)'  BY <1>1, <1>3, <1>4, <1>7, <1>8 DEF Partition, e
<1>11. /\ rx_queue' \in [Devs -> Seq(Pkt)] /\ pkt' \in [Devs -> Pkt \union {NULL}]
  BY <1>1, <1>3, <1>4 DEF Types, b
<1>12. QED  BY <1>3, <1>4, <1>6, <1>9, <1>10, <1>11, BothDevices DEF b, e

\* A buffer of h that the poll of its twin held is put into h's pool.
LEMMA Released ==
  ASSUME BufferInv, NEW h \in Devs, NEW p \in Pkt, p \in Held(Twin(h)),
         ppool' = [ppool EXCEPT ![h] = <<p>> \o @],
         Held(Twin(h))' = Held(Twin(h)) \ {p}, UNCHANGED Held(h),
         UNCHANGED <<rx_queue, dev, buf>>
  PROVE  ppool' \in [Devs -> Seq(Pkt)] /\ \A g \in Devs : Partition(g)'
<1> DEFINE e == Twin(h)
<1>1. /\ Types /\ Partition(h) /\ Partition(e) /\ e \in Devs /\ e # h /\ Twin(e) = h
  BY Devices DEF BufferInv
<1>2. ppool[h] \in Seq(Pkt) /\ IsInjective(ppool[h]) /\ p \notin Range(ppool[h])
  BY <1>1 DEF Types, Partition
<1>3. ppool'[h] = <<p>> \o ppool[h] /\ ppool'[e] = ppool[e]  BY <1>1 DEF Types
<1>4. /\ ppool'[h] \in Seq(Pkt) /\ IsInjective(ppool'[h])
      /\ Range(ppool'[h]) = {p} \union Range(ppool[h])
  BY <1>2, <1>3, PutFirst, SMT
<1>5. \A g : UNCHANGED Sending(g) /\ UNCHANGED Owned(g)  BY DEF Sending, Owned
<1>6. Partition(h)'  BY <1>1, <1>3, <1>4, <1>5, SMT DEF Partition
<1>7. Partition(e)'  BY <1>1, <1>3, <1>5 DEF Partition
<1>8. ppool' \in [Devs -> Seq(Pkt)]  BY <1>1, <1>3, <1>4 DEF Types
<1>9. QED  BY <1>6, <1>7, <1>8, BothDevices

LEMMA DequeueBuffers ==
  ASSUME BufferInv, NEW d \in Devs, Template(DequeueBuf(d))
  PROVE  BufferInv'
<1>1. /\ poll[d] = "loop" /\ rx_queue[d] # <<>>
      /\ pkt' = [pkt EXCEPT ![d] = Head(rx_queue[d])]
      /\ rx_queue' = [rx_queue EXCEPT ![d] = Tail(rx_queue[d])]
      /\ poll' = [poll EXCEPT ![d] = "release"]
      /\ data' = [data EXCEPT ![Head(rx_queue[d])] = NoSkb]
      /\ UNCHANGED <<lockup, up, stopped, ppool, dev, status, skb, locked, napi, tx, cur, buf,
                     word, count, late, oops>>
  BY DEF Template, own, DequeueBuf, Polling, MorePackets, priv, sending
<1>2. /\ rx_queue' \in [Devs -> Seq(Pkt)] /\ pkt' \in [Devs -> Pkt \union {NULL}]
      /\ Head(rx_queue[d]) \in Pkt /\ pkt'[d] = Head(rx_queue[d])
      /\ <<pkt'[d], "release">> \notin late
      /\ \A h \in Devs : Partition(h)'
  BY <1>1, Taken
<1>3. Types'
  <2>1. poll' \in [Devs -> {"loop", "release", "wake", "end", "complete"}]
    BY <1>1 DEF BufferInv, Types
  <2>2. data' \in [Pkt -> AllSkbs \union {NoSkb}]  BY <1>1, <1>2 DEF BufferInv, Types
  <2>3. QED  BY <1>1, <1>2, <2>1, <2>2 DEF BufferInv, Types
<1>4. Live' = Live  BY <1>1 DEF Live
<1>5. Hands'  BY <1>1, <1>2, <1>4 DEF BufferInv, Hands, Types
<1>6. QED  BY <1>2, <1>3, <1>5 DEF BufferInv

LEMMA ReleaseBuffers ==
  ASSUME BufferInv, NEW d \in Devs, Template(ReleaseBuffer(d))
  PROVE  BufferInv'
<1> DEFINE e == Twin(d)
<1>1. poll[d] = "release"  BY DEF Template, ReleaseBuffer
<1>2. pkt[d] \in Held(d) /\ pkt[d] \in Pkt /\ dev[pkt[d]] = e  BY <1>1, HandIsHeld
<1>3. /\ e \in Devs /\ e # d /\ Twin(e) = d  BY Devices
<1>4. /\ ppool' = [ppool EXCEPT ![e] = <<pkt[d]>> \o @]
      /\ poll' = [poll EXCEPT ![d] = "wake"]
      /\ UNCHANGED <<lockup, up, stopped, rx_queue, dev, data, status, skb, locked, napi, tx,
                     cur, buf, word, count, pkt, late, oops>>
  BY <1>2 DEF Template, own, ReleaseBuffer, Home, priv, sending
<1> HIDE DEF e
<1>5. /\ poll'[d] = "wake" /\ poll'[e] = poll[e]  BY <1>3, <1>4 DEF BufferInv, Types
<1>6. <<pkt[d], "release">> \notin late  BY <1>1 DEF BufferInv, Hands
<1>7. Held(d)' = Held(d) \ {pkt[d]}  BY <1>1, <1>4, <1>5, <1>6 DEF Held, InHand
<1>8. Held(e)' = Held(e)  BY <1>4, <1>5 DEF Held, InHand
<1>9. ppool' \in [Devs -> Seq(Pkt)] /\ \A g \in Devs : Partition(g)'
  BY <1>2, <1>3, <1>4, <1>7, <1>8, Released
<1>10. Types'
  <2>1. poll' \in [Devs -> {"loop", "release", "wake", "end", "complete"}]
    BY <1>4 DEF BufferInv, Types
  <2>2. QED  BY <1>4, <1>9, <2>1 DEF BufferInv, Types
<1>11. Live' = Live  BY <1>4 DEF Live
<1>12. Hands'  BY <1>4, <1>11 DEF BufferInv, Hands, Types
<1>13. QED  BY <1>9, <1>10, <1>12 DEF BufferInv

\* The rest of the poll holds no buffer.
LEMMA PollBuffers ==
  ASSUME BufferInv, NEW d \in Devs, Template(WakeQueue(d) \/ LoopEnd(d) \/ PollEnd(d))
  PROVE  BufferInv'
<1>1. Types  BY DEF BufferInv
<1>2. /\ poll[d] \in {"wake", "loop", "end"}
      /\ \E x \in {"loop", "end"} : poll' = [poll EXCEPT ![d] = x]
      /\ pkt' \in {pkt, [pkt EXCEPT ![d] = NULL]}
      /\ UNCHANGED <<lockup, up, ppool, rx_queue, dev, data, status, skb, locked, tx, cur, buf,
                     word, count, late, oops>>
  BY DEF Template, own, WakeQueue, LoopEnd, PollEnd, Polling, lists, priv, sending
<1>3. stopped' \in [Devs -> BOOLEAN]
  <2>1. CASE stopped' = stopped  BY <1>1, <2>1 DEF Types
  <2>2. CASE \E e : stopped' = Woken(e)  BY <1>1, <2>2 DEF Types, Woken
  <2>3. QED  BY <2>1, <2>2 DEF Template, WakeQueue, LoopEnd, PollEnd
<1>4. napi' \in [Devs -> {"off", "idle", "sched", "missed"}]
  <2>1. napi' \in {napi, [napi EXCEPT ![d] = Completed(napi[d])]}
    BY DEF Template, WakeQueue, LoopEnd, PollEnd
  <2>2. QED  BY <1>1, <2>1 DEF Types, Completed
<1>5. Types'
  <2>1. poll' \in [Devs -> {"loop", "release", "wake", "end", "complete"}]
    BY <1>1, <1>2 DEF Types
  <2>2. pkt' \in [Devs -> Pkt \union {NULL}]
    <3>1. pkt \in [Devs -> Pkt \union {NULL}]  BY <1>1 DEF Types
    <3>2. QED  BY <1>2, <3>1
  <2>3. QED  BY <1>1, <1>2, <1>3, <1>4, <2>1, <2>2 DEF Types
<1>6. \A e \in Devs : \/ poll'[e] = poll[e] /\ pkt'[e] = pkt[e]
                      \/ {poll[e], poll'[e]} \intersect {"release", "complete"} = {}
  BY <1>1, <1>2, SMT DEF Types
<1>7. \A e \in Devs : UNCHANGED Held(e)  BY <1>2, <1>6 DEF Held, InHand
<1>8. \A h \in Devs : Partition(h)'
  BY <1>2, <1>7, PartitionKept, Devices DEF BufferInv
<1>9. Live' = Live  BY <1>2 DEF Live
<1>10. Hands'  BY <1>2, <1>6, <1>9 DEF BufferInv, Hands
<1>11. QED  BY <1>5, <1>8, <1>10 DEF BufferInv

LEMMA NativeTakes ==
  ASSUME BufferInv, ~oops, NEW d \in Devs, kxdp_native_rx_cons_buf(d)
  PROVE  BufferInv'
<1> DEFINE b == First(rx_queue[d])
<1>1. Types /\ Hands  BY DEF BufferInv
<1>2. /\ poll[d] = "loop"
      /\ rx_queue' = [rx_queue EXCEPT ![d] = AfterCons(d)]
      /\ pkt' = [pkt EXCEPT ![d] = b]
      /\ poll' = [poll EXCEPT ![d] = "complete"]
      /\ data' = [p \in Pkt |-> IF p = b THEN NoSkb ELSE data[p]]
      /\ UNCHANGED <<lockup, up, stopped, ppool, dev, status, skb, locked, napi, tx, cur, buf,
                     word, count, late>>
  BY DEF kxdp_native_rx_cons_buf, Polling, priv, sending
<1>3. oops' \in BOOLEAN /\ (b = NULL => oops')
  BY DEF kxdp_native_rx_cons_buf
<1>4. /\ poll' \in [Devs -> {"loop", "release", "wake", "end", "complete"}]
      /\ data' \in [Pkt -> AllSkbs \union {NoSkb}]
  BY <1>1, <1>2 DEF Types
<1>5. Live' = Live  BY <1>2 DEF Live
<1>6. CASE rx_queue[d] # <<>>
  <2>1. b = Head(rx_queue[d]) /\ AfterCons(d) = Tail(rx_queue[d])
    BY <1>6 DEF First, AfterCons
  <2>2. /\ rx_queue' \in [Devs -> Seq(Pkt)] /\ pkt' \in [Devs -> Pkt \union {NULL}]
        /\ Head(rx_queue[d]) \in Pkt /\ pkt'[d] = Head(rx_queue[d])
        /\ <<pkt'[d], "release">> \notin late
        /\ \A h \in Devs : Partition(h)'
    BY <1>2, <1>6, <2>1, Taken
  <2>3. Types'  BY <1>1, <1>2, <1>3, <1>4, <2>2 DEF Types
  <2>4. pkt'[d] # NULL  BY <2>2, BuffersAre
  <2>5. Hands'
    <3> HIDE DEF b
    <3>1. \A e \in Devs : e # d => poll'[e] = poll[e] /\ pkt'[e] = pkt[e]
      BY <1>1, <1>2 DEF Types
    <3>2. QED  BY <1>1, <1>2, <1>5, <2>2, <2>4, <3>1 DEF Hands
  <2>6. QED  BY <2>2, <2>3, <2>5 DEF BufferInv
<1>7. CASE rx_queue[d] = <<>>
  <2>1. b = NULL /\ AfterCons(d) = <<>>  BY <1>7 DEF First, AfterCons
  <2>2. rx_queue' = rx_queue /\ pkt' = [pkt EXCEPT ![d] = NULL] /\ oops'
    BY <1>1, <1>2, <1>3, <1>7, <2>1 DEF Types
  <2> HIDE DEF b
  <2>3. Types'
    <3>1. pkt' \in [Devs -> Pkt \union {NULL}]  BY <1>1, <2>2 DEF Types
    <3>2. QED  BY <1>1, <1>2, <1>3, <1>4, <2>2, <3>1 DEF Types
  <2>4. /\ pkt'[d] = NULL /\ poll'[d] = "complete"
        /\ \A e \in Devs : e # d => poll'[e] = poll[e] /\ pkt'[e] = pkt[e]
    BY <1>1, <1>2, <2>2, ZenonT(30) DEF Types
  <2>5. \A e \in Devs : UNCHANGED Held(e)  BY <1>2, <2>4 DEF Held, InHand
  <2>6. \A h \in Devs : Partition(h)'
    BY <1>2, <2>2, <2>5, PartitionKept, Devices DEF BufferInv
  <2>7. <<NULL, "release">> \notin late  BY <1>1, BuffersAre DEF Types
  <2>8. Hands'  BY <1>1, <1>2, <1>5, <2>2, <2>4, <2>7 DEF Hands
  <2>9. QED  BY <2>3, <2>6, <2>8 DEF BufferInv
<1>8. QED  BY <1>6, <1>7

LEMMA NativeCompletes ==
  ASSUME BufferInv, ~oops, NEW d \in Devs, kxdp_native_poll(d)
  PROVE  BufferInv'
<1> DEFINE b == pkt[d]
           e == Twin(d)
<1>1. Types /\ Hands /\ e \in Devs /\ e # d /\ Twin(e) = d  BY Devices DEF BufferInv
<1>2. /\ poll[d] = "complete"
      /\ napi' = [napi EXCEPT ![d] = Completed(@)]
      /\ poll' = [poll EXCEPT ![d] = "loop"]
      /\ late' = late \union {<<b, "release">>} /\ pkt' = [pkt EXCEPT ![d] = NULL]
      /\ UNCHANGED <<lockup, up, stopped, ppool, rx_queue, dev, data, status, skb, locked, tx,
                     cur, buf, word, count, oops>>
  BY DEF kxdp_native_poll, lists, priv, sending
<1>3. b # NULL  BY <1>1, <1>2 DEF Hands
<1>4. b \in Held(d) /\ b \in Pkt /\ dev[b] = e  BY <1>2, <1>3, HandIsHeld
<1>5. poll[e] \in {"release", "complete"} => pkt[e] # b
  <2> SUFFICES ASSUME poll[e] \in {"release", "complete"} PROVE pkt[e] # b
    OBVIOUS
  <2>1. poll[e] = "release" \/ (poll[e] = "complete" /\ pkt[e] # NULL)
    BY <1>1 DEF Hands
  <2>2. dev[pkt[e]] = d  BY <1>1, <2>1, HandIsHeld
  <2>3. QED  BY <1>1, <1>4, <2>2
<1> HIDE DEF b, e
<1>6. /\ pkt'[d] = NULL /\ poll'[d] = "loop" /\ poll'[e] = poll[e] /\ pkt'[e] = pkt[e]
  BY <1>1, <1>2 DEF Types
<1>7. Types'
  <2>1. napi' \in [Devs -> {"off", "idle", "sched", "missed"}]
    BY <1>1, <1>2 DEF Types, Completed
  <2>2. /\ poll' \in [Devs -> {"loop", "release", "wake", "end", "complete"}]
        /\ pkt' \in [Devs -> Pkt \union {NULL}]
    BY <1>1, <1>2 DEF Types
  <2>3. late' \subseteq Pkt \X {"release", "wake"}  BY <1>1, <1>2, <1>4, SMT DEF Types
  <2>4. QED  BY <1>1, <1>2, <2>1, <2>2, <2>3 DEF Types
<1>8. Held(d)' = Held(d)
  BY <1>1, <1>2, <1>3, <1>4, <1>6 DEF Held, InHand, b, e
<1>9. Held(e)' = Held(e)
  <2>1. \A p \in Pkt : <<p, "release">> \in late' /\ dev[p] = d
                         <=> <<p, "release">> \in late /\ dev[p] = d
    BY <1>1, <1>2, <1>4
  <2>2. QED  BY <1>1, <1>2, <1>6, <2>1 DEF Held, InHand
<1>10. \A h \in Devs : UNCHANGED Held(Twin(h))
  BY <1>1, <1>8, <1>9 DEF Devs, Twin, e
<1>11. \A h \in Devs : Partition(h)'  BY <1>2, <1>10, PartitionKept DEF BufferInv
<1>12. Hands'
  <2>1. Live' = Live /\ b \in Live  BY <1>1, <1>2, <1>4 DEF Live
  <2>2. \A g \in Devs : g = d \/ g = e  BY SMT DEF Devs, Twin, e
  <2>3. \A g \in Devs : tx'[g] = "copy" <=> buf'[g] # NULL  BY <1>1, <1>2 DEF Hands
  <2>4. \A g \in Devs : poll'[g] = "complete" /\ ~oops' => pkt'[g] # NULL
    BY <1>1, <1>2, <1>6, <2>2 DEF Hands
  <2>5. \A g \in Devs : poll'[g] \in {"release", "complete"} => <<pkt'[g], "release">> \notin late'
    BY <1>1, <1>2, <1>5, <1>6, <2>2, SMT DEF Hands
  <2>6. \A p \in Pkt : <<p, "release">> \in late' => p \in Live'
    BY <1>1, <1>2, <2>1 DEF Hands
  <2>7. QED  BY <2>3, <2>4, <2>5, <2>6 DEF Hands
<1>13. QED  BY <1>7, <1>11, <1>12, SMT DEF BufferInv

LEMMA NativeReleases ==
  ASSUME BufferInv, ~oops, NEW h \in Devs, kxdp_native_tx_release_buffer(h)
  PROVE  BufferInv'
<1> DEFINE e == Twin(h)
<1>1. Types /\ Hands /\ e \in Devs /\ e # h /\ Twin(e) = h  BY Devices, SMT DEF BufferInv
<1>2. UNCHANGED <<lockup, up, rx_queue, dev, data, status, skb, locked, napi, tx, cur, buf,
                  word, count, poll, pkt, oops>>
  BY DEF kxdp_native_tx_release_buffer, priv, sending, polling
<1>3. Live' = Live  BY <1>2 DEF Live
<1>4. PICK p \in Pkt :
        \/ /\ <<p, "release">> \in late /\ dev[p] = h
           /\ ppool' = [ppool EXCEPT ![h] = <<p>> \o @]
           /\ late' = (late \ {<<p, "release">>}) \union {<<p, "wake">>}
           /\ UNCHANGED stopped
        \/ /\ <<p, "wake">> \in late
           /\ stopped' \in {stopped, Woken(h)}
           /\ late' = late \ {<<p, "wake">>}
           /\ UNCHANGED ppool
  BY DEF kxdp_native_tx_release_buffer
<1>5. stopped' \in [Devs -> BOOLEAN]
  <2>1. stopped \in [Devs -> BOOLEAN] /\ Woken(h) \in [Devs -> BOOLEAN]
    BY <1>1 DEF Types, Woken
  <2>2. QED  BY <1>4, <2>1
<1>6. late' \subseteq Pkt \X {"release", "wake"}  BY <1>1, <1>4, SMT DEF Types
<1>7. Hands'
  <2>1. \A q \in Pkt \union {NULL} : <<q, "release">> \in late' => <<q, "release">> \in late
    BY <1>4, SMT
  <2>2. \A g \in Devs : pkt[g] \in Pkt \union {NULL}  BY <1>1 DEF Types
  <2>3. QED  BY <1>1, <1>2, <1>3, <2>1, <2>2 DEF Hands
<1> HIDE DEF e
<1>8. CASE <<p, "release">> \in late /\ dev[p] = h
           /\ ppool' = [ppool EXCEPT ![h] = <<p>> \o @]
           /\ late' = (late \ {<<p, "release">>}) \union {<<p, "wake">>}
  <2>1. p \in Held(e)  BY <1>1, <1>8, LateIsHeld DEF e
  <2>2. poll[e] \in {"release", "complete"} => pkt[e] # p  BY <1>1, <1>8 DEF Hands
  <2>3. \A q \in Pkt : <<q, "release">> \in late' <=> <<q, "release">> \in late /\ q # p
    BY <1>8
  <2>4. Held(e)' = Held(e) \ {p}  BY <1>1, <1>2, <2>2, <2>3 DEF Held, InHand
  <2>5. Held(h)' = Held(h)  BY <1>1, <1>2, <1>8, <2>3 DEF Held, InHand, e
  <2>6. ppool' \in [Devs -> Seq(Pkt)] /\ \A g \in Devs : Partition(g)'
    BY <1>1, <1>2, <1>8, <2>1, <2>4, <2>5, Released DEF e
  <2>7. QED  BY <1>1, <1>2, <1>5, <1>6, <1>7, <2>6 DEF BufferInv, Types
<1>9. CASE late' = late \ {<<p, "wake">>} /\ UNCHANGED ppool
  <2>1. \A q \in Pkt : <<q, "release">> \in late' <=> <<q, "release">> \in late
    BY <1>9
  <2>2. \A g \in Devs : UNCHANGED Held(g)  BY <1>2, <2>1 DEF Held, InHand
  <2>3. \A g \in Devs : Partition(g)'
    BY <1>2, <1>9, <2>2, PartitionKept, Devices DEF BufferInv
  <2>4. QED  BY <1>1, <1>2, <1>5, <1>6, <1>7, <1>9, <2>3 DEF BufferInv, Types
<1>10. QED  BY <1>4, <1>8, <1>9

LEMMA BuffersInitially == PairInit => BufferInv
<1> SUFFICES ASSUME PairInit PROVE BufferInv
  OBVIOUS
<1>1. Init /\ late = {} /\ oops = FALSE  BY DEF PairInit
<1>2. /\ pool_size \in Nat \ {0} /\ 1 .. 2 * pool_size \subseteq Pkt /\ Pkt \subseteq Nat \ {0}
  BY DummVethAssumption
<1>3. \A d \in Devs : /\ ppool[d] \in Seq(Pkt) /\ IsInjective(ppool[d])
                      /\ Range(ppool[d]) = Owned(d)
  <2> SUFFICES ASSUME NEW d \in Devs
               PROVE  /\ ppool[d] \in Seq(Pkt) /\ IsInjective(ppool[d])
                      /\ Range(ppool[d]) = Owned(d)
    OBVIOUS
  <2>1. ppool[d] = [k \in 1 .. pool_size |-> (d + 1) * pool_size + 1 - k]
    BY <1>1 DEF Init
  <2>2. d = 0 \/ d = 1  BY DEF Devs
  <2>3. \A k \in 1 .. pool_size : (d + 1) * pool_size + 1 - k \in 1 .. 2 * pool_size
    BY <1>2, <2>2, SMT
  <2>4. ppool[d] \in [1 .. pool_size -> Pkt]  BY <1>2, <2>1, <2>3
  <2>5. ppool[d] \in Seq(Pkt)  BY <1>2, <2>4, SeqDef
  <2>6. IsInjective(ppool[d])
    <3>1. (d + 1) * pool_size \in Int  BY <1>2, <2>2, SMT
    <3>2. \A j, k \in 1 .. pool_size :
            (d + 1) * pool_size + 1 - j = (d + 1) * pool_size + 1 - k => j = k
      BY <1>2, <3>1, SMT
    <3>3. QED  BY <2>1, <3>2, SMT DEF IsInjective
  <2>7. dev = [p \in Pkt |-> IF p <= pool_size THEN 0
                             ELSE IF p <= 2 * pool_size THEN 1 ELSE -1]
    BY <1>1 DEF Init
  <2>8. ASSUME NEW p \in Range(ppool[d])  PROVE p \in Owned(d)
    <3>1. PICK k \in 1 .. pool_size : p = (d + 1) * pool_size + 1 - k
      BY <2>1, <2>8 DEF Range
    <3>2. p \in Pkt  BY <1>2, <2>3, <3>1
    <3>3. CASE d = 0
      <4>1. p <= pool_size  BY <1>2, <3>1, <3>3, SMT
      <4>2. QED  BY <2>7, <3>2, <3>3, <4>1 DEF Owned
    <3>4. CASE d = 1
      <4>1. p > pool_size /\ p <= 2 * pool_size /\ p \in Int  BY <1>2, <3>1, <3>4, SMT
      <4>2. dev[p] = 1  BY <1>2, <2>7, <3>2, <4>1, SMT
      <4>3. QED  BY <3>2, <3>4, <4>2 DEF Owned
    <3>5. QED  BY <2>2, <3>3, <3>4
  <2>9. ASSUME NEW p \in Owned(d)  PROVE p \in Range(ppool[d])
    <3>1. p \in Pkt /\ dev[p] = d /\ p \in Nat /\ p # 0  BY <1>2, <2>9 DEF Owned
    <3>2. CASE d = 0
      <4>1. p <= pool_size  BY <1>2, <2>7, <3>1, <3>2, SMT
      <4>2. pool_size + 1 - p \in 1 .. pool_size
            /\ p = (d + 1) * pool_size + 1 - (pool_size + 1 - p)
        BY <1>2, <3>1, <3>2, <4>1, SMT
      <4>3. QED  BY <2>1, <4>2 DEF Range
    <3>3. CASE d = 1
      <4>1. p > pool_size /\ p <= 2 * pool_size  BY <1>2, <2>7, <3>1, <3>3, SMT
      <4>2. 2 * pool_size + 1 - p \in 1 .. pool_size
            /\ p = (d + 1) * pool_size + 1 - (2 * pool_size + 1 - p)
        BY <1>2, <3>1, <3>3, <4>1, SMT
      <4>3. QED  BY <2>1, <4>2 DEF Range
    <3>4. QED  BY <2>2, <3>2, <3>3
  <2>10. QED  BY <2>5, <2>6, <2>8, <2>9
<1>4. /\ \A d \in Devs : rx_queue[d] = <<>> /\ buf[d] = NULL /\ poll[d] = "loop" /\ tx[d] = "idle"
      /\ ppool \in [Devs -> Seq(Pkt)]
  BY <1>1, <1>3 DEF Init
<1>5. Types
  <2>1. dev \in [Pkt -> Devs \union {-1}]  BY <1>1 DEF Init, Devs
  <2>2. /\ rx_queue \in [Devs -> Seq(Pkt)] /\ buf \in [Devs -> Pkt \union {NULL}]
        /\ pkt \in [Devs -> Pkt \union {NULL}]
    BY <1>1, SMT DEF Init
  <2>3. /\ data \in [Pkt -> AllSkbs \union {NoSkb}] /\ skb \in [Devs -> AllSkbs \union {NoSkb}]
        /\ cur \in [Devs -> AllSkbs \union {NoSkb}]
    BY <1>1 DEF Init
  <2>4. lockup \in Nat  BY <1>1, DummVethAssumption DEF Init
  <2>5. QED  BY <1>1, <1>4, <2>1, <2>2, <2>3, <2>4 DEF Types, Init
<1>6. Hands  BY <1>1, <1>4 DEF Hands
<1>7. ASSUME NEW h \in Devs  PROVE Partition(h)
  <2>1. Twin(h) \in Devs  BY Devices
  <2>2. Held(Twin(h)) = {} /\ Sending(h) = {}
    BY <1>1, <1>4, <2>1 DEF Held, InHand, Sending
  <2>3. Range(rx_queue[Twin(h)]) = {} /\ IsInjective(rx_queue[h])
    BY <1>4, <2>1, SMT DEF Range, IsInjective
  <2>4. QED  BY <1>3, <2>2, <2>3 DEF Partition
<1>8. QED  BY <1>5, <1>6, <1>7 DEF BufferInv

\* The steps again, by what they do to the buffers.
LEMMA StepKinds ==
  ASSUME NEW d \in Devs, AnyStep(d)
  PROVE  \/ QuietStep(d)
         \/ Template(Xmit(d)) \/ Template(EnqueueBuf(d))
         \/ \E new \in NewPools : Template(RefillPool(d, new))
         \/ Template(DequeueBuf(d)) \/ Template(ReleaseBuffer(d))
         \/ Template(WakeQueue(d) \/ LoopEnd(d) \/ PollEnd(d))
         \/ kxdp_native_rx_cons_buf(d) \/ kxdp_native_poll(d)
         \/ kxdp_native_tx_release_buffer(d)
BY DEF AnyStep, CoreStep, NativeStep, QuietStep, TxStep, WatchdogStep, PollStep, Template

LEMMA BuffersInductive == BufferInv /\ [PairNext]_pairVars => BufferInv'
<1> SUFFICES ASSUME BufferInv, [PairNext]_pairVars PROVE BufferInv'
  OBVIOUS
<1>1. CASE UNCHANGED pairVars
  <2>1. Types /\ Hands /\ \A h \in Devs : Partition(h)  BY DEF BufferInv
  <2>2. UNCHANGED <<lists, priv, sending, polling, own, lockup, up, stopped, napi>>
    BY <1>1 DEF pairVars, vars
  <2>3. Types'  BY <2>1, <2>2 DEF lists, priv, sending, polling, own, Types
  <2>4. Hands'  BY <2>1, <2>2 DEF lists, priv, sending, polling, own, Hands, Live, Owned
  <2>5. ASSUME NEW h \in Devs PROVE Partition(h)'
    <3>1. UNCHANGED <<ppool, rx_queue, dev, buf, poll, pkt, late>>
      BY <2>2 DEF lists, sending, polling, own
    <3>2. UNCHANGED <<Sending(h), Owned(h), Held(Twin(h))>>
      BY <3>1 DEF Sending, Owned, Held, InHand
    <3>3. QED  BY <2>1, <3>1, <3>2 DEF Partition
  <2>6. QED  BY <2>3, <2>4, <2>5 DEF BufferInv
<1>2. CASE PairNext
  <2>1. PICK d \in Devs : AnyStep(d)  BY <1>2, StepOfDriver
  <2>2. ~oops  BY <1>2, StepOfDriver
  <2>3. QED
    BY <2>1, <2>2, StepKinds, QuietBuffers, XmitBuffers, EnqueueBuffers, RefillBuffers,
       DequeueBuffers, ReleaseBuffers, PollBuffers, NativeTakes, NativeCompletes,
       NativeReleases
<1>3. QED  BY <1>1, <1>2

LEMMA BuffersInvariant == PairSpec => []BufferInv
BY BuffersInitially, BuffersInductive, PTL DEF PairSpec

-----------------------------------------------------------------------------
(* The contents of the buffers.                                            *)

LEMMA SkbIs ==
  ASSUME NEW s \in AllSkbs
  PROVE  /\ s[1] \in Devs /\ s[2] \in Nat \ {0} /\ s[2] <= MaxSend[s[1]]
         /\ s = <<s[1], s[2]>> /\ s # NoSkb
<1>1. MaxSend \in [Devs -> Nat]  BY DummVethAssumption
<1>2. PICK d \in Devs : s \in Skbs(d)  BY DEF AllSkbs, Devs
<1>3. PICK n \in 1 .. MaxSend[d] : s = <<d, n>>  BY <1>2 DEF Skbs
<1>4. QED  BY <1>1, <1>3, SMT DEF NoSkb

LEMMA SkbOf ==
  ASSUME NEW d \in Devs, NEW n \in Nat \ {0}, n <= MaxSend[d]
  PROVE  <<d, n>> \in AllSkbs
<1>1. MaxSend[d] \in Nat  BY DummVethAssumption
<1>2. n \in 1 .. MaxSend[d]  BY <1>1, SMT
<1>3. QED  BY <1>2 DEF AllSkbs, Skbs, Devs

LEMMA SentIs ==
  \A s : s \in Sent <=> /\ s \in AllSkbs /\ s[2] <= count[s[1]]
                        /\ \A d \in Devs : s # cur[d]
                        /\ s \notin given
BY DEF Sent

LEMMA KnownIs ==
  \A s : s \in Known <=> \/ \E p \in Pkt : data[p] # NoSkb /\ s = data[p]
                         \/ s \in received \/ s \in dropped
BY DEF Known

LEMMA DataKept ==
  ASSUME DataInv, Types, \A e \in Devs : tx'[e] = "copy" <=> tx[e] = "copy",
         UNCHANGED <<rx_queue, data, cur, count, given, received, dropped, locked>>
  PROVE  DataInv'
<1>1. UNCHANGED <<Known, Sent>>  BY DEF Known, Sent
<1>2. cur' = [d \in Devs |-> IF tx'[d] = "copy" THEN <<d, count'[d]>> ELSE NoSkb]
  BY DEF DataInv
<1>3. QED  BY <1>1, <1>2 DEF DataInv

\* Another skb is handed to d, whether it is given up, dropped or to be sent.
LEMMA AnotherSkb ==
  ASSUME DataInv, Types, NEW d \in Devs, tx[d] = "idle", count[d] < MaxSend[d],
         count' = [count EXCEPT ![d] = @ + 1]
  PROVE  /\ <<d, count[d] + 1>> \in AllSkbs /\ count[d] + 1 <= MaxSend[d]
         /\ count' \in [Devs -> Nat] /\ count'[d] = count[d] + 1
         /\ \A e \in Devs : count'[e] <= MaxSend[e] /\ count[e] <= count'[e]
         /\ \A s \in AllSkbs : s[2] <= count'[s[1]]
                               <=> s[2] <= count[s[1]] \/ s = <<d, count[d] + 1>>
         /\ <<d, count[d] + 1>> \notin Sent
         /\ cur[d] = NoSkb /\ cur \in [Devs -> AllSkbs \union {NoSkb}]
<1>1. MaxSend \in [Devs -> Nat] /\ count \in [Devs -> Nat]
  BY DummVethAssumption DEF Types
<1>2. <<d, count[d] + 1>> \in AllSkbs  BY <1>1, NextSkb
<1>3. count' \in [Devs -> Nat] /\ count'[d] = count[d] + 1
      /\ \A e \in Devs \ {d} : count'[e] = count[e]
  BY <1>1, SMT
<1>4. \A e \in Devs : count'[e] <= MaxSend[e] /\ count[e] <= count'[e]
  BY <1>1, <1>3, SMT DEF DataInv
<1>5. ASSUME NEW s \in AllSkbs
      PROVE  s[2] <= count'[s[1]] <=> s[2] <= count[s[1]] \/ s = <<d, count[d] + 1>>
  <2>1. s[1] \in Devs /\ s[2] \in Nat /\ s = <<s[1], s[2]>>  BY SkbIs
  <2>2. CASE s[1] = d
    <3>1. s[2] <= count[d] + 1 <=> s[2] <= count[d] \/ s[2] = count[d] + 1
      BY <1>1, <2>1, SMT
    <3>2. s = <<d, count[d] + 1>> <=> s[2] = count[d] + 1  BY <2>1, <2>2, SMT
    <3>3. QED  BY <1>3, <2>2, <3>1, <3>2
  <2>3. CASE s[1] # d
    <3>1. s # <<d, count[d] + 1>>  BY <2>1, <2>3, SMT
    <3>2. QED  BY <1>3, <2>1, <2>3, <3>1
  <2>4. QED  BY <2>2, <2>3
<1>6. <<d, count[d] + 1>> \notin Sent
  <2>1. ~ (count[d] + 1 <= count[d])  BY <1>1, SMT
  <2>2. QED  BY <2>1, SentIs, SMT
<1>7. cur[d] = NoSkb  BY DEF DataInv
<1>8. QED  BY <1>1, <1>2, <1>3, <1>4, <1>5, <1>6, <1>7 DEF Types

LEMMA OutOfPoolData ==
  ASSUME DataInv, Types, NEW d \in Devs, Template(XmitOutOfPool(d))
  PROVE  DataInv'
<1> DEFINE n == <<d, count[d] + 1>>
<1>1. /\ tx[d] = "idle" /\ count[d] < MaxSend[d] /\ count' = [count EXCEPT ![d] = @ + 1]
      /\ locked' = [locked EXCEPT ![d] = TRUE]
      /\ UNCHANGED <<tx, cur, rx_queue, data, received, dropped, given>>
  BY DEF Template, XmitOutOfPool, Handed, sorted
<1>2. /\ count' \in [Devs -> Nat] /\ cur[d] = NoSkb
      /\ \A e \in Devs : count'[e] <= MaxSend[e] /\ count[e] <= count'[e]
      /\ \A s \in AllSkbs : s[2] <= count'[s[1]] <=> s[2] <= count[s[1]] \/ s = n
  BY <1>1, AnotherSkb
<1>3. \A e \in Devs : e # d => count'[e] = count[e]  BY <1>1 DEF Types
<1> HIDE DEF n
<1>4. locked'[d]  BY <1>1 DEF Types
<1>5. Known' = Known /\ Sent \subseteq Sent'
  <2>1. Known' = Known  BY <1>1 DEF Known
  <2>2. ASSUME NEW s \in Sent  PROVE s \in Sent'
    <3>1. s \in AllSkbs /\ s[2] <= count[s[1]] /\ (\A e \in Devs : s # cur[e]) /\ s \notin given
      BY <2>2, SentIs
    <3>2. s[2] <= count'[s[1]]  BY <1>2, <3>1
    <3>3. QED  BY <1>1, <3>1, <3>2 DEF Sent
  <2>3. QED  BY <2>1, <2>2
<1>6. cur' = [e \in Devs |-> IF tx'[e] = "copy" THEN <<e, count'[e]>> ELSE NoSkb]
  <2>1. \A e \in Devs : tx'[e] = "copy" => e # d  BY <1>1
  <2>2. QED  BY <1>1, <1>3, <2>1 DEF DataInv
<1>7. \A e \in Devs : tx'[e] = "copy" => count'[e] >= 1  BY <1>1, <1>3 DEF DataInv
<1>8. \A s \in given' : s \in AllSkbs /\ s[2] <= count'[s[1]] /\ s # cur'[s[1]]
  BY <1>1, <1>2 DEF DataInv
<1>9. QED  BY <1>1, <1>2, <1>4, <1>5, <1>6, <1>7, <1>8 DEF DataInv

LEMMA GivenUpData ==
  ASSUME DataInv, Types, NEW d \in Devs, GiveUp(d)
  PROVE  DataInv'
<1> DEFINE n == <<d, count[d] + 1>>
<1>1. /\ tx[d] = "idle" /\ count[d] < MaxSend[d] /\ count' = [count EXCEPT ![d] = @ + 1]
      /\ given' = given \union {n}
      /\ UNCHANGED <<tx, cur, rx_queue, data, received, dropped, locked>>
  BY DEF GiveUp, Handed, sorted
<1>2. /\ count' \in [Devs -> Nat] /\ cur[d] = NoSkb /\ n \in AllSkbs /\ n \notin Sent
      /\ \A e \in Devs : count'[e] <= MaxSend[e] /\ count[e] <= count'[e]
      /\ \A s \in AllSkbs : s[2] <= count'[s[1]] <=> s[2] <= count[s[1]] \/ s = n
  BY <1>1, AnotherSkb
<1>3. \A e \in Devs : e # d => count'[e] = count[e]  BY <1>1 DEF Types
<1>4. n[1] = d /\ n # NoSkb  BY <1>2, SkbIs
<1> HIDE DEF n
<1>5. UNCHANGED <<Known, Sent>>
  <2>1. Known' = Known  BY <1>1 DEF Known
  <2>2. \A s : s \in Sent' <=> /\ s \in AllSkbs /\ s[2] <= count'[s[1]]
                               /\ (\A e \in Devs : s # cur[e]) /\ s \notin given /\ s # n
    BY <1>1 DEF Sent
  <2>3. \A s : s \in Sent' <=> s \in Sent  BY <1>2, <2>2, SentIs
  <2>4. QED  BY <2>1, <2>3
<1>6. cur' = [e \in Devs |-> IF tx'[e] = "copy" THEN <<e, count'[e]>> ELSE NoSkb]
  <2>1. \A e \in Devs : tx'[e] = "copy" => e # d  BY <1>1
  <2>2. QED  BY <1>1, <1>3, <2>1 DEF DataInv
<1>7. \A e \in Devs : tx'[e] = "copy" => count'[e] >= 1  BY <1>1, <1>3 DEF DataInv
<1>8. \A s \in given' : s \in AllSkbs /\ s[2] <= count'[s[1]] /\ s # cur'[s[1]]
  BY <1>1, <1>2, <1>4 DEF DataInv
<1>9. QED  BY <1>1, <1>2, <1>5, <1>6, <1>7, <1>8 DEF DataInv

LEMMA XmitData ==
  ASSUME DataInv, Types, NEW d \in Devs, Template(Xmit(d))
  PROVE  DataInv'
<1> DEFINE n == <<d, count[d] + 1>>
<1>1. /\ tx[d] = "idle" /\ count[d] < MaxSend[d] /\ count' = [count EXCEPT ![d] = @ + 1]
      /\ cur' = [cur EXCEPT ![d] = n] /\ tx' = [tx EXCEPT ![d] = "copy"]
      /\ UNCHANGED <<rx_queue, data, received, dropped, locked, given>>
  BY DEF Template, Xmit, Handed, sorted, Goto
<1>2. /\ count' \in [Devs -> Nat] /\ cur[d] = NoSkb /\ n \in AllSkbs /\ n \notin Sent
      /\ \A e \in Devs : count'[e] <= MaxSend[e] /\ count[e] <= count'[e]
      /\ \A s \in AllSkbs : s[2] <= count'[s[1]] <=> s[2] <= count[s[1]] \/ s = n
      /\ cur \in [Devs -> AllSkbs \union {NoSkb}] /\ count'[d] = count[d] + 1
  BY <1>1, AnotherSkb
<1>3. /\ \A e \in Devs : e # d => count'[e] = count[e] /\ cur'[e] = cur[e] /\ tx'[e] = tx[e]
      /\ cur'[d] = n /\ tx'[d] = "copy" /\ count[d] \in Nat
  BY <1>1, <1>2 DEF Types
<1>4. n \notin given /\ n[1] = d
  <2>1. ~ (count[d] + 1 <= count[d])  BY <1>3, SMT
  <2>2. QED  BY <2>1 DEF DataInv
<1>5. cur' = [e \in Devs |-> IF tx'[e] = "copy" THEN <<e, count'[e]>> ELSE NoSkb]
  <2>1. cur' \in [Devs -> AllSkbs \union {NoSkb}]  BY <1>1, <1>2
  <2>2. \A e \in Devs : cur[e] = IF tx[e] = "copy" THEN <<e, count[e]>> ELSE NoSkb
    BY DEF DataInv
  <2>3. ASSUME NEW e \in Devs
        PROVE  cur'[e] = IF tx'[e] = "copy" THEN <<e, count'[e]>> ELSE NoSkb
    <3>1. CASE e = d  BY <1>2, <1>3, <3>1
    <3>2. CASE e # d  BY <1>3, <2>2, <3>2
    <3>3. QED  BY <3>1, <3>2
  <2>4. QED  BY <2>1, <2>3
<1>6. ASSUME NEW e \in Devs, tx'[e] = "copy"  PROVE count'[e] >= 1
  <2>1. CASE e = d  BY <1>2, <1>3, <2>1, SMT
  <2>2. CASE e # d  BY <1>3, <1>6, <2>2 DEF DataInv
  <2>3. QED  BY <2>1, <2>2
<1> HIDE DEF n
<1>7. UNCHANGED <<Known, Sent>>
  <2>1. Known' = Known  BY <1>1 DEF Known
  <2>2. \A s : s \in Sent' <=> /\ s \in AllSkbs /\ s[2] <= count'[s[1]]
                               /\ (\A e \in Devs : s # cur'[e]) /\ s \notin given
    BY <1>1 DEF Sent
  <2>3. \A s \in AllSkbs : s # NoSkb  BY SkbIs
  <2>4. \A s \in AllSkbs : (\A e \in Devs : s # cur'[e])
                           <=> (\A e \in Devs : s # cur[e]) /\ s # n
    BY <1>2, <1>3, <2>3
  <2>5. \A s : s \in Sent' <=> s \in Sent  BY <1>2, <2>2, <2>4, SentIs
  <2>6. QED  BY <2>1, <2>5
<1>8. \A s \in given' : s \in AllSkbs /\ s[2] <= count'[s[1]] /\ s # cur'[s[1]]
  <2>1. \A s \in given : s \in AllSkbs /\ s[2] <= count[s[1]] /\ s # cur[s[1]] /\ s # n
    BY <1>4 DEF DataInv
  <2>2. \A s \in given : s[1] \in Devs  BY <2>1, SkbIs
  <2>3. QED  BY <1>1, <1>2, <1>3, <2>1, <2>2
<1>9. QED  BY <1>1, <1>2, <1>5, <1>6, <1>7, <1>8 DEF DataInv

\* The buffer of a transmission is on no receive queue.
LEMMA SendingIsAway ==
  ASSUME BufferInv, NEW d \in Devs, tx[d] = "copy"
  PROVE  /\ buf[d] \in Pkt /\ buf[d] # NULL /\ dev[buf[d]] = d
         /\ \A e \in Devs : buf[d] \notin Range(rx_queue[e])
<1>1. buf[d] \in Pkt /\ buf[d] # NULL  BY DEF BufferInv, Types, Hands
<1>2. buf[d] \in Sending(d)  BY <1>1 DEF Sending
<1>3. Partition(d) /\ Partition(Twin(d)) /\ Twin(Twin(d)) = d /\ Twin(d) # d
  BY Devices DEF BufferInv
<1>4. dev[buf[d]] = d  BY <1>2, <1>3 DEF Partition, Owned
<1>5. buf[d] \notin Range(rx_queue[Twin(d)])  BY <1>2, <1>3 DEF Partition
<1>6. buf[d] \notin Range(rx_queue[d])  BY <1>3, <1>4 DEF Partition, Owned
<1>7. QED  BY <1>1, <1>4, <1>5, <1>6, SMT DEF Devs, Twin

LEMMA EnqueueData ==
  ASSUME DataInv, BufferInv, NEW d \in Devs, Template(EnqueueBuf(d))
  PROVE  DataInv'
<1> DEFINE b == buf[d]
           t == Twin(d)
           s == cur[d]
<1>1. /\ tx[d] = "copy" /\ data' = [data EXCEPT ![b] = s]
      /\ rx_queue' = [rx_queue EXCEPT ![t] = <<b>> \o @]
      /\ cur' = [cur EXCEPT ![d] = NoSkb] /\ tx' = [tx EXCEPT ![d] = "load_rx"]
      /\ UNCHANGED <<count, received, dropped, locked, given>>
  BY DEF Template, EnqueueBuf, PushRx, Goto, priv, sorted
<1>2. Types /\ t \in Devs /\ t # d  BY Devices DEF BufferInv
<1>3. b \in Pkt /\ \A e \in Devs : b \notin Range(rx_queue[e])  BY <1>1, SendingIsAway
<1>4. s = <<d, count[d]>> /\ s \in AllSkbs
  <2>1. count[d] \in Nat \ {0} /\ count[d] <= MaxSend[d]  BY <1>1, <1>2, SMT DEF DataInv, Types
  <2>2. QED  BY <1>1, <2>1, SkbOf DEF DataInv
<1>5. s # NoSkb /\ s[1] = d /\ s[2] = count[d]  BY <1>4, SkbIs
<1>6. Range(rx_queue'[t]) = {b} \union Range(rx_queue[t])
      /\ \A e \in Devs : e # t => rx_queue'[e] = rx_queue[e]
  BY <1>1, <1>2, <1>3, PutFirst DEF Types
<1>7. /\ data'[b] = s /\ \A p \in Pkt : p # b => data'[p] = data[p]
      /\ cur'[d] = NoSkb /\ \A e \in Devs : e # d => cur'[e] = cur[e] /\ tx'[e] = tx[e]
      /\ tx'[d] # "copy" /\ count[d] \in Nat
  BY <1>1, <1>2, <1>3 DEF Types
<1>8. data[b] = NoSkb  BY <1>3 DEF DataInv
<1>9. \A e \in Devs : e # d => cur[e] # s
  BY <1>5, SkbIs DEF DataInv
<1>10. s \notin given  BY <1>5 DEF DataInv
<1> HIDE DEF b, t, s
<1>11. s \notin Sent /\ Sent' = Sent \union {s}
  <2>1. s \notin Sent  BY SentIs DEF s
  <2>2. \A r : r \in Sent' <=> /\ r \in AllSkbs /\ r[2] <= count[r[1]]
                               /\ (\A e \in Devs : r # cur'[e]) /\ r \notin given
    BY <1>1 DEF Sent
  <2>3. \A r \in AllSkbs : r # NoSkb  BY SkbIs, SMT
  <2>4. \A r \in AllSkbs : (\A e \in Devs : r # cur'[e])
                           <=> (\A e \in Devs : r # cur[e]) \/ r = s
    BY <1>7, <1>9, <2>3 DEF s
  <2>5. s[2] <= count[s[1]]  BY <1>5, <1>7, SMT
  <2>6. \A r : r \in Sent' <=> r \in Sent \/ r = s
    BY <1>4, <1>10, <2>2, <2>4, <2>5, SentIs, SMT
  <2>7. QED  BY <2>1, <2>6
<1>12. Known' = Known \union {s}
  <2>1. \A r : r \in Known' <=> \/ \E p \in Pkt : data'[p] # NoSkb /\ r = data'[p]
                                \/ r \in received \/ r \in dropped
    BY <1>1 DEF Known
  <2>2. \A r : (\E p \in Pkt : data'[p] # NoSkb /\ r = data'[p])
               <=> (\E p \in Pkt : data[p] # NoSkb /\ r = data[p]) \/ r = s
    BY <1>3, <1>5, <1>7, <1>8, SMT
  <2>3. \A r : r \in Known' <=> r \in Known \/ r = s  BY <2>1, <2>2, KnownIs
  <2>4. QED  BY <2>3
<1>13. s \notin Known  BY <1>11 DEF DataInv
<1>14. cur' = [e \in Devs |-> IF tx'[e] = "copy" THEN <<e, count'[e]>> ELSE NoSkb]
  <2>1. cur' \in [Devs -> AllSkbs \union {NoSkb}]  BY <1>1, <1>2 DEF Types
  <2>2. \A e \in Devs : cur[e] = IF tx[e] = "copy" THEN <<e, count[e]>> ELSE NoSkb
    BY SMT DEF DataInv
  <2>3. \A e \in Devs : cur'[e] = IF tx'[e] = "copy" THEN <<e, count'[e]>> ELSE NoSkb
    BY <1>1, <1>7, <2>2
  <2>4. QED  BY <2>1, <2>3
<1>15. /\ \A e \in Devs : count'[e] <= MaxSend[e]
       /\ \A e \in Devs : tx'[e] = "copy" => count'[e] >= 1
  BY <1>1, <1>7 DEF DataInv
<1>16. \A r \in given' : r \in AllSkbs /\ r[2] <= count'[r[1]] /\ r # cur'[r[1]]
  <2>1. \A r \in given : r \in AllSkbs /\ r[2] <= count[r[1]] /\ r # cur[r[1]]
    BY DEF DataInv
  <2>2. \A r \in given : r[1] \in Devs /\ r # NoSkb  BY <2>1, SkbIs
  <2>3. QED  BY <1>1, <1>7, <2>1, <2>2, SMT
<1>17. \A p \in Pkt : data'[p] # NoSkb <=> \E e \in Devs : p \in Range(rx_queue'[e])
  <2>1. \A p \in Pkt : data[p] # NoSkb <=> \E e \in Devs : p \in Range(rx_queue[e])
    BY DEF DataInv
  <2>2. QED  BY <1>2, <1>5, <1>6, <1>7, <2>1, SMT
<1>18. \A p, q \in Pkt : data'[p] # NoSkb /\ data'[p] = data'[q] => p = q
  <2>1. \A p \in Pkt : data[p] # s  BY <1>5, <1>13, KnownIs
  <2>2. \A p, q \in Pkt : data[p] # NoSkb /\ data[p] = data[q] => p = q  BY DEF DataInv
  <2>3. QED  BY <1>7, <2>1, <2>2, SMT
<1>19. \A p \in Pkt : data'[p] # NoSkb => data'[p] \notin (received \union dropped)'
  <2>1. s \notin received \union dropped  BY <1>13, KnownIs
  <2>2. QED  BY <1>1, <1>7, <2>1, SMT DEF DataInv
<1>20. /\ Known' \subseteq Sent'
       /\ (\A e \in Devs : ~locked'[e]) => Known' = Sent'
  BY <1>1, <1>11, <1>12 DEF DataInv
<1>21. QED  BY <1>14, <1>15, <1>16, <1>17, <1>18, <1>19, <1>20 DEF DataInv

\* A poll takes the packet of b, which is then passed on or dropped.
LEMMA TakenData ==
  ASSUME DataInv, BufferInv, NEW d \in Devs, rx_queue[d] # <<>>,
         rx_queue' = [rx_queue EXCEPT ![d] = Tail(rx_queue[d])],
         data' = [data EXCEPT ![Head(rx_queue[d])] = NoSkb],
         (received \union dropped)' = received \union dropped \union {data[Head(rx_queue[d])]},
         UNCHANGED <<cur, count, given, locked, tx>>
  PROVE  DataInv'
<1> DEFINE b == Head(rx_queue[d])
           done == received \union dropped
<1>1. Types /\ Partition(d) /\ Partition(Twin(d)) /\ Twin(d) \in Devs /\ Twin(d) # d
      /\ Twin(Twin(d)) = d
  BY Devices DEF BufferInv
<1>2. rx_queue[d] \in Seq(Pkt) /\ IsInjective(rx_queue[d])  BY <1>1 DEF Types, Partition
<1>3. b \in Pkt /\ b \in Range(rx_queue[d])
      /\ Range(Tail(rx_queue[d])) = Range(rx_queue[d]) \ {b}
  BY <1>2, TakenFirst
<1>4. b \notin Range(rx_queue[Twin(d)])  BY <1>1, <1>3 DEF Partition, Owned
<1>5. \A p \in Pkt : p \in Range(rx_queue'[d]) <=> p \in Range(rx_queue[d]) /\ p # b
  BY <1>1, <1>3 DEF Types
<1>6. \A e \in Devs : e # d => rx_queue'[e] = rx_queue[e]  BY <1>1 DEF Types
<1>7. data[b] # NoSkb  BY <1>3 DEF DataInv
<1>8. data'[b] = NoSkb /\ \A p \in Pkt : p # b => data'[p] = data[p]
  BY <1>1, <1>3 DEF Types
<1>9. done' = done \union {data[b]}  OBVIOUS
<1>10. \A e \in Devs : e = d \/ e = Twin(d)  BY SMT DEF Devs, Twin
<1> HIDE DEF b, done
<1>11. Known' = Known
  <2>1. \A r : r \in Known' <=> (\E p \in Pkt : data'[p] # NoSkb /\ r = data'[p]) \/ r \in done'
    BY DEF Known, done
  <2>2. \A r : r \in Known <=> (\E p \in Pkt : data[p] # NoSkb /\ r = data[p]) \/ r \in done
    BY DEF Known, done
  <2>3. \A r : r \in Known' <=> r \in Known  BY <1>3, <1>7, <1>8, <1>9, <2>1, <2>2, ZenonT(30)
  <2>4. QED  BY <2>3
<1>12. Sent' = Sent  BY DEF Sent
<1>13. \A p \in Pkt : data'[p] # NoSkb <=> \E e \in Devs : p \in Range(rx_queue'[e])
  <2>1. \A p \in Pkt : data[p] # NoSkb <=> \E e \in Devs : p \in Range(rx_queue[e])
    BY DEF DataInv
  <2>2. ASSUME NEW p \in Pkt
        PROVE  (\E e \in Devs : p \in Range(rx_queue'[e]))
               <=> p # b /\ \E e \in Devs : p \in Range(rx_queue[e])
    BY <1>1, <1>4, <1>5, <1>6, <1>10
  <2>3. QED  BY <1>8, <2>1, <2>2
<1>14. \A p, q \in Pkt : data'[p] # NoSkb /\ data'[p] = data'[q] => p = q
  BY <1>8, SMT DEF DataInv
<1>15. \A p \in Pkt : data'[p] # NoSkb => data'[p] \notin done'
  <2>1. \A p \in Pkt : data[p] # NoSkb => data[p] \notin done  BY DEF DataInv, done
  <2>2. \A p \in Pkt : p # b => data[p] # data[b]  BY <1>3, <1>7 DEF DataInv
  <2>3. QED  BY <1>8, <1>9, <2>1, <2>2, SMT
<1>16. QED  BY <1>11, <1>12, <1>13, <1>14, <1>15 DEF DataInv, done

LEMMA DequeueData ==
  ASSUME DataInv, BufferInv, NEW d \in Devs, Template(DequeueBuf(d))
  PROVE  DataInv'
<1>1. /\ rx_queue[d] # <<>>
      /\ rx_queue' = [rx_queue EXCEPT ![d] = Tail(rx_queue[d])]
      /\ data' = [data EXCEPT ![Head(rx_queue[d])] = NoSkb]
      /\ UNCHANGED <<cur, count, given, locked, tx>>
  BY DEF Template, DequeueBuf, MorePackets, priv, sending
<1>2. (received \union dropped)' = received \union dropped \union {data[Head(rx_queue[d])]}
  BY DEF Template, DequeueBuf
<1>3. QED  BY <1>1, <1>2, TakenData

LEMMA NativeData ==
  ASSUME DataInv, BufferInv, NEW d \in Devs, kxdp_native_rx_cons_buf(d)
  PROVE  DataInv'
<1> DEFINE content == {data[p] : p \in {First(rx_queue[d])} \ {NULL}}
<1>1. /\ rx_queue' = [rx_queue EXCEPT ![d] = AfterCons(d)]
      /\ data' = [p \in Pkt |-> IF p = First(rx_queue[d]) THEN NoSkb ELSE data[p]]
      /\ UNCHANGED <<cur, count, given, locked, tx>>
  BY DEF kxdp_native_rx_cons_buf, priv, sending
<1>2. \/ received' = received \union content /\ dropped' = dropped
      \/ received' = received /\ dropped' = dropped \union content
  BY DEF kxdp_native_rx_cons_buf
<1>3. Types  BY DEF BufferInv
<1>4. CASE rx_queue[d] = <<>>
  <2>1. content = {}  BY <1>4 DEF First
  <2>2. data' = data  BY <1>1, <1>3, <1>4, BuffersAre, ZenonT(30) DEF First, Types
  <2>3. rx_queue' = rx_queue  BY <1>1, <1>3, <1>4 DEF AfterCons, Types
  <2>4. received' = received /\ dropped' = dropped  BY <1>2, <2>1
  <2>5. QED  BY <1>1, <1>3, <2>2, <2>3, <2>4, DataKept
<1>5. CASE rx_queue[d] # <<>>
  <2>1. Head(rx_queue[d]) \in Pkt  BY <1>3, <1>5, TakenFirst DEF Types
  <2>2. First(rx_queue[d]) = Head(rx_queue[d]) /\ Head(rx_queue[d]) # NULL
    BY <1>5, <2>1, BuffersAre DEF First
  <2>3. content = {data[Head(rx_queue[d])]}  BY <2>2
  <2>4. (received \union dropped)' = received \union dropped \union {data[Head(rx_queue[d])]}
    BY <1>2, <2>3
  <2>5. data' = [data EXCEPT ![Head(rx_queue[d])] = NoSkb]
    BY <1>1, <1>3, <2>1, <2>2 DEF Types
  <2>6. rx_queue' = [rx_queue EXCEPT ![d] = Tail(rx_queue[d])]
    BY <1>1, <1>5 DEF AfterCons
  <2>7. QED  BY <1>1, <1>5, <2>4, <2>5, <2>6, TakenData
<1>6. QED  BY <1>4, <1>5

LEMMA QuietData ==
  ASSUME NEW d \in Devs, QuietStep(d), ~Template(XmitOutOfPool(d)), ~GiveUp(d)
  PROVE  UNCHANGED <<count, given, received, dropped, locked>>
<1>1. CASE Template(Open(d))  BY <1>1 DEF Template, Open, priv, sending, sorted
<1>2. CASE Template(Stop(d))  BY <1>2 DEF Template, Stop, priv, sending, sorted
<1>3. CASE Template(NapiDisabled(d))
  BY <1>3 DEF Template, NapiDisabled, priv, sending, sorted
<1>4. CASE Template(TxTimeout(d))  BY <1>4 DEF Template, TxTimeout, priv, sorted
<1>5. CASE Template(LoadStatus(d))  BY <1>5 DEF Template, LoadStatus, priv, sorted
<1>6. CASE Template(StoreRx(d))  BY <1>6 DEF Template, StoreRx, StoreStatus, sorted
<1>7. CASE Template(StoreTx(d))  BY <1>7 DEF Template, StoreTx, StoreStatus, sorted
<1>8. CASE Template(StoreTimeout(d))
  BY <1>8 DEF Template, StoreTimeout, StoreStatus, sorted
<1>9. CASE Template(Interrupt(d))  BY <1>9 DEF Template, Interrupt
<1>10. CASE Template(WakeAfterTimeout(d))
  BY <1>10 DEF Template, WakeAfterTimeout, priv, sorted
<1>11. CASE kxdp_native_xdp_set(d)
  BY <1>11 DEF kxdp_native_xdp_set, priv, sending, sorted
<1>12. QED
  BY <1>1, <1>2, <1>3, <1>4, <1>5, <1>6, <1>7, <1>8, <1>9, <1>10, <1>11
  DEF QuietStep, Template

LEMMA OtherData ==
  ASSUME NEW d \in Devs,
         \/ Template(ReleaseBuffer(d)) \/ Template(WakeQueue(d) \/ LoopEnd(d) \/ PollEnd(d))
         \/ kxdp_native_poll(d) \/ kxdp_native_tx_release_buffer(d)
  PROVE  UNCHANGED <<rx_queue, data, cur, count, given, received, dropped, locked, tx>>
<1>1. CASE Template(ReleaseBuffer(d))
  BY <1>1 DEF Template, ReleaseBuffer, priv, sending, sorted
<1>2. CASE Template(WakeQueue(d))
  BY <1>2 DEF Template, WakeQueue, lists, priv, sending, sorted
<1>3. CASE Template(LoopEnd(d))
  BY <1>3 DEF Template, LoopEnd, lists, priv, sending, sorted
<1>4. CASE Template(PollEnd(d))
  BY <1>4 DEF Template, PollEnd, lists, priv, sending, sorted
<1>5. CASE kxdp_native_poll(d)
  BY <1>5 DEF kxdp_native_poll, lists, priv, sending, sorted
<1>6. CASE kxdp_native_tx_release_buffer(d)
  BY <1>6 DEF kxdp_native_tx_release_buffer, priv, sending, sorted
<1>7. QED  BY <1>1, <1>2, <1>3, <1>4, <1>5, <1>6 DEF Template

LEMMA DataInitially == PairInit => DataInv
<1> SUFFICES ASSUME PairInit PROVE DataInv
  BY SMT
<1>1. Init /\ given = {}  BY DEF PairInit
<1>2. /\ count = [d \in Devs |-> 0] /\ cur = [d \in Devs |-> NoSkb]
      /\ tx = [d \in Devs |-> "idle"] /\ rx_queue = [d \in Devs |-> <<>>]
      /\ data = [p \in Pkt |-> NoSkb] /\ received = {} /\ dropped = {}
  BY <1>1 DEF Init
<1>3. Known = {}  BY <1>2 DEF Known
<1>4. Sent = {}
  <2>1. \A s \in AllSkbs : ~ (s[2] <= count[s[1]])  BY <1>2, SkbIs, SMT
  <2>2. QED  BY <2>1, SentIs
<1>5. \A d \in Devs : count[d] <= MaxSend[d]  BY <1>2, DummVethAssumption, SMT
<1>6. \A d \in Devs : Range(rx_queue[d]) = {}  BY <1>2, SMT DEF Range
<1>7. QED  BY <1>1, <1>2, <1>3, <1>4, <1>5, <1>6 DEF DataInv

LEMMA DataInductive == DataInv /\ BufferInv /\ [PairNext]_pairVars => DataInv'
<1> SUFFICES ASSUME DataInv, BufferInv, [PairNext]_pairVars PROVE DataInv'
  OBVIOUS
<1>1. Types  BY DEF BufferInv
<1>2. CASE UNCHANGED pairVars
  BY <1>1, <1>2, DataKept DEF pairVars, vars, lists, priv, sending, sorted
<1>3. CASE PairNext
  <2>1. PICK d \in Devs : AnyStep(d)  BY <1>3, StepOfDriver
  <2>2. CASE QuietStep(d)
    <3>1. (\A e \in Devs : tx'[e] = "copy" <=> tx[e] = "copy") /\ UNCHANGED <<rx_queue, data, cur>>
      BY <1>1, <2>2, QuietTypes, QuietCopies
    <3>2. CASE Template(XmitOutOfPool(d))  BY <1>1, <3>2, OutOfPoolData
    <3>3. CASE GiveUp(d)  BY <1>1, <3>3, GivenUpData
    <3>4. CASE ~Template(XmitOutOfPool(d)) /\ ~GiveUp(d)
      <4>1. UNCHANGED <<count, given, received, dropped, locked>>
        BY <2>2, <3>4, QuietData
      <4>2. QED  BY <1>1, <3>1, <4>1, DataKept
    <3>5. QED  BY <3>2, <3>3, <3>4
  <2>3. CASE Template(Xmit(d))  BY <1>1, <2>3, XmitData, SMT
  <2>4. CASE Template(EnqueueBuf(d))  BY <2>4, EnqueueData
  <2>5. CASE \E new \in NewPools : Template(RefillPool(d, new))
    <3>1. /\ UNCHANGED <<rx_queue, data, cur, count, given, received, dropped, locked>>
          /\ tx[d] = "pool" /\ tx' = [tx EXCEPT ![d] = "wake"]
      BY <2>5 DEF Template, RefillPool, priv, sorted, Goto
    <3>2. \A e \in Devs : tx'[e] = "copy" <=> tx[e] = "copy"  BY <1>1, <3>1 DEF Types
    <3>3. QED  BY <1>1, <3>1, <3>2, DataKept
  <2>6. CASE Template(DequeueBuf(d))  BY <2>6, DequeueData, SMT
  <2>7. CASE Template(ReleaseBuffer(d)) \/ Template(WakeQueue(d) \/ LoopEnd(d) \/ PollEnd(d))
             \/ kxdp_native_poll(d) \/ kxdp_native_tx_release_buffer(d)
    <3>1. UNCHANGED <<rx_queue, data, cur, count, given, received, dropped, locked, tx>>
      BY <2>7, OtherData
    <3>2. QED  BY <1>1, <3>1, DataKept
  <2>8. CASE kxdp_native_rx_cons_buf(d)  BY <2>8, NativeData
  <2>9. QED  BY <2>1, <2>2, <2>3, <2>4, <2>5, <2>6, <2>7, <2>8, StepKinds
<1>4. QED  BY <1>2, <1>3

LEMMA DataInvariant == PairSpec => []DataInv
BY BuffersInvariant, DataInitially, DataInductive, PTL DEF PairSpec

\* In every driver of the family each buffer is in exactly one place, the pool, the
\* hands of a transmission, the twin's receive queue or the hands of its polls, and no
\* packet is lost or duplicated: whatever the number of buffers, the traffic, the
\* restarts, the watchdog runs and the allocations that fail.
THEOREM EveryBufferInOnePlace == PairSpec => []PairConserved
<1>1. BufferInv /\ DataInv => PairConserved
  <2> SUFFICES ASSUME BufferInv, DataInv PROVE PairConserved
    OBVIOUS
  <2> DEFINE places(d) == <<Range(ppool[d]), Sending(d), Range(rx_queue[Twin(d)]), Held(Twin(d))>>
             waiting == {p \in Pkt : data[p] # NoSkb}
             sent == {s \in Skbs(0) \union Skbs(1) : s[2] <= count[s[1]]}
                     \ ({cur[d] : d \in Devs} \union given)
  <2>1. ASSUME NEW d \in Devs
        PROVE  /\ UNION Range(places(d)) = {p \in Pkt : dev[p] = d}
               /\ \A j, k \in 1 .. 4 : j # k => places(d)[j] \intersect places(d)[k] = {}
               /\ IsInjective(ppool[d]) /\ IsInjective(rx_queue[d])
    <3>1. Partition(d)  BY DEF BufferInv
    <3>2. UNION Range(places(d)) = Range(ppool[d]) \union Sending(d)
                                   \union Range(rx_queue[Twin(d)]) \union Held(Twin(d))
      <4>1. Range(places(d)) = {Range(ppool[d]), Sending(d), Range(rx_queue[Twin(d)]),
                                Held(Twin(d))}
        <5>1. DOMAIN places(d) = {1, 2, 3, 4}  BY SMT
        <5>2. \A f : Range(f) = {f[x] : x \in DOMAIN f}  BY DEF Range
        <5>3. Range(places(d)) = {places(d)[x] : x \in {1, 2, 3, 4}}  BY <5>1, <5>2
        <5>4. QED  BY <5>3, SMT
      <4>2. QED  BY <4>1
    <3>3. \A j, k \in 1 .. 4 : j # k => places(d)[j] \intersect places(d)[k] = {}
      <4>1. \A j \in 1 .. 4 : j = 1 \/ j = 2 \/ j = 3 \/ j = 4  BY SMT
      <4>2. QED  BY <3>1, <4>1, SMT DEF Partition
    <3>4. QED  BY <3>1, <3>2, <3>3 DEF Partition, Owned
  <2>2. \A p \in waiting : data[p] \notin received \union dropped  BY DEF DataInv
  <2>3. ASSUME \A d \in Devs : ~locked[d]
        PROVE  {data[p] : p \in waiting} \union received \union dropped = sent
    BY <2>3 DEF DataInv, Known, Sent, AllSkbs
  <2>4. QED  BY <2>1, <2>2, <2>3 DEF PairConserved
<1>2. QED  BY <1>1, BuffersInvariant, DataInvariant, PTL

-----------------------------------------------------------------------------
(* What is disturbed stays so.                                             *)

LEMMA QuietRecorded ==
  ASSUME NEW d \in Devs, QuietStep(d)
  PROVE  disturbed \subseteq disturbed' /\ UNCHANGED <<lockup, driver>>
<1>1. CASE Template(Open(d))  BY <1>1 DEF Template, own, Open
<1>2. CASE Template(Stop(d))  BY <1>2 DEF Template, own, Stop
<1>3. CASE Template(NapiDisabled(d))  BY <1>3 DEF Template, own, NapiDisabled
<1>4. CASE Template(TxTimeout(d))  BY <1>4 DEF Template, own, TxTimeout
<1>5. CASE Template(LoadStatus(d))  BY <1>5 DEF Template, own, LoadStatus
<1>6. CASE Template(StoreRx(d))  BY <1>6 DEF Template, own, StoreRx, StoreStatus
<1>7. CASE Template(StoreTx(d))  BY <1>7 DEF Template, own, StoreTx, StoreStatus
<1>8. CASE Template(StoreTimeout(d))
  BY <1>8 DEF Template, own, StoreTimeout, StoreStatus
<1>9. CASE Template(Interrupt(d))  BY <1>9 DEF Template, own, Interrupt
<1>10. CASE Template(WakeAfterTimeout(d))  BY <1>10 DEF Template, own, WakeAfterTimeout
<1>11. CASE Template(XmitOutOfPool(d))  BY <1>11 DEF Template, own, XmitOutOfPool, Handed
<1>12. CASE GiveUp(d)  BY <1>12 DEF GiveUp, own, Handed
<1>13. CASE kxdp_native_xdp_set(d)  BY <1>13 DEF kxdp_native_xdp_set
<1>14. QED
  BY <1>1, <1>2, <1>3, <1>4, <1>5, <1>6, <1>7, <1>8, <1>9, <1>10, <1>11, <1>12, <1>13
  DEF QuietStep, Template

LEMMA Recorded ==
  ASSUME NEW d \in Devs, AnyStep(d)
  PROVE  disturbed \subseteq disturbed' /\ UNCHANGED <<lockup, driver>>
<1>1. CASE QuietStep(d)  BY <1>1, QuietRecorded
<1>2. CASE Template(Xmit(d))  BY <1>2 DEF Template, own, Xmit, Handed
<1>3. CASE Template(EnqueueBuf(d))  BY <1>3 DEF Template, own, EnqueueBuf
<1>4. CASE \E new \in NewPools : Template(RefillPool(d, new))
  BY <1>4 DEF Template, own, RefillPool
<1>5. CASE Template(DequeueBuf(d))  BY <1>5 DEF Template, own, DequeueBuf
<1>6. CASE Template(ReleaseBuffer(d))  BY <1>6 DEF Template, own, ReleaseBuffer
<1>7. CASE Template(WakeQueue(d))  BY <1>7 DEF Template, own, WakeQueue, NoteWakeup
<1>8. CASE Template(LoopEnd(d))  BY <1>8 DEF Template, own, LoopEnd
<1>9. CASE Template(PollEnd(d))  BY <1>9 DEF Template, own, PollEnd
<1>10. CASE kxdp_native_rx_cons_buf(d)  BY <1>10 DEF kxdp_native_rx_cons_buf
<1>11. CASE kxdp_native_poll(d)  BY <1>11 DEF kxdp_native_poll
<1>12. CASE kxdp_native_tx_release_buffer(d)
  BY <1>12 DEF kxdp_native_tx_release_buffer, NoteWakeup
<1>13. QED
  BY <1>1, <1>2, <1>3, <1>4, <1>5, <1>6, <1>7, <1>8, <1>9, <1>10, <1>11, <1>12, StepKinds
  DEF Template

-----------------------------------------------------------------------------
(* The transmission-done bit of status.                                    *)

LEMMA StatusKept ==
  ASSUME StatusInv, Faithful' => Faithful, given \subseteq given',
         UNCHANGED <<status, skb, tx, locked, early>>
  PROVE  StatusInv'
BY DEF StatusInv

\* A transmission goes on, or the watchdog does, and nothing else changes.
LEMMA StatusMoved ==
  ASSUME StatusInv, Types, Faithful' => Faithful, NEW d \in Devs, NEW x,
         tx' = [tx EXCEPT ![d] = x], tx[d] \notin {"int_tx", "int_timeout"}, x # "int_tx",
         x \in {"idle"} \union Watchdog => tx[d] \in {"idle"} \union Watchdog,
         UNCHANGED <<status, skb, locked, given, early>>
  PROVE  StatusInv'
<1> SUFFICES ASSUME Faithful, NEW e \in Devs
    PROVE  /\ early' = {}
           /\ tx'[e] \notin {"int_tx", "int_timeout"} => TX_INTR \notin status'[e]
           /\ tx'[e] = "int_tx" /\ skb'[e] # NoSkb => TX_INTR \in status'[e]
           /\ tx'[e] \in {"idle"} \union Watchdog /\ skb'[e] # NoSkb =>
                 skb'[e] \in given' \/ locked'[e]
  BY DEF StatusInv, Devs
<1>1. CASE e = d
  <2>1. tx'[e] = x  BY <1>1 DEF Types
  <2>2. QED  BY <1>1, <2>1 DEF StatusInv
<1>2. CASE e # d
  <2>1. tx'[e] = tx[e]  BY <1>2 DEF Types
  <2>2. QED  BY <2>1 DEF StatusInv
<1>3. QED  BY <1>1, <1>2

LEMMA HandedStatus ==
  ASSUME StatusInv, Types, Faithful' => Faithful, NEW d \in Devs,
         Template(Xmit(d)) \/ Template(XmitOutOfPool(d)) \/ GiveUp(d)
  PROVE  StatusInv'
<1> DEFINE n == <<d, count[d] + 1>>
<1>1. Handed(d)  BY DEF Template, Xmit, XmitOutOfPool, GiveUp
<1>2. /\ tx[d] = "idle" /\ skb' = [skb EXCEPT ![d] = n] /\ UNCHANGED <<status, early>>
  BY <1>1 DEF Handed, sorted
<1>3. \/ tx' = [tx EXCEPT ![d] = "copy"] /\ UNCHANGED <<locked, given>>
      \/ locked' = [locked EXCEPT ![d] = TRUE] /\ UNCHANGED <<tx, given>>
      \/ given' = given \union {n} /\ UNCHANGED <<tx, locked>>
  BY DEF Template, Xmit, XmitOutOfPool, GiveUp, Goto
<1> HIDE DEF n
<1>4. /\ skb'[d] = n /\ \A e \in Devs : e # d => skb'[e] = skb[e] /\ tx'[e] = tx[e]
      /\ \A e \in Devs : locked[e] => locked'[e]
      /\ given \subseteq given'
  BY <1>2, <1>3 DEF Types
<1>5. \/ tx'[d] = "copy"
      \/ tx'[d] = "idle" /\ (locked'[d] \/ n \in given')
  BY <1>2, <1>3 DEF Types
<1> SUFFICES ASSUME Faithful, NEW e \in Devs
    PROVE  /\ early' = {}
           /\ tx'[e] \notin {"int_tx", "int_timeout"} => TX_INTR \notin status'[e]
           /\ tx'[e] = "int_tx" /\ skb'[e] # NoSkb => TX_INTR \in status'[e]
           /\ tx'[e] \in {"idle"} \union Watchdog /\ skb'[e] # NoSkb =>
                 skb'[e] \in given' \/ locked'[e]
  BY DEF StatusInv, Devs
<1>6. CASE e = d  BY <1>2, <1>4, <1>5, <1>6 DEF StatusInv, Watchdog
<1>7. CASE e # d  BY <1>2, <1>4, <1>7 DEF StatusInv
<1>8. QED  BY <1>6, <1>7

\* A bit of status is stored, of d or of its twin.
LEMMA StoredStatus ==
  ASSUME StatusInv, Types, NEW d \in Devs,
         Template(StoreRx(d) \/ StoreTx(d) \/ StoreTimeout(d))
  PROVE  StatusInv'
<1>1. UNCHANGED <<lockup, skb, locked, given, early>>
  BY DEF Template, StoreRx, StoreTx, StoreTimeout, StoreStatus, sorted
<1>2. PICK s \in Devs, bit \in Bits :
        /\ status' = [status EXCEPT ![s] = word[d] \union {bit}]
        /\ disturbed' = IF status[s] = word[d] THEN disturbed ELSE disturbed \union {"clash"}
        /\ \/ tx[d] = "store_rx" /\ s # d /\ bit = RX_INTR /\ tx' = [tx EXCEPT ![d] = "int_rx"]
           \/ /\ tx[d] = "store_tx" /\ s = d /\ bit = TX_INTR
              /\ lockup = 0 => tx' = [tx EXCEPT ![d] = "int_tx"]
           \/ /\ tx[d] = "store_timeout" /\ s = d /\ bit = TX_INTR
              /\ tx' = [tx EXCEPT ![d] = "int_timeout"]
  <2>1. CASE StoreRx(d)
    <3>1. Twin(d) \in Devs /\ Twin(d) # d /\ RX_INTR \in Bits  BY Devices DEF Bits
    <3>2. /\ status' = [status EXCEPT ![Twin(d)] = word[d] \union {RX_INTR}]
          /\ disturbed' = IF status[Twin(d)] = word[d] THEN disturbed
                          ELSE disturbed \union {"clash"}
          /\ tx[d] = "store_rx" /\ tx' = [tx EXCEPT ![d] = "int_rx"]
      BY <2>1 DEF StoreRx, StoreStatus, Goto
    <3>3. QED  BY <3>1, <3>2
  <2>2. CASE StoreTx(d)
    <3>1. TX_INTR \in Bits  BY DEF Bits
    <3>2. /\ status' = [status EXCEPT ![d] = word[d] \union {TX_INTR}]
          /\ disturbed' = IF status[d] = word[d] THEN disturbed
                          ELSE disturbed \union {"clash"}
          /\ tx[d] = "store_tx" /\ (lockup = 0 => tx' = [tx EXCEPT ![d] = "int_tx"])
      BY <2>2 DEF StoreTx, StoreStatus, Goto, LosesInterrupt
    <3>3. QED  BY <3>1, <3>2
  <2>3. CASE StoreTimeout(d)
    <3>1. TX_INTR \in Bits  BY SMT DEF Bits
    <3>2. /\ status' = [status EXCEPT ![d] = word[d] \union {TX_INTR}]
          /\ disturbed' = IF status[d] = word[d] THEN disturbed
                          ELSE disturbed \union {"clash"}
          /\ tx[d] = "store_timeout" /\ tx' = [tx EXCEPT ![d] = "int_timeout"]
      BY <2>3 DEF StoreTimeout, StoreStatus, Goto
    <3>3. QED  BY <3>1, <3>2
  <2>4. QED  BY <2>1, <2>2, <2>3 DEF Template
<1>3. RX_INTR # TX_INTR  BY DEF RX_INTR, TX_INTR
<1> SUFFICES ASSUME Faithful', NEW e \in Devs
    PROVE  /\ early' = {}
           /\ tx'[e] \notin {"int_tx", "int_timeout"} => TX_INTR \notin status'[e]
           /\ tx'[e] = "int_tx" /\ skb'[e] # NoSkb => TX_INTR \in status'[e]
           /\ tx'[e] \in {"idle"} \union Watchdog /\ skb'[e] # NoSkb =>
                 skb'[e] \in given' \/ locked'[e]
  BY DEF StatusInv, Devs
<1>4. Faithful /\ status[s] = word[d] /\ lockup = 0  BY <1>1, <1>2 DEF Faithful
<1>5. status'[s] = status[s] \union {bit} /\ \A g \in Devs : g # s => status'[g] = status[g]
  BY <1>2, <1>4 DEF Types
<1>6. \A g \in Devs : g # d => tx'[g] = tx[g]  BY <1>2, <1>4 DEF Types
<1>7. \/ tx[d] = "store_rx" /\ s # d /\ bit = RX_INTR /\ tx'[d] = "int_rx"
      \/ tx[d] = "store_tx" /\ s = d /\ bit = TX_INTR /\ tx'[d] = "int_tx"
      \/ tx[d] = "store_timeout" /\ s = d /\ bit = TX_INTR /\ tx'[d] = "int_timeout"
  BY <1>2, <1>4 DEF Types
<1>8. "int_rx" \notin {"idle"} \union Watchdog /\ "int_tx" \notin {"idle"} \union Watchdog
      /\ "store_timeout" \in Watchdog
  BY DEF Watchdog
<1>9. CASE e = d  BY <1>1, <1>3, <1>4, <1>5, <1>7, <1>8, <1>9 DEF StatusInv
<1>10. CASE e # d  BY <1>1, <1>3, <1>4, <1>5, <1>6, <1>7, <1>10 DEF StatusInv
<1>11. QED  BY <1>9, <1>10

LEMMA InterruptStatus ==
  ASSUME StatusInv, DataInv, Types, NEW d \in Devs, Template(Interrupt(d))
  PROVE  StatusInv'
<1>1. UNCHANGED <<lockup, locked, given, disturbed>>
  BY DEF Template, Interrupt
<1>2. PICK s \in Devs :
        /\ NapiInterrupt(s)
        /\ \/ tx[d] = "int_rx" /\ s # d /\ tx' = [tx EXCEPT ![d] = "load_tx"]
           \/ tx[d] = "int_tx" /\ s = d /\ tx' = [tx EXCEPT ![d] = "idle"]
           \/ tx[d] = "int_timeout" /\ s = d /\ tx' = [tx EXCEPT ![d] = "pool"]
  BY Devices DEF Template, Interrupt, Goto
<1> SUFFICES ASSUME Faithful', NEW e \in Devs
    PROVE  /\ early' = {}
           /\ tx'[e] \notin {"int_tx", "int_timeout"} => TX_INTR \notin status'[e]
           /\ tx'[e] = "int_tx" /\ skb'[e] # NoSkb => TX_INTR \in status'[e]
           /\ tx'[e] \in {"idle"} \union Watchdog /\ skb'[e] # NoSkb =>
                 skb'[e] \in given' \/ locked'[e]
  BY DEF StatusInv, Devs
<1>3. Faithful  BY <1>1 DEF Faithful
<1>4. /\ status' = [status EXCEPT ![s] = {}]
      /\ IF TX_INTR \in status[s]
         THEN /\ early' = early \union (({skb[s]} \ {NoSkb}) \intersect {cur[s]})
              /\ skb' = [skb EXCEPT ![s] = NoSkb]
         ELSE UNCHANGED <<early, skb>>
  BY <1>2 DEF NapiInterrupt, ClearStatus
<1>5. early' = {}
  <2>1. TX_INTR \in status[s] => cur[s] = NoSkb  BY <1>3 DEF StatusInv, DataInv
  <2>2. early = {}  BY <1>3 DEF StatusInv
  <2>3. QED  BY <1>4, <2>1, <2>2
<1>6. /\ status'[s] = {} /\ \A g \in Devs : g # s => status'[g] = status[g]
      /\ \A g \in Devs : g # s => skb'[g] = skb[g]
      /\ skb'[s] = IF TX_INTR \in status[s] THEN NoSkb ELSE skb[s]
  BY <1>4 DEF Types
<1>7. /\ \A g \in Devs : g # d => tx'[g] = tx[g]
      /\ \/ tx[d] = "int_rx" /\ s # d /\ tx'[d] = "load_tx"
         \/ tx[d] = "int_tx" /\ s = d /\ tx'[d] = "idle"
         \/ tx[d] = "int_timeout" /\ s = d /\ tx'[d] = "pool"
  BY <1>2, ZenonT(30) DEF Types
<1>8. "load_tx" \notin {"idle"} \union Watchdog /\ "int_timeout" \in Watchdog
  BY DEF Watchdog
<1>9. CASE e = d  BY <1>1, <1>3, <1>5, <1>6, <1>7, <1>8, <1>9 DEF StatusInv
<1>10. CASE e # d
  <2>1. CASE e = s  BY <1>1, <1>3, <1>5, <1>6, <1>7, <1>10, <2>1 DEF StatusInv
  <2>2. CASE e # s  BY <1>1, <1>3, <1>5, <1>6, <1>7, <1>10, <2>2 DEF StatusInv
  <2>3. QED  BY <2>1, <2>2
<1>11. QED  BY <1>9, <1>10

\* Steps that do not touch the transmission.
LEMMA OtherStatus ==
  ASSUME NEW d \in Devs,
         \/ Template(Open(d)) \/ Template(Stop(d)) \/ Template(NapiDisabled(d))
         \/ Template(DequeueBuf(d)) \/ Template(ReleaseBuffer(d))
         \/ Template(WakeQueue(d) \/ LoopEnd(d) \/ PollEnd(d))
         \/ NativeStep(d)
  PROVE  UNCHANGED <<status, skb, tx, locked, early, given>>
<1>1. CASE Template(Open(d))  BY <1>1 DEF Template, Open, priv, sending, sorted
<1>2. CASE Template(Stop(d))  BY <1>2 DEF Template, Stop, priv, sending, sorted
<1>3. CASE Template(NapiDisabled(d))
  BY <1>3 DEF Template, NapiDisabled, priv, sending, sorted
<1>4. CASE Template(DequeueBuf(d))
  BY <1>4 DEF Template, DequeueBuf, priv, sending
<1>5. CASE Template(ReleaseBuffer(d))
  BY <1>5 DEF Template, ReleaseBuffer, priv, sending, sorted
<1>6. CASE Template(WakeQueue(d))
  BY <1>6 DEF Template, WakeQueue, priv, sending, sorted
<1>7. CASE Template(LoopEnd(d))  BY <1>7 DEF Template, LoopEnd, priv, sending, sorted
<1>8. CASE Template(PollEnd(d))  BY <1>8 DEF Template, PollEnd, priv, sending, sorted
<1>9. CASE kxdp_native_rx_cons_buf(d)
  BY <1>9 DEF kxdp_native_rx_cons_buf, priv, sending
<1>10. CASE kxdp_native_poll(d)
  BY <1>10 DEF kxdp_native_poll, priv, sending, sorted
<1>11. CASE kxdp_native_tx_release_buffer(d)
  BY <1>11 DEF kxdp_native_tx_release_buffer, priv, sending, sorted
<1>12. CASE kxdp_native_xdp_set(d)
  BY <1>12 DEF kxdp_native_xdp_set, priv, sending, sorted
<1>13. QED
  BY <1>1, <1>2, <1>3, <1>4, <1>5, <1>6, <1>7, <1>8, <1>9, <1>10, <1>11, <1>12
  DEF NativeStep, Template

LEMMA MovingStatus ==
  ASSUME StatusInv, Types, Faithful' => Faithful, NEW d \in Devs,
         \/ Template(EnqueueBuf(d)) \/ Template(LoadStatus(d)) \/ Template(TxTimeout(d))
         \/ \E new \in NewPools : Template(RefillPool(d, new))
         \/ Template(WakeAfterTimeout(d))
  PROVE  StatusInv'
<1>1. PICK x : /\ tx' = [tx EXCEPT ![d] = x]
               /\ \/ tx[d] = "copy" /\ x = "load_rx"
                  \/ tx[d] = "load_rx" /\ x = "store_rx"
                  \/ tx[d] = "load_tx" /\ x = "store_tx"
                  \/ tx[d] = "timeout" /\ x = "store_timeout"
                  \/ tx[d] = "idle" /\ x = "timeout"
                  \/ tx[d] = "pool" /\ x = "wake"
                  \/ tx[d] = "wake" /\ x = "idle"
  <2>1. CASE Template(EnqueueBuf(d))  BY <2>1 DEF Template, EnqueueBuf, Goto
  <2>2. CASE Template(LoadStatus(d))  BY <2>2 DEF Template, LoadStatus, Goto
  <2>3. CASE Template(TxTimeout(d))  BY <2>3 DEF Template, TxTimeout, Goto
  <2>4. CASE \E new \in NewPools : Template(RefillPool(d, new))
    BY <2>4 DEF Template, RefillPool, Goto
  <2>5. CASE Template(WakeAfterTimeout(d))  BY <2>5 DEF Template, WakeAfterTimeout, Goto
  <2>6. QED  BY <2>1, <2>2, <2>3, <2>4, <2>5
<1>2. UNCHANGED <<status, skb, locked, given, early>>
  <2>1. CASE Template(EnqueueBuf(d))  BY <2>1 DEF Template, EnqueueBuf, priv, sorted
  <2>2. CASE Template(LoadStatus(d))  BY <2>2 DEF Template, LoadStatus, priv, sorted
  <2>3. CASE Template(TxTimeout(d))  BY <2>3 DEF Template, TxTimeout, priv, sorted
  <2>4. CASE \E new \in NewPools : Template(RefillPool(d, new))
    BY <2>4 DEF Template, RefillPool, priv, sorted
  <2>5. CASE Template(WakeAfterTimeout(d))
    BY <2>5 DEF Template, WakeAfterTimeout, priv, sorted
  <2>6. QED  BY <2>1, <2>2, <2>3, <2>4, <2>5
<1>3. tx[d] \notin {"int_tx", "int_timeout"} /\ x # "int_tx"  BY <1>1
<1>4. x \in {"idle"} \union Watchdog => tx[d] \in {"idle"} \union Watchdog
  BY <1>1 DEF Watchdog
<1>5. QED  BY <1>1, <1>2, <1>3, <1>4, StatusMoved

LEMMA StatusInitially == PairInit => StatusInv
BY SMT DEF PairInit, Init, StatusInv, TX_INTR

LEMMA StatusInductive ==
  StatusInv /\ DataInv /\ BufferInv /\ [PairNext]_pairVars => StatusInv'
<1> SUFFICES ASSUME StatusInv, DataInv, BufferInv, [PairNext]_pairVars PROVE StatusInv'
  OBVIOUS
<1>1. Types  BY DEF BufferInv
<1>2. CASE UNCHANGED pairVars
  BY <1>2, StatusKept DEF pairVars, vars, priv, sending, sorted, Faithful
<1>3. CASE PairNext
  <2>1. PICK d \in Devs : AnyStep(d)  BY <1>3, StepOfDriver
  <2>2. Faithful' => Faithful  BY <2>1, Recorded DEF Faithful
  <2>3. CASE \/ Template(Open(d)) \/ Template(Stop(d)) \/ Template(NapiDisabled(d))
             \/ Template(DequeueBuf(d)) \/ Template(ReleaseBuffer(d))
             \/ Template(WakeQueue(d) \/ LoopEnd(d) \/ PollEnd(d)) \/ NativeStep(d)
    BY <2>2, <2>3, OtherStatus, StatusKept
  <2>4. CASE \/ Template(EnqueueBuf(d)) \/ Template(LoadStatus(d)) \/ Template(TxTimeout(d))
             \/ (\E new \in NewPools : Template(RefillPool(d, new)))
             \/ Template(WakeAfterTimeout(d))
    BY <1>1, <2>2, <2>4, MovingStatus
  <2>5. CASE Template(Xmit(d)) \/ Template(XmitOutOfPool(d)) \/ GiveUp(d)
    BY <1>1, <2>2, <2>5, HandedStatus
  <2>6. CASE Template(StoreRx(d) \/ StoreTx(d) \/ StoreTimeout(d))
    BY <1>1, <2>6, StoredStatus
  <2>7. CASE Template(Interrupt(d))  BY <1>1, <2>7, InterruptStatus
  <2>8. QED
    BY <2>1, <2>3, <2>4, <2>5, <2>6, <2>7
    DEF AnyStep, CoreStep, TxStep, WatchdogStep, PollStep, Template
<1>4. QED  BY <1>2, <1>3

LEMMA StatusInvariant == PairSpec => []StatusInv
BY BuffersInvariant, DataInvariant, StatusInitially, StatusInductive, PTL DEF PairSpec

\* The interrupt of each transmission frees its skb, so that the next one overwrites no
\* pointer, in any driver of the family: unless an unlocked update of status was lost,
\* hw_tx returned early, the pool was empty or a lockup is simulated.
THEOREM EverySkbFreed == PairSpec => []SkbFreed
<1>1. StatusInv => SkbFreed  BY DEF StatusInv, SkbFreed, Faithful
<1>2. QED  BY <1>1, StatusInvariant, PTL

\* No interrupt frees an skb that hw_tx has still to copy, as long as no update of
\* status is lost, whatever the two devices and the watchdog do at the same time.
THEOREM NoneFreedEarly == PairSpec => []DoneAfterCopyUnlessClash
<1>1. StatusInv => DoneAfterCopyUnlessClash
  BY DEF StatusInv, DoneAfterCopyUnlessClash, DoneAfterCopy, Faithful
<1>2. QED  BY <1>1, StatusInvariant, PTL

-----------------------------------------------------------------------------
(* Flow control.                                                           *)

Calm == disturbed \intersect {"timeout", "restart", "reused"} = {}

LEMMA FlowKept ==
  ASSUME FlowInv, Types, Calm' => Calm, UNCHANGED <<up, locked>>,
         \A d \in Devs : tx'[d] \in Watchdog => tx[d] \in Watchdog,
         \A d \in Devs : ppool'[d] = <<>> => ppool[d] = <<>> /\ (stopped[d] => stopped'[d])
  PROVE  FlowInv'
BY DEF FlowInv, Calm

\* The queue is stopped with the last buffer of the pool.
LEMMA XmitFlow ==
  ASSUME FlowInv, Types, Calm' => Calm, NEW d \in Devs, Template(Xmit(d))
  PROVE  FlowInv'
<1>1. /\ ppool[d] # <<>> /\ ppool' = [ppool EXCEPT ![d] = Tail(@)]
      /\ stopped' = IF StopsQueue(d) THEN [stopped EXCEPT ![d] = TRUE] ELSE stopped
      /\ tx' = [tx EXCEPT ![d] = "copy"] /\ UNCHANGED <<up, locked>>
  BY DEF Template, Xmit, Handed, Goto
<1>2. /\ ppool[d] \in Seq(Pkt) /\ ppool'[d] = Tail(ppool[d])
      /\ \A e \in Devs : e # d => ppool'[e] = ppool[e] /\ tx'[e] = tx[e]
      /\ tx'[d] = "copy"
  BY <1>1 DEF Types
<1>3. ppool'[d] = <<>> => stopped'[d]
  <2>1. Len(Tail(ppool[d])) = Len(ppool[d]) - 1 /\ Len(ppool[d]) \in Nat
    BY <1>1, <1>2, TakenFirst, LenProperties
  <2>2. ppool'[d] = <<>> => Len(ppool[d]) = 1
    <3>1. ppool'[d] = <<>> => Len(Tail(ppool[d])) = Len(<<>>)  BY <1>2
    <3>2. Len(<<>>) = 0  OBVIOUS
    <3>3. QED  BY <2>1, <3>1, <3>2, SMT
  <2>3. QED  BY <1>1, <2>2 DEF StopsQueue, Types
<1>4. \A e \in Devs : stopped[e] => stopped'[e]  BY <1>1 DEF Types
<1>5. "copy" \notin Watchdog  BY DEF Watchdog
<1>6. QED  BY <1>1, <1>2, <1>3, <1>4, <1>5 DEF FlowInv, Calm

\* A buffer is given back.
LEMMA ReleaseFlow ==
  ASSUME FlowInv, Types, Calm' => Calm, NEW h \in Devs, NEW p \in Pkt,
         ppool' = [ppool EXCEPT ![h] = <<p>> \o @], UNCHANGED <<up, stopped, locked, tx>>
  PROVE  FlowInv'
<1>1. ppool[h] \in Seq(Pkt) /\ ppool'[h] = <<p>> \o ppool[h]
      /\ \A e \in Devs : e # h => ppool'[e] = ppool[e]
  BY DEF Types
<1>2. ppool'[h] # <<>>  BY <1>1, PutFirst
<1>3. QED  BY <1>1, <1>2, FlowKept

\* The queue of h is woken on account of p, a buffer of h.
LEMMA WakeFlow ==
  ASSUME FlowInv, BufferInv, Calm' => Calm, NEW h \in Devs, NEW p,
         stopped' = Woken(h) => stopped' = stopped \/ (p \in Live => dev[p] = h),
         stopped' \in {stopped, Woken(h)}, NoteWakeup(p),
         UNCHANGED <<up, ppool, locked, tx>>
  PROVE  FlowInv'
<1>1. Types  BY DEF BufferInv
<1>2. CASE stopped' = stopped  BY <1>1, <1>2, FlowKept
<1>3. CASE stopped' # stopped
  <2>1. stopped' = Woken(h) /\ (p \in Live => dev[p] = h)  BY <1>3
  <2>2. CASE InPool(p)
    <3>1. PICK e \in Devs : p \in Range(ppool[e])  BY <2>2 DEF InPool
    <3>2. p \in Pkt /\ dev[p] = e  BY <3>1, SMT DEF BufferInv, Partition, Owned
    <3>3. e = h  BY <2>1, <3>2 DEF Live
    <3>4. ppool[h] # <<>>  BY <3>1, <3>3, SMT DEF Range
    <3>5. \A g \in Devs : g # h => stopped'[g] = stopped[g]  BY <1>1, <2>1 DEF Types, Woken
    <3>6. QED  BY <1>1, <3>4, <3>5, FlowKept
  <2>3. CASE ~InPool(p)
    <3>1. ~Calm'  BY <1>3, <2>3 DEF NoteWakeup, Calm
    <3>2. QED  BY <3>1 DEF FlowInv, Calm
  <2>4. QED  BY <2>2, <2>3
<1>4. QED  BY <1>2, <1>3

LEMMA WakeQueueFlow ==
  ASSUME FlowInv, BufferInv, Calm' => Calm, NEW d \in Devs, Template(WakeQueue(d))
  PROVE  FlowInv'
<1>1. /\ IF pkt[d] \in Live
         THEN stopped' = IF MustWake(d) THEN Woken(Home(d)) ELSE stopped
         ELSE stopped' \in {stopped, Woken(Twin(d))}
      /\ NoteWakeup(pkt[d]) /\ UNCHANGED <<up, ppool, locked, tx>>
  BY DEF Template, WakeQueue, lists, priv, sending
<1>2. CASE pkt[d] \in Live
  <2>1. Home(d) \in Devs /\ dev[pkt[d]] = Home(d)  BY <1>2 DEF Live, Home
  <2>2. stopped' \in {stopped, Woken(Home(d))}  BY <1>1, <1>2
  <2>3. QED  BY <1>1, <2>1, <2>2, WakeFlow
<1>3. CASE pkt[d] \notin Live
  BY <1>1, <1>3, Devices, WakeFlow
<1>4. QED  BY <1>2, <1>3

LEMMA NativeReleaseFlow ==
  ASSUME FlowInv, BufferInv, Calm' => Calm, NEW h \in Devs, kxdp_native_tx_release_buffer(h)
  PROVE  FlowInv'
<1>1. Types /\ UNCHANGED <<up, locked, tx>>
  BY DEF BufferInv, kxdp_native_tx_release_buffer, priv, sending
<1>2. PICK p \in Pkt :
        \/ ppool' = [ppool EXCEPT ![h] = <<p>> \o @] /\ UNCHANGED stopped
        \/ /\ dev[p] = h \/ p \notin Live
           /\ IF p \in Live
              THEN stopped' = IF stopped[h] /\ next[p] = NULL THEN Woken(h) ELSE stopped
              ELSE stopped' \in {stopped, Woken(h)}
           /\ NoteWakeup(p) /\ UNCHANGED ppool
  BY DEF kxdp_native_tx_release_buffer
<1>3. CASE ppool' = [ppool EXCEPT ![h] = <<p>> \o @] /\ UNCHANGED stopped
  BY <1>1, <1>3, ReleaseFlow
<1>4. CASE /\ dev[p] = h \/ p \notin Live
           /\ IF p \in Live
              THEN stopped' = IF stopped[h] /\ next[p] = NULL THEN Woken(h) ELSE stopped
              ELSE stopped' \in {stopped, Woken(h)}
           /\ NoteWakeup(p) /\ UNCHANGED ppool
  <2>1. stopped' \in {stopped, Woken(h)}  BY <1>4
  <2>2. QED  BY <1>1, <1>4, <2>1, WakeFlow
<1>5. QED  BY <1>2, <1>3, <1>4

LEMMA QuietFlow ==
  ASSUME FlowInv, BufferInv, Calm' => Calm, NEW d \in Devs, QuietStep(d)
  PROVE  FlowInv'
<1>1. Types /\ ppool' = ppool  BY QuietTypes DEF BufferInv
<1>2. ASSUME Calm  PROVE up[d] /\ tx[d] \notin Watchdog /\ (ppool[d] = <<>> => stopped[d])
  BY <1>2 DEF FlowInv, Calm
<1>3. CASE Template(Open(d)) \/ Template(NapiDisabled(d))
  <2>1. ~up[d]  BY <1>3 DEF Template, Open, NapiDisabled
  <2>2. QED  BY <1>2, <2>1 DEF FlowInv, Calm
<1>4. CASE Template(Stop(d)) \/ Template(TxTimeout(d))
  <2>1. ~Calm'  BY <1>4 DEF Template, Stop, TxTimeout, Calm
  <2>2. QED  BY <2>1 DEF FlowInv, Calm
<1>5. CASE Template(XmitOutOfPool(d))
  <2>1. ~stopped[d] /\ ppool[d] = <<>>  BY <1>5 DEF Template, XmitOutOfPool, Handed
  <2>2. QED  BY <1>2, <2>1 DEF FlowInv, Calm
<1>6. CASE Template(StoreTimeout(d)) \/ Template(WakeAfterTimeout(d))
  <2>1. tx[d] \in Watchdog
    BY <1>6 DEF Template, StoreTimeout, WakeAfterTimeout, Watchdog
  <2>2. QED  BY <1>2, <2>1 DEF FlowInv, Calm
<1>7. CASE Template(LoadStatus(d))
  <2>1. /\ UNCHANGED <<up, locked, stopped>> /\ \E x : tx' = [tx EXCEPT ![d] = x]
        /\ tx[d] = "load_rx" => tx' = [tx EXCEPT ![d] = "store_rx"]
        /\ tx[d] = "load_tx" => tx' = [tx EXCEPT ![d] = "store_tx"]
        /\ tx[d] \in {"load_rx", "load_tx", "timeout"}
    BY <1>7 DEF Template, LoadStatus, Goto, priv
  <2>2. \A e \in Devs : tx'[e] \in Watchdog => tx[e] \in Watchdog
    BY <1>1, <2>1 DEF Types, Watchdog
  <2>3. QED  BY <1>1, <2>1, <2>2, FlowKept
<1>8. CASE Template(StoreRx(d)) \/ Template(StoreTx(d))
  <2>1. /\ UNCHANGED <<up, locked>> /\ stopped' \in {stopped, [stopped EXCEPT ![d] = TRUE]}
        /\ \E x \in {"int_rx", "idle", "int_tx"} : tx' = [tx EXCEPT ![d] = x]
    BY <1>8 DEF Template, StoreRx, StoreTx, StoreStatus, Goto
  <2>2. \A e \in Devs : tx'[e] \in Watchdog => tx[e] \in Watchdog
    BY <1>1, <2>1 DEF Types, Watchdog
  <2>3. \A e \in Devs : stopped[e] => stopped'[e]  BY <1>1, <2>1 DEF Types
  <2>4. QED  BY <1>1, <2>1, <2>2, <2>3, FlowKept
<1>9. CASE Template(Interrupt(d))
  <2>1. /\ UNCHANGED <<up, locked, stopped>>
        /\ \/ tx' = [tx EXCEPT ![d] = "load_tx"]
           \/ tx' = [tx EXCEPT ![d] = "idle"]
           \/ tx[d] = "int_timeout" /\ tx' = [tx EXCEPT ![d] = "pool"]
    BY <1>9 DEF Template, Interrupt, Goto
  <2>2. \A e \in Devs : tx'[e] \in Watchdog => tx[e] \in Watchdog
    BY <1>1, <2>1 DEF Types, Watchdog
  <2>3. QED  BY <1>1, <2>1, <2>2, FlowKept
<1>10. CASE GiveUp(d) \/ kxdp_native_xdp_set(d)
  <2>1. UNCHANGED <<up, locked, stopped, tx>>
    BY <1>10 DEF GiveUp, Handed, kxdp_native_xdp_set, priv, sending
  <2>2. QED  BY <1>1, <2>1, FlowKept
<1>11. QED
  BY <1>3, <1>4, <1>5, <1>6, <1>7, <1>8, <1>9, <1>10 DEF QuietStep, Template

LEMMA FlowInitially == PairInit => FlowInv
<1> SUFFICES ASSUME PairInit PROVE FlowInv
  BY SMT
<1>1. Init  BY DEF PairInit
<1>2. /\ up = [d \in Devs |-> TRUE] /\ locked = [d \in Devs |-> FALSE]
      /\ tx = [d \in Devs |-> "idle"]
      /\ ppool = [d \in Devs |-> [k \in 1 .. pool_size |-> (d + 1) * pool_size + 1 - k]]
  BY <1>1 DEF Init
<1>3. ASSUME NEW d \in Devs  PROVE ppool[d] # <<>>
  <2>1. 1 \in 1 .. pool_size  BY DummVethAssumption, SMT
  <2>2. 1 \in DOMAIN ppool[d]  BY <1>2, <2>1
  <2>3. QED  BY <2>2, SMT
<1>4. QED  BY <1>2, <1>3 DEF FlowInv, Watchdog

LEMMA FlowInductive == FlowInv /\ BufferInv /\ [PairNext]_pairVars => FlowInv'
<1> SUFFICES ASSUME FlowInv, BufferInv, [PairNext]_pairVars PROVE FlowInv'
  BY SMT
<1>1. Types  BY SMT DEF BufferInv
<1>2. CASE UNCHANGED pairVars
  BY <1>1, <1>2, FlowKept DEF pairVars, vars, lists, priv, sending, Calm
<1>3. CASE PairNext
  <2>1. PICK d \in Devs : AnyStep(d)  BY <1>3, StepOfDriver, SMT
  <2>2. Calm' => Calm  BY <2>1, Recorded DEF Calm
  <2>3. CASE QuietStep(d)  BY <2>2, <2>3, QuietFlow
  <2>4. CASE Template(Xmit(d))  BY <1>1, <2>2, <2>4, XmitFlow
  <2>5. CASE Template(EnqueueBuf(d))
    <3>1. tx' = [tx EXCEPT ![d] = "load_rx"] /\ UNCHANGED <<up, locked, stopped, ppool>>
      BY <2>5 DEF Template, EnqueueBuf, Goto, priv
    <3>2. \A e \in Devs : tx'[e] \in Watchdog => tx[e] \in Watchdog
      BY <1>1, <3>1 DEF Types, Watchdog
    <3>3. QED  BY <1>1, <2>2, <3>1, <3>2, FlowKept
  <2>6. CASE \E new \in NewPools : Template(RefillPool(d, new))
    <3>1. tx[d] \in Watchdog  BY <2>6 DEF Template, RefillPool, Watchdog
    <3>2. QED  BY <2>2, <3>1 DEF FlowInv, Calm
  <2>7. CASE Template(ReleaseBuffer(d))
    <3>1. /\ poll[d] = "release" /\ ppool' = [ppool EXCEPT ![Home(d)] = <<pkt[d]>> \o @]
          /\ UNCHANGED <<up, stopped, locked, tx>>
      BY <2>7 DEF Template, ReleaseBuffer, priv, sending
    <3>2. pkt[d] \in Pkt /\ Home(d) \in Devs  BY <3>1, HandIsHeld, Devices DEF Home
    <3>3. QED  BY <1>1, <2>2, <3>1, <3>2, ReleaseFlow
  <2>8. CASE Template(WakeQueue(d))  BY <2>2, <2>8, WakeQueueFlow
  <2>9. CASE Template(DequeueBuf(d)) \/ Template(LoopEnd(d)) \/ Template(PollEnd(d))
             \/ kxdp_native_rx_cons_buf(d) \/ kxdp_native_poll(d)
    <3>1. UNCHANGED <<tx, locked>>  BY <2>9, OtherStatus DEF NativeStep, Template
    <3>2. UNCHANGED <<up, ppool, stopped>>
      <4>1. CASE Template(DequeueBuf(d))  BY <4>1 DEF Template, DequeueBuf
      <4>2. CASE Template(LoopEnd(d))  BY <4>2 DEF Template, LoopEnd, lists
      <4>3. CASE Template(PollEnd(d))  BY <4>3 DEF Template, PollEnd, lists
      <4>4. CASE kxdp_native_rx_cons_buf(d)  BY <4>4 DEF kxdp_native_rx_cons_buf
      <4>5. CASE kxdp_native_poll(d)  BY <4>5 DEF kxdp_native_poll, lists
      <4>6. QED  BY <2>9, <4>1, <4>2, <4>3, <4>4, <4>5
    <3>3. QED  BY <1>1, <2>2, <3>1, <3>2, FlowKept
  <2>10. CASE kxdp_native_tx_release_buffer(d)  BY <2>2, <2>10, NativeReleaseFlow
  <2>11. QED
    BY <2>1, <2>3, <2>4, <2>5, <2>6, <2>7, <2>8, <2>9, <2>10, StepKinds DEF Template
<1>4. QED  BY <1>2, <1>3, SMT

LEMMA FlowInvariant == PairSpec => []FlowInv
BY BuffersInvariant, FlowInitially, FlowInductive, PTL DEF PairSpec

\* hw_tx finds a buffer in the pool whenever the core may call it, in every driver and
\* for every size of the pool, until the watchdog, a restart or a wakeup on account of a
\* buffer taken again has woken the queue of an empty pool.
THEOREM PoolNeverEmpty == PairSpec => []NeverOutOfPool
<1>1. FlowInv => NeverOutOfPool  BY DEF FlowInv, NeverOutOfPool
<1>2. QED  BY <1>1, FlowInvariant, PTL

-----------------------------------------------------------------------------
(* The polls of native kxdp.                                               *)

LEMMA NapiOn ==
  ASSUME PollInv, Types, NEW d \in Devs, AnyStep(d), NEW e \in Devs, up'[e]
  PROVE  napi'[e] # "off"
<1>1. up[e] => napi[e] # "off"  BY DEF PollInv
<1>2. CASE UNCHANGED <<up, napi>>  BY <1>1, <1>2
<1>3. CASE Template(Open(d))  BY <1>1, <1>3 DEF Template, Open, Types
<1>4. CASE Template(Stop(d))  BY <1>1, <1>4 DEF Template, Stop, Types
<1>5. CASE Template(NapiDisabled(d))  BY <1>1, <1>5 DEF Template, NapiDisabled, Types
<1>6. CASE Template(Interrupt(d))
  <2>1. PICK s \in Devs : NapiInterrupt(s)  BY <1>6, Devices DEF Template, Interrupt
  <2>2. up' = up  BY <1>6 DEF Template, Interrupt
  <2>3. napi' = napi \/ napi' = [napi EXCEPT ![s] = Scheduled(s)]
    BY <2>1 DEF NapiInterrupt
  <2>4. up[s] => Scheduled(s) # "off"  BY DEF Scheduled
  <2>5. QED  BY <1>1, <2>2, <2>3, <2>4, ZenonT(30) DEF Types
<1>7. CASE Template(PollEnd(d)) \/ kxdp_native_poll(d)
  <2>1. up' = up /\ (napi' = napi \/ napi' = [napi EXCEPT ![d] = Completed(@)])
    BY <1>7 DEF Template, PollEnd, kxdp_native_poll
  <2>2. Completed(napi[d]) # "off"  BY DEF Completed
  <2>3. QED  BY <1>1, <2>1, <2>2, ZenonT(30) DEF Types
<1>8. CASE \/ Template(Xmit(d)) \/ Template(XmitOutOfPool(d)) \/ GiveUp(d)
           \/ Template(TxTimeout(d)) \/ Template(EnqueueBuf(d)) \/ Template(LoadStatus(d))
  <2>1. CASE Template(Xmit(d)) \/ Template(XmitOutOfPool(d)) \/ GiveUp(d)
    <3>1. Handed(d)  BY <2>1 DEF Template, Xmit, XmitOutOfPool, GiveUp
    <3>2. QED  BY <1>2, <3>1 DEF Handed
  <2>2. CASE Template(TxTimeout(d))  BY <1>2, <2>2 DEF Template, TxTimeout
  <2>3. CASE Template(EnqueueBuf(d))  BY <1>2, <2>3 DEF Template, EnqueueBuf
  <2>4. CASE Template(LoadStatus(d))  BY <1>2, <2>4 DEF Template, LoadStatus
  <2>5. QED  BY <1>8, <2>1, <2>2, <2>3, <2>4
<1>9. CASE Template(StoreRx(d)) \/ Template(StoreTx(d)) \/ Template(StoreTimeout(d))
  BY <1>2, <1>9 DEF Template, StoreRx, StoreTx, StoreTimeout, StoreStatus
<1>10. CASE (\E new \in NewPools : Template(RefillPool(d, new))) \/ Template(WakeAfterTimeout(d))
  BY <1>2, <1>10 DEF Template, RefillPool, WakeAfterTimeout
<1>11. CASE Template(DequeueBuf(d)) \/ Template(ReleaseBuffer(d)) \/ Template(WakeQueue(d))
            \/ Template(LoopEnd(d))
  BY <1>2, <1>11 DEF Template, DequeueBuf, ReleaseBuffer, WakeQueue, LoopEnd
<1>12. CASE kxdp_native_rx_cons_buf(d) \/ kxdp_native_tx_release_buffer(d)
            \/ kxdp_native_xdp_set(d)
  BY <1>2, <1>12
  DEF kxdp_native_rx_cons_buf, kxdp_native_tx_release_buffer, kxdp_native_xdp_set
<1>13. QED
  BY <1>3, <1>4, <1>5, <1>6, <1>7, <1>8, <1>9, <1>10, <1>11, <1>12
  DEF AnyStep, CoreStep, NativeStep, TxStep, WatchdogStep, PollStep, Template

\* Each poll that is due has its packet, unless an update of status was lost.
Due(e) == /\ poll[e] = "complete" => napi[e] \in {"sched", "missed"}
          /\ PollsDue(e) <= Len(rx_queue[e])

LEMMA DueKept ==
  ASSUME NEW e \in Devs, Due(e), UNCHANGED <<napi, poll, rx_queue>>,
         RX_INTR \in status'[e] <=> RX_INTR \in status[e],
         tx'[Twin(e)] \in Announcing <=> tx[Twin(e)] \in Announcing
  PROVE  Due(e)'
<1>1. PollsDue(e)' = PollsDue(e)  BY DEF PollsDue, One
<1>2. QED  BY <1>1 DEF Due

\* Steps of a transmission or the watchdog that announce nothing, and those of a poll
\* that has completed.
LEMMA SilentDue ==
  ASSUME Types, \A e \in Devs : Due(e), NEW d \in Devs,
         \/ Template(Stop(d)) \/ Template(Xmit(d)) \/ Template(XmitOutOfPool(d)) \/ GiveUp(d)
         \/ Template(TxTimeout(d)) \/ Template(LoadStatus(d))
         \/ (\E new \in NewPools : Template(RefillPool(d, new)))
         \/ Template(WakeAfterTimeout(d))
         \/ kxdp_native_tx_release_buffer(d) \/ kxdp_native_xdp_set(d)
  PROVE  \A e \in Devs : Due(e)'
<1>1. UNCHANGED <<napi, poll, status, rx_queue>>
  <2>1. CASE Template(Stop(d))  BY <2>1 DEF Template, Stop, priv, polling, lists
  <2>2. CASE Template(Xmit(d)) \/ Template(XmitOutOfPool(d)) \/ GiveUp(d)
    <3>1. Handed(d)  BY <2>2 DEF Template, Xmit, XmitOutOfPool, GiveUp
    <3>2. QED  BY <3>1 DEF Handed, polling
  <2>3. CASE Template(TxTimeout(d))  BY <2>3 DEF Template, TxTimeout, priv, polling, lists
  <2>4. CASE Template(LoadStatus(d))  BY <2>4 DEF Template, LoadStatus, priv, polling, lists
  <2>5. CASE \E new \in NewPools : Template(RefillPool(d, new))
    <3>1. PICK new \in NewPools : RefillPool(d, new)  BY <2>5 DEF Template
    <3>2. QED  BY <3>1 DEF RefillPool, priv, polling
  <2>6. CASE Template(WakeAfterTimeout(d))
    BY <2>6 DEF Template, WakeAfterTimeout, priv, polling, lists
  <2>7. CASE kxdp_native_tx_release_buffer(d)
    BY <2>7 DEF kxdp_native_tx_release_buffer, priv, polling
  <2>8. CASE kxdp_native_xdp_set(d)
    BY <2>8 DEF kxdp_native_xdp_set, priv, polling, lists
  <2>9. QED  BY <2>1, <2>2, <2>3, <2>4, <2>5, <2>6, <2>7, <2>8
<1>2. \/ tx' = tx
      \/ tx[d] = "idle" /\ tx' = [tx EXCEPT ![d] = "copy"]
      \/ tx[d] = "idle" /\ tx' = [tx EXCEPT ![d] = "timeout"]
      \/ tx[d] = "load_rx" /\ tx' = [tx EXCEPT ![d] = "store_rx"]
      \/ tx[d] = "load_tx" /\ tx' = [tx EXCEPT ![d] = "store_tx"]
      \/ tx[d] = "timeout" /\ tx' = [tx EXCEPT ![d] = "store_timeout"]
      \/ tx[d] = "pool" /\ tx' = [tx EXCEPT ![d] = "wake"]
      \/ tx[d] = "wake" /\ tx' = [tx EXCEPT ![d] = "idle"]
  <2>1. CASE Template(Stop(d)) \/ kxdp_native_tx_release_buffer(d) \/ kxdp_native_xdp_set(d)
    BY <2>1, OtherStatus DEF NativeStep
  <2>2. CASE Template(XmitOutOfPool(d)) \/ GiveUp(d)
    BY <2>2 DEF Template, XmitOutOfPool, GiveUp
  <2>3. CASE Template(Xmit(d))
    <3>1. Handed(d) /\ tx' = [tx EXCEPT ![d] = "copy"]  BY <2>3 DEF Template, Xmit, Goto
    <3>2. tx[d] = "idle"  BY <3>1 DEF Handed
    <3>3. QED  BY <3>1, <3>2
  <2>4. CASE Template(TxTimeout(d))  BY <2>4 DEF Template, TxTimeout, Goto
  <2>5. CASE Template(LoadStatus(d))  BY <2>5 DEF Template, LoadStatus, Goto
  <2>6. CASE \E new \in NewPools : Template(RefillPool(d, new))
    <3>1. PICK new \in NewPools : RefillPool(d, new)  BY <2>6, SMT DEF Template
    <3>2. tx[d] = "pool" /\ tx' = [tx EXCEPT ![d] = "wake"]  BY <3>1 DEF RefillPool, Goto
    <3>3. QED  BY <3>2
  <2>7. CASE Template(WakeAfterTimeout(d))  BY <2>7 DEF Template, WakeAfterTimeout, Goto
  <2>8. QED  BY <2>1, <2>2, <2>3, <2>4, <2>5, <2>6, <2>7
<1>3. \A e \in Devs : tx'[e] \in Announcing <=> tx[e] \in Announcing
  BY <1>2, ZenonT(30) DEF Types, Announcing
<1>4. QED  BY <1>1, <1>3, DueKept, Devices

LEMMA OnOffDue ==
  ASSUME Types, \A e \in Devs : Due(e), NEW d \in Devs,
         Template(Open(d)) \/ Template(NapiDisabled(d))
  PROVE  \A e \in Devs : Due(e)'
<1>1. /\ UNCHANGED <<poll, status, rx_queue, tx>>
      /\ \/ napi[d] = "off" /\ napi' = [napi EXCEPT ![d] = "idle"]
         \/ napi[d] = "idle" /\ napi' = [napi EXCEPT ![d] = "off"]
  <2>1. CASE Template(Open(d))
    BY <2>1 DEF Template, Open, priv, polling, lists, sending
  <2>2. CASE Template(NapiDisabled(d))
    BY <2>2 DEF Template, NapiDisabled, priv, polling, lists, sending
  <2>3. QED  BY <2>1, <2>2
<1> SUFFICES ASSUME NEW e \in Devs PROVE Due(e)'
  OBVIOUS
<1>2. Runs(napi'[e]) = Runs(napi[e])  BY <1>1 DEF Runs, Types
<1>3. PollsDue(e)' = PollsDue(e)  BY <1>1, <1>2 DEF PollsDue
<1>4. poll'[e] = "complete" => napi'[e] \in {"sched", "missed"}
  BY <1>1 DEF Due, Types
<1>5. QED  BY <1>1, <1>3, <1>4 DEF Due

\* The bit is stored and no update is lost.
LEMMA StoreDue ==
  ASSUME Types, \A e \in Devs : Due(e), NEW d \in Devs, "clash" \notin disturbed',
         Template(StoreRx(d) \/ StoreTx(d) \/ StoreTimeout(d))
  PROVE  \A e \in Devs : Due(e)'
<1> DEFINE t == Twin(d)
<1>1. t \in Devs /\ t # d /\ Twin(t) = d  BY Devices
<1>2. UNCHANGED <<napi, poll, rx_queue>>
  BY DEF Template, StoreRx, StoreTx, StoreTimeout, StoreStatus, polling, lists
<1>3. CASE StoreRx(d)
  <2>1. /\ tx[d] = "store_rx" /\ tx' = [tx EXCEPT ![d] = "int_rx"]
        /\ status' = [status EXCEPT ![t] = status[t] \union {RX_INTR}]
    BY <1>3 DEF StoreRx, StoreStatus, Goto
  <2>2. Due(d)'
    <3>1. RX_INTR \in status'[d] <=> RX_INTR \in status[d]  BY <1>1, <2>1 DEF Types
    <3>2. tx'[t] = tx[t]  BY <1>1, <2>1 DEF Types
    <3>3. QED  BY <1>2, <3>1, <3>2, DueKept
  <2>3. Due(t)'
    <3>1. tx[d] \in Announcing /\ tx'[d] \notin Announcing  BY <2>1 DEF Announcing, Types
    <3>2. One(tx[d] \in Announcing) = 1 /\ One(tx'[d] \in Announcing) = 0
      BY <3>1 DEF One
    <3>3. One(RX_INTR \in status'[t]) = 1 /\ One(RX_INTR \in status[t]) \in {0, 1}
      BY <1>1, <2>1 DEF Types, One
    <3>4. Runs(napi[t]) \in Int /\ One(poll[t] = "complete") \in Int  BY SMT DEF Runs, One
    <3>5. PollsDue(t) = Runs(napi[t]) - One(poll[t] = "complete")
                        + One(RX_INTR \in status[t]) + 1
      BY <1>1, <3>2 DEF PollsDue
    <3>6. PollsDue(t)' = Runs(napi[t]) - One(poll[t] = "complete") + 1 + 0
      BY <1>1, <1>2, <3>2, <3>3 DEF PollsDue
    <3>7. rx_queue[t] \in Seq(Pkt) /\ Due(t)  BY <1>1 DEF Types
    <3>8. PollsDue(t) <= Len(rx_queue[t]) /\ Len(rx_queue[t]) \in Nat
      BY <3>7, LenProperties DEF Due
    <3>9. PollsDue(t)' <= Len(rx_queue[t])
      <4> HIDE DEF t
      <4>1. QED  BY <3>3, <3>4, <3>5, <3>6, <3>8, SMT
    <3>10. QED  BY <1>2, <3>7, <3>9 DEF Due
  <2>4. QED  BY <1>1, <2>2, <2>3 DEF Devs, Twin
<1>4. CASE StoreTx(d) \/ StoreTimeout(d)
  <2>1. /\ tx[d] \in {"store_tx", "store_timeout"}
        /\ \E x \in {"idle", "int_tx", "int_timeout"} : tx' = [tx EXCEPT ![d] = x]
        /\ status' = [status EXCEPT ![d] = status[d] \union {TX_INTR}]
    BY <1>4 DEF StoreTx, StoreTimeout, StoreStatus, Goto
  <2>2. \A e \in Devs : tx'[e] \in Announcing <=> tx[e] \in Announcing
    BY <2>1 DEF Announcing, Types
  <2>3. \A e \in Devs : RX_INTR \in status'[e] <=> RX_INTR \in status[e]
    BY <2>1 DEF Types, RX_INTR, TX_INTR
  <2>4. QED  BY <1>2, <2>2, <2>3, DueKept, Devices
<1>5. QED  BY <1>3, <1>4 DEF Template

\* The interrupt turns a bit of status into a poll.
LEMMA InterruptDue ==
  ASSUME Types, PollInv, \A e \in Devs : Due(e), NEW d \in Devs, Template(Interrupt(d))
  PROVE  \A e \in Devs : Due(e)'
<1>1. UNCHANGED <<poll, rx_queue>>  BY DEF Template, Interrupt, polling, lists
<1>2. PICK s \in Devs : NapiInterrupt(s)  BY Devices DEF Template, Interrupt
<1>3. \A e \in Devs : tx'[e] \in Announcing <=> tx[e] \in Announcing
  BY DEF Template, Interrupt, Goto, Types, Announcing
<1>4. /\ status' = [status EXCEPT ![s] = {}]
      /\ napi' = IF RX_INTR \in status[s] THEN [napi EXCEPT ![s] = Scheduled(s)] ELSE napi
  BY <1>2 DEF NapiInterrupt, ClearStatus
<1>5. /\ status'[s] = {} /\ \A e \in Devs : e # s => status'[e] = status[e] /\ napi'[e] = napi[e]
      /\ napi'[s] = IF RX_INTR \in status[s] THEN Scheduled(s) ELSE napi[s]
      /\ napi[s] \in {"off", "idle", "sched", "missed"} /\ (up[s] => napi[s] # "off")
  BY <1>4 DEF Types, PollInv
<1> SUFFICES ASSUME NEW e \in Devs PROVE Due(e)'
  OBVIOUS
<1>6. Twin(e) \in Devs /\ Due(e) /\ rx_queue[e] \in Seq(Pkt)  BY Devices DEF Types
<1>7. One(tx'[Twin(e)] \in Announcing) = One(tx[Twin(e)] \in Announcing)
      /\ One(tx[Twin(e)] \in Announcing) \in Int /\ One(poll[e] = "complete") \in Int
  BY <1>3, <1>6, SMT DEF One
<1>8. CASE e # s
  <2>1. PollsDue(e)' = PollsDue(e)  BY <1>1, <1>5, <1>7, <1>8 DEF PollsDue
  <2>2. QED  BY <1>1, <1>5, <1>6, <1>8, <2>1 DEF Due
<1>9. CASE e = s
  <2>1. Runs(napi'[s]) + 0 <= Runs(napi[s]) + One(RX_INTR \in status[s])
        /\ Runs(napi[s]) \in Int /\ Runs(napi'[s]) \in Int
        /\ One(RX_INTR \in status[s]) \in Int
    BY <1>5, SMT DEF Runs, One, Scheduled
  <2>2. napi[s] \in {"sched", "missed"} => napi'[s] \in {"sched", "missed"}
    BY <1>5 DEF Scheduled
  <2>3. One(RX_INTR \in status'[s]) = 0  BY <1>5 DEF One
  <2>4. PollsDue(e)' = Runs(napi'[s]) - One(poll[e] = "complete") + 0
                       + One(tx[Twin(e)] \in Announcing)
    BY <1>1, <1>7, <1>9, <2>3 DEF PollsDue
  <2>5. PollsDue(e) = Runs(napi[s]) - One(poll[e] = "complete") + One(RX_INTR \in status[s])
                      + One(tx[Twin(e)] \in Announcing)
    BY <1>9 DEF PollsDue
  <2>6. PollsDue(e)' <= Len(rx_queue[e])
    BY <1>6, <1>7, <2>1, <2>4, <2>5, LenProperties, SMT DEF Due
  <2>7. QED  BY <1>1, <1>6, <1>9, <2>2, <2>6 DEF Due
<1>10. QED  BY <1>8, <1>9

\* A packet on the receive queue, and its announcement under way.
LEMMA EnqueueDue ==
  ASSUME BufferInv, \A e \in Devs : Due(e), NEW d \in Devs, Template(EnqueueBuf(d))
  PROVE  \A e \in Devs : Due(e)'
<1> DEFINE t == Twin(d)
<1>1. Types /\ t \in Devs /\ t # d /\ Twin(t) = d  BY Devices DEF BufferInv
<1>2. /\ tx[d] = "copy" /\ tx' = [tx EXCEPT ![d] = "load_rx"]
      /\ rx_queue' = [rx_queue EXCEPT ![t] = <<buf[d]>> \o @]
      /\ UNCHANGED <<napi, poll, status>>
  BY DEF Template, EnqueueBuf, PushRx, Goto, priv, polling
<1>3. buf[d] \in Pkt  BY <1>2, SendingIsAway
<1>4. rx_queue[t] \in Seq(Pkt) /\ rx_queue'[t] = <<buf[d]>> \o rx_queue[t]
  BY <1>1, <1>2 DEF Types
<1>5. Len(rx_queue'[t]) = Len(rx_queue[t]) + 1 /\ Len(rx_queue[t]) \in Nat
  BY <1>3, <1>4, PutFirst, LenProperties
<1>6. rx_queue'[d] = rx_queue[d] /\ tx'[t] = tx[t]  BY <1>1, <1>2 DEF Types
<1>7. Due(d)'
  <2>1. PollsDue(d)' = PollsDue(d)  BY <1>2, <1>6 DEF PollsDue
  <2>2. QED  BY <1>2, <1>6, <2>1 DEF Due
<1>8. Due(t)'
  <2>1. tx[d] \notin Announcing /\ tx'[d] \in Announcing  BY <1>1, <1>2 DEF Announcing, Types
  <2>2. One(tx[d] \in Announcing) = 0 /\ One(tx'[d] \in Announcing) = 1  BY <2>1 DEF One
  <2>3. /\ Runs(napi[t]) \in Int /\ One(poll[t] = "complete") \in Int
        /\ One(RX_INTR \in status[t]) \in Int
    BY SMT DEF Runs, One
  <2>4. /\ PollsDue(t) = Runs(napi[t]) - One(poll[t] = "complete")
                         + One(RX_INTR \in status[t]) + 0
        /\ PollsDue(t)' = Runs(napi[t]) - One(poll[t] = "complete")
                          + One(RX_INTR \in status[t]) + 1
    BY <1>1, <1>2, <2>2 DEF PollsDue
  <2>5. PollsDue(t)' <= Len(rx_queue'[t])  BY <1>1, <1>5, <2>3, <2>4, SMT DEF Due
  <2>6. QED  BY <1>1, <1>2, <2>5 DEF Due
<1>9. QED  BY <1>1, <1>7, <1>8 DEF Devs, Twin

\* The poll finds its packet,
LEMMA PacketThere ==
  ASSUME Types, NEW d \in Devs, Due(d), Polling(d)
  PROVE  rx_queue[d] # <<>>
<1>1. /\ Runs(napi[d]) >= 1 /\ Runs(napi[d]) \in Int /\ One(poll[d] = "complete") = 0
      /\ One(RX_INTR \in status[d]) \in Nat /\ One(tx[Twin(d)] \in Announcing) \in Nat
  BY SMT DEF Polling, Runs, One
<1>2. PollsDue(d) >= 1  BY <1>1, SMT DEF PollsDue
<1>3. Len(<<>>) = 0  OBVIOUS
<1>4. QED  BY <1>1, <1>2, <1>3, SMT DEF Due, PollsDue

\* takes it,
LEMMA TakeDue ==
  ASSUME Types, \A e \in Devs : Due(e), NEW d \in Devs, kxdp_native_rx_cons_buf(d)
  PROVE  \A e \in Devs : Due(e)'
<1>1. /\ napi[d] \in {"sched", "missed"} /\ poll[d] = "loop"
      /\ rx_queue' = [rx_queue EXCEPT ![d] = AfterCons(d)]
      /\ poll' = [poll EXCEPT ![d] = "complete"]
      /\ UNCHANGED <<napi, status, tx>>
  BY DEF kxdp_native_rx_cons_buf, Polling, priv, sending
<1>2. rx_queue[d] # <<>>  BY PacketThere DEF kxdp_native_rx_cons_buf
<1>3. rx_queue[d] \in Seq(Pkt) /\ rx_queue'[d] = Tail(rx_queue[d]) /\ poll'[d] = "complete"
  BY <1>1, <1>2 DEF Types, AfterCons
<1>4. Len(rx_queue'[d]) = Len(rx_queue[d]) - 1 /\ Len(rx_queue[d]) \in Nat
  BY <1>2, <1>3, TakenFirst, LenProperties
<1>5. \A e \in Devs : e # d => rx_queue'[e] = rx_queue[e] /\ poll'[e] = poll[e]
  BY <1>1 DEF Types
<1> SUFFICES ASSUME NEW e \in Devs PROVE Due(e)'
  OBVIOUS
<1>6. CASE e # d
  <2>1. PollsDue(e)' = PollsDue(e)  BY <1>1, <1>5, <1>6 DEF PollsDue
  <2>2. QED  BY <1>1, <1>5, <1>6, <2>1 DEF Due
<1>7. CASE e = d
  <2>1. One(poll[d] = "complete") = 0 /\ One(poll'[d] = "complete") = 1
    BY <1>1, <1>3 DEF One
  <2>2. /\ Runs(napi[d]) \in Int /\ One(tx[Twin(d)] \in Announcing) \in Int
        /\ One(RX_INTR \in status[d]) \in Int
    BY SMT DEF Runs, One
  <2>3. /\ PollsDue(d) = Runs(napi[d]) - 0 + One(RX_INTR \in status[d])
                         + One(tx[Twin(d)] \in Announcing)
        /\ PollsDue(d)' = Runs(napi[d]) - 1 + One(RX_INTR \in status[d])
                          + One(tx[Twin(d)] \in Announcing)
    BY <1>1, <2>1 DEF PollsDue
  <2>4. PollsDue(d)' <= Len(rx_queue'[d])  BY <1>4, <2>2, <2>3, SMT DEF Due
  <2>5. QED  BY <1>1, <1>7, <2>4 DEF Due
<1>8. QED  BY <1>6, <1>7

\* and completes.
LEMMA CompleteDue ==
  ASSUME Types, \A e \in Devs : Due(e), NEW d \in Devs, kxdp_native_poll(d)
  PROVE  \A e \in Devs : Due(e)'
<1>1. /\ poll[d] = "complete" /\ napi' = [napi EXCEPT ![d] = Completed(@)]
      /\ poll' = [poll EXCEPT ![d] = "loop"]
      /\ UNCHANGED <<rx_queue, status, tx>>
  BY DEF kxdp_native_poll, lists, priv, sending
<1>2. /\ napi[d] \in {"sched", "missed"} /\ napi'[d] = Completed(napi[d]) /\ poll'[d] = "loop"
      /\ \A e \in Devs : e # d => napi'[e] = napi[e] /\ poll'[e] = poll[e]
  BY <1>1 DEF Types, Due
<1> SUFFICES ASSUME NEW e \in Devs PROVE Due(e)'
  BY SMT
<1>3. CASE e # d
  <2>1. PollsDue(e)' = PollsDue(e)  BY <1>1, <1>2, <1>3 DEF PollsDue
  <2>2. QED  BY <1>1, <1>2, <1>3, <2>1 DEF Due
<1>4. CASE e = d
  <2>1. One(poll[d] = "complete") = 1 /\ One(poll'[d] = "complete") = 0
    BY <1>1, <1>2 DEF One
  <2>2. Runs(napi'[d]) = Runs(napi[d]) - 1 /\ Runs(napi[d]) \in Int
    BY <1>2, SMT DEF Runs, Completed
  <2>3. One(RX_INTR \in status[d]) \in Int /\ One(tx[Twin(d)] \in Announcing) \in Int
    BY SMT DEF One
  <2>4. /\ PollsDue(d) = Runs(napi[d]) - 1 + One(RX_INTR \in status[d])
                         + One(tx[Twin(d)] \in Announcing)
        /\ PollsDue(d)' = Runs(napi[d]) - 1 - 0 + One(RX_INTR \in status[d])
                          + One(tx[Twin(d)] \in Announcing)
    BY <1>1, <2>1, <2>2 DEF PollsDue
  <2>5. PollsDue(d)' = PollsDue(d)  BY <2>2, <2>3, <2>4, SMT
  <2>6. QED  BY <1>1, <1>2, <1>4, <2>5 DEF Due
<1>5. QED  BY <1>3, <1>4, SMT

LEMMA PollInitially == PairInit => PollInv
<1> SUFFICES ASSUME PairInit PROVE PollInv
  BY SMT
<1>1. Init /\ ~oops  BY DEF PairInit
<1>2. /\ napi = [d \in Devs |-> "idle"] /\ poll = [d \in Devs |-> "loop"]
      /\ status = [d \in Devs |-> {}] /\ tx = [d \in Devs |-> "idle"]
      /\ rx_queue = [d \in Devs |-> <<>>]
  BY <1>1 DEF Init
<1>3. ASSUME NEW d \in Devs  PROVE PollsDue(d) <= Len(rx_queue[d])
  <2>1. /\ Runs(napi[d]) = 0 /\ One(poll[d] = "complete") = 0
        /\ One(RX_INTR \in status[d]) = 0 /\ One(tx[Twin(d)] \in Announcing) = 0
    BY <1>2, Devices DEF Runs, One, Announcing
  <2>2. PollsDue(d) = 0 - 0 + 0 + 0  BY <2>1 DEF PollsDue
  <2>3. Len(rx_queue[d]) = 0  BY <1>2
  <2>4. QED  BY <2>2, <2>3, SMT
<1>4. QED  BY <1>1, <1>2, <1>3 DEF PollInv

LEMMA NativeDue ==
  ASSUME PollInv, BufferInv, NEW d \in Devs, AnyStep(d), driver = "kxdp_native",
         \A e \in Devs : Due(e), "clash" \notin disturbed'
  PROVE  \A e \in Devs : Due(e)'
<1>1. Types  BY DEF BufferInv
<1>2. CASE \/ Template(Stop(d)) \/ Template(Xmit(d)) \/ Template(XmitOutOfPool(d)) \/ GiveUp(d)
           \/ Template(TxTimeout(d)) \/ Template(LoadStatus(d))
           \/ (\E new \in NewPools : Template(RefillPool(d, new)))
           \/ Template(WakeAfterTimeout(d))
           \/ kxdp_native_tx_release_buffer(d) \/ kxdp_native_xdp_set(d)
  BY <1>1, <1>2, SilentDue
<1>3. CASE Template(Open(d)) \/ Template(NapiDisabled(d))  BY <1>1, <1>3, OnOffDue
<1>4. CASE Template(StoreRx(d) \/ StoreTx(d) \/ StoreTimeout(d))  BY <1>1, <1>4, StoreDue
<1>5. CASE Template(Interrupt(d))  BY <1>1, <1>5, InterruptDue
<1>6. CASE Template(EnqueueBuf(d))  BY <1>6, EnqueueDue
<1>7. CASE kxdp_native_rx_cons_buf(d)  BY <1>1, <1>7, TakeDue
<1>8. CASE kxdp_native_poll(d)  BY <1>1, <1>8, CompleteDue
<1>9. QED
  BY <1>2, <1>3, <1>4, <1>5, <1>6, <1>7, <1>8
  DEF AnyStep, CoreStep, NativeStep, TxStep, WatchdogStep, Template

LEMMA PollInductive == PollInv /\ BufferInv /\ [PairNext]_pairVars => PollInv'
<1> SUFFICES ASSUME PollInv, BufferInv, [PairNext]_pairVars PROVE PollInv'
  BY SMT
<1>1. CASE UNCHANGED pairVars
  <2>1. \A d \in Devs : PollsDue(d)' = PollsDue(d)
    BY <1>1 DEF pairVars, vars, priv, sending, polling, PollsDue
  <2>2. QED  BY <1>1, <2>1 DEF pairVars, vars, own, lists, polling, PollInv
<1>2. CASE PairNext
  <2>1. PICK d \in Devs : AnyStep(d)  BY <1>2, StepOfDriver, SMT
  <2>2. ~oops /\ disturbed \subseteq disturbed' /\ driver' = driver
    BY <1>2, <2>1, StepOfDriver, Recorded
  <2>3. \A e \in Devs : up'[e] => napi'[e] # "off"
    BY <2>1, NapiOn DEF BufferInv
  <2>4. ASSUME driver = "kxdp_native", "clash" \notin disturbed'
        PROVE  \A e \in Devs : Due(e)'
    <3>1. \A e \in Devs : Due(e)  BY <2>2, <2>4 DEF PollInv, Due
    <3>2. QED  BY <2>1, <2>4, <3>1, NativeDue
  <2>5. CASE driver = "kxdp_native" /\ kxdp_native_rx_cons_buf(d)
    <3>1. "clash" \in disturbed' \/ rx_queue[d] # <<>>
      <4>1. "clash" \notin disturbed' => Due(d)  BY <2>2, <2>5 DEF PollInv, Due
      <4>2. Types /\ Polling(d)  BY <2>5 DEF BufferInv, kxdp_native_rx_cons_buf
      <4>3. QED  BY <4>1, <4>2, PacketThere
    <3>2. oops' => "nomem" \in disturbed' \/ rx_queue[d] = <<>>
      <4>1. Types  BY DEF BufferInv
      <4>2. rx_queue[d] # <<>> => Head(rx_queue[d]) \in Pkt  BY <4>1, TakenFirst DEF Types
      <4>3. rx_queue[d] # <<>> => First(rx_queue[d]) # NULL  BY <4>2, BuffersAre DEF First
      <4>4. rx_queue[d] # <<>> => {data[p] : p \in {First(rx_queue[d])} \ {NULL}} # {}
        BY <4>3
      <4>5. QED  BY <2>5, <4>4 DEF kxdp_native_rx_cons_buf
    <3>3. oops' \in BOOLEAN  BY <2>5 DEF kxdp_native_rx_cons_buf
    <3>4. oops' => disturbed' \intersect {"clash", "nomem"} # {}  BY <3>1, <3>2
    <3>5. QED  BY <2>2, <2>3, <2>4, <2>5, <3>4 DEF PollInv, Due
  <2>6. CASE ~(driver = "kxdp_native" /\ kxdp_native_rx_cons_buf(d))
    <3>1. oops' = oops
      BY <2>1, <2>6 DEF AnyStep, NativeStep, Template, own, GiveUp, kxdp_native_poll,
         kxdp_native_tx_release_buffer, kxdp_native_xdp_set
    <3>2. QED  BY <2>2, <2>3, <2>4, <3>1 DEF PollInv, Due
  <2>7. QED  BY <2>5, <2>6
<1>3. QED  BY <1>1, <1>2, SMT

LEMMA PollInvariant == PairSpec => []PollInv
BY BuffersInvariant, PollInitially, PollInductive, PTL DEF PairSpec

\* The poll of native kxdp, which takes a packet without looking, is scheduled at most
\* once for each packet on its queue, whatever the two devices do: it follows a NULL
\* packet only after a lost update of status, or without memory.
THEOREM EveryPollFindsPacket == PairSpec => []PollFindsPacket
<1>1. PollInv => PollFindsPacket  BY DEF PollInv, PollFindsPacket
<1>2. QED  BY <1>1, PollInvariant, PTL
=============================================================================
