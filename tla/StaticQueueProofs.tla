-------------------------- MODULE StaticQueueProofs --------------------------
(***************************************************************************)
(* The ring queue of static.c is correct for every number of testdata,     *)
(* every ring length that divides the range of the counters, and any       *)
(* number of spurious wakeups.                                             *)
(***************************************************************************)
EXTENDS StaticQueue, ModArithmetic, SequenceTheorems

\* Who holds the mutex, who may be blocked, and how far each loop is.
Control ==
    /\ \A t \in Thread : lock = t <=> pc[t] \in {"test", "retest"}
    /\ \A t \in Thread : t \in waiters => pc[t] = "wait"
    /\ pc[Producer] \in {"lock", "test", "wait", "retest", "exited"}
    /\ pc[Producer] = "exited" <=> i = TESTCASE
    /\ pc[Consumer] \in {"delete", "exited"} <=> counter = TESTCASE
    /\ freed => pc[Consumer] = "exited"

\* The counters of the queue follow the loops of the threads, and the
\* indices a thread remembers are those of its own end of the ring: the
\* other end's index is current only until the thread waits.
Indices ==
    /\ tail = i % UINT32
    /\ head = taken % UINT32
    /\ pc[Producer] \in {"test", "wait", "retest"} => tidx[Producer] = Node(i)
    /\ pc[Producer] = "test" => hidx[Producer] = Node(taken)
    /\ pc[Producer] \in {"wait", "retest"} => hidx[Producer] = tidx[Producer]
    /\ pc[Consumer] \in {"test", "wait", "retest"} => hidx[Consumer] = Node(taken)
    /\ pc[Consumer] = "test" => tidx[Consumer] = Node(i)
    /\ pc[Consumer] \in {"wait", "retest"} => tidx[Consumer] = hidx[Consumer]

IInv ==
    /\ TypeOK
    /\ Control
    /\ Indices
    /\ RingWindow
    /\ InOrder
    /\ NoLostWakeup

-----------------------------------------------------------------------------
\* Node(n) is a node; counters a ring apart share it, nearer ones do not.
LEMMA NodeFacts ==
  /\ \A n \in Nat : Node(n) \in Slots /\ Node(n + BUFFSIZE) = Node(n)
  /\ \A m, n \in Nat : m < n /\ n < m + BUFFSIZE => Node(m) # Node(n)
  /\ \A n \in Nat : Node(n % UINT32) = Node(n)
<1> USE StaticQueueAssumption
<1>1. \A n \in Nat : Node(n) \in Slots  BY DivMod DEF Node, Slots
<1>2. \A n \in Nat : Node(n + BUFFSIZE) = Node(n)  BY ModPlusRing DEF Node
<1>3. \A m, n \in Nat : m < n /\ n < m + BUFFSIZE => Node(m) # Node(n)
  BY ModDistinct DEF Node
<1>4. \A n \in Nat : Node(n % UINT32) = Node(n)  BY ModMod DEF Node
<1>5. QED  BY <1>1, <1>2, <1>3, <1>4

\* The uint32_t counters stay in step with the loops.
LEMMA AdvanceFacts ==
  /\ \A n \in Nat : Advance(n % UINT32) = (n + 1) % UINT32
  /\ \A n \in Nat : n % UINT32 \in 0 .. UINT32 - 1
<1> USE StaticQueueAssumption
<1>1. \A n \in Nat : Advance(n % UINT32) = (n + 1) % UINT32  BY ModSucc DEF Advance
<1>2. \A n \in Nat : n % UINT32 \in 0 .. UINT32 - 1  BY DivMod
<1>3. QED  BY <1>1, <1>2

\* The two tests mean what their names say, before a wait and after it.
LEMMA TestsSound ==
  ASSUME IInv
  PROVE  /\ pc[Producer] \in {"test", "retest"} =>
              (Full(Producer) <=> i - taken = BUFFSIZE)
         /\ pc[Consumer] \in {"test", "retest"} =>
              (Empty(Consumer) <=> i = taken)
<1>1. /\ i \in Nat /\ taken \in Nat /\ i - taken \in 0 .. BUFFSIZE
      /\ BUFFSIZE \in Nat \ {0}
  <2>1. i \in Nat /\ taken \in Nat  BY StaticQueueAssumption DEF IInv, TypeOK, taken
  <2>2. QED  BY <2>1, StaticQueueAssumption DEF IInv, RingWindow
<1>2. i # taken => in_use[Node(taken)] = 1
  BY <1>1 DEF IInv, RingWindow
<1>3. i - taken # BUFFSIZE => in_use[Node(i)] = 0
  BY <1>1 DEF IInv, RingWindow
<1>4. Node(i) = Node(taken) <=> i = taken \/ i - taken = BUFFSIZE
  <2>1. CASE i = taken  BY <2>1
  <2>2. CASE i - taken = BUFFSIZE
    <3>1. i = taken + BUFFSIZE  BY <1>1, <2>2
    <3>2. QED  BY <1>1, <3>1, <2>2, NodeFacts
  <2>3. CASE i # taken /\ i - taken # BUFFSIZE
    <3>1. taken < i /\ i < taken + BUFFSIZE  BY <1>1, <2>3
    <3>2. QED  BY <1>1, <2>3, <3>1, NodeFacts
  <2>4. QED  BY <2>1, <2>2, <2>3
<1>5. pc[Producer] \in {"test", "retest"} => (Full(Producer) <=> i - taken = BUFFSIZE)
  <2>1. CASE pc[Producer] = "test"
    <3>1. hidx[Producer] = Node(taken) /\ tidx[Producer] = Node(i)
      BY <2>1 DEF IInv, Indices
    <3>2. QED  BY <1>1, <1>2, <1>4, <3>1, <2>1, <1>3 DEF Full
  <2>2. CASE pc[Producer] = "retest"
    <3>1. hidx[Producer] = Node(i) /\ tidx[Producer] = Node(i)
      BY <2>2 DEF IInv, Indices
    <3>2. QED  BY <1>1, <1>2, <1>3, <1>4, <3>1 DEF Full
  <2>3. QED  BY <2>1, <2>2
<1>6. pc[Consumer] \in {"test", "retest"} => (Empty(Consumer) <=> i = taken)
  <2>1. CASE pc[Consumer] = "test"
    <3>1. hidx[Consumer] = Node(taken) /\ tidx[Consumer] = Node(i)
      BY <2>1 DEF IInv, Indices
    <3>2. QED  BY <1>1, <1>2, <1>4, <3>1, <1>3 DEF Empty
  <2>2. CASE pc[Consumer] = "retest"
    <3>1. hidx[Consumer] = Node(taken) /\ tidx[Consumer] = Node(taken)
      BY <2>2 DEF IInv, Indices
    <3>2. QED  BY <1>1, <1>2, <1>3, <1>4, <3>1 DEF Empty
  <2>3. QED  BY <2>1, <2>2
<1>7. QED  BY <1>5, <1>6

-----------------------------------------------------------------------------
LEMMA Initially == Init => IInv
<1> SUFFICES ASSUME Init PROVE IInv
  OBVIOUS
<1> USE StaticQueueAssumption, SpuriousAssumption
<1>1. taken = 0  BY DEF Init, taken, Thread, Consumer
<1>2. TypeOK
  <2>1. 0 \in Slots /\ 0 \in 0 .. UINT32 - 1  BY DEF Slots
  <2>2. in_use \in [Slots -> {0, 1}] /\ data \in [Slots -> {Garbage} \union 0 .. TESTCASE - 1]
    BY DEF Init
  <2>3. /\ pc \in [Thread -> {"lock", "test", "wait", "retest", "check", "delete",
                              "exited"}]
        /\ hidx \in [Thread -> Slots] /\ tidx \in [Thread -> Slots]
    BY <2>1 DEF Init
  <2>4. freed \in BOOLEAN /\ waiters \in SUBSET Thread /\ lock \in Thread \union {None}
    BY DEF Init
  <2>5. /\ head \in 0 .. UINT32 - 1 /\ tail \in 0 .. UINT32 - 1
        /\ i \in 0 .. TESTCASE /\ counter \in 0 .. TESTCASE
        /\ td \in {Garbage} \union 0 .. TESTCASE - 1
        /\ result \in {0, -1} /\ spurious \in 0 .. MaxSpurious
    BY DEF Init
  <2>6. QED  BY <2>2, <2>3, <2>4, <2>5 DEF TypeOK
<1>3. Control
  BY DEF Init, Control, Thread, Producer, Consumer, None
<1>4. Indices
  <2>1. 0 % UINT32 = 0  BY ModIs
  <2>2. QED  BY <1>1, <2>1 DEF Init, Indices, Thread, Producer, Consumer
<1>5. RingWindow
  BY <1>1, NodeFacts DEF Init, RingWindow, Slots
<1>6. InOrder /\ NoLostWakeup
  BY DEF Init, InOrder, NoLostWakeup, Thread, Consumer
<1>7. QED  BY <1>2, <1>3, <1>4, <1>5, <1>6 DEF IInv

\* Steps that move no testdata keep the ring as it is.
LEMMA QuietRing ==
  ASSUME IInv, UNCHANGED <<queue, i, taken>>
  PROVE  RingWindow'
  BY DEF IInv, RingWindow, queue

LEMMA LockStep ==
  ASSUME IInv, NEW t \in Thread, Lock(t)
  PROVE  IInv'
<1> USE DEF Thread, Producer, Consumer, None
<1>1. UNCHANGED taken  BY DEF Lock, Goto, taken, IInv, TypeOK
<1>2. i \in Nat /\ taken \in Nat
  BY StaticQueueAssumption DEF IInv, TypeOK, taken
<1>3. Node(head) = Node(taken) /\ Node(tail) = Node(i)
  BY <1>2, NodeFacts DEF IInv, Indices
<1>4. TypeOK'
  <2>1. Node(head) \in Slots /\ Node(tail) \in Slots
    BY <1>2, <1>3, NodeFacts
  <2>2. QED  BY <2>1 DEF Lock, Acquire, Goto, IInv, TypeOK, queue
<1>5. Control'
  BY DEF Lock, Acquire, Goto, IInv, TypeOK, Control
<1>6. Indices'
  BY <1>1, <1>3 DEF Lock, Acquire, Goto, IInv, TypeOK, Indices, queue
<1>7. RingWindow'  BY <1>1, QuietRing DEF Lock
<1>8. InOrder' /\ NoLostWakeup'
  BY <1>1 DEF Lock, Goto, IInv, TypeOK, InOrder, NoLostWakeup
<1>9. QED  BY <1>4, <1>5, <1>6, <1>7, <1>8 DEF IInv

LEMMA WaitStep ==
  ASSUME IInv, NEW t \in Thread, Wait(t)
  PROVE  IInv'
<1> USE DEF Thread, Producer, Consumer, None
<1>1. UNCHANGED taken  BY DEF Wait, Goto, taken, IInv, TypeOK
<1>2. TypeOK'
  BY DEF Wait, Block, Release, Goto, IInv, TypeOK, queue, locals
<1>3. Control'
  BY DEF Wait, Block, Release, Goto, IInv, TypeOK, Control, queue, locals
<1>4. Indices'
  BY <1>1 DEF Wait, MustWait, Full, Empty, Goto, IInv, TypeOK, Indices, queue, locals
<1>5. RingWindow'  BY <1>1, QuietRing DEF Wait
<1>6. InOrder'
  BY <1>1 DEF Wait, Goto, IInv, TypeOK, InOrder
<1>7. NoLostWakeup'
  BY <1>1, TestsSound DEF Wait, Block, MustWait, Goto, IInv, TypeOK, NoLostWakeup
<1>8. QED  BY <1>2, <1>3, <1>4, <1>5, <1>6, <1>7 DEF IInv

LEMMA SpuriousStep ==
  ASSUME IInv, NEW t \in Thread, Spurious(t)
  PROVE  IInv'
<1> USE DEF Thread, Producer, Consumer, None
<1>1. UNCHANGED taken  BY DEF Spurious, WakeSpuriously, taken
<1>2. TypeOK'
  BY SpuriousAssumption DEF Spurious, WakeSpuriously, IInv, TypeOK, queue, locals
<1>3. Control' /\ Indices'
  BY <1>1 DEF Spurious, WakeSpuriously, IInv, Control, Indices, queue, locals
<1>4. RingWindow'  BY <1>1, QuietRing DEF Spurious
<1>5. InOrder' /\ NoLostWakeup'
  BY <1>1 DEF Spurious, WakeSpuriously, IInv, InOrder, NoLostWakeup
<1>6. QED  BY <1>2, <1>3, <1>4, <1>5 DEF IInv

LEMMA WakeStep ==
  ASSUME IInv, NEW t \in Thread, Wake(t)
  PROVE  IInv'
<1> USE DEF Thread, Producer, Consumer, None
<1>1. UNCHANGED taken  BY DEF Wake, Goto, taken, IInv, TypeOK
<1>2. TypeOK'
  BY DEF Wake, Unblock, Acquire, Goto, IInv, TypeOK, queue, locals
<1>3. Control'
  BY DEF Wake, Unblock, Acquire, Goto, IInv, TypeOK, Control, queue, locals
<1>4. Indices'
  BY <1>1 DEF Wake, Goto, IInv, TypeOK, Indices, queue, locals
<1>5. RingWindow'  BY <1>1, QuietRing DEF Wake
<1>6. InOrder' /\ NoLostWakeup'
  BY <1>1 DEF Wake, Goto, IInv, TypeOK, InOrder, NoLostWakeup
<1>7. QED  BY <1>2, <1>3, <1>4, <1>5, <1>6 DEF IInv

LEMMA RetryStep ==
  ASSUME IInv, NEW t \in Thread, Retry(t)
  PROVE  IInv'
<1> USE DEF Thread, Producer, Consumer, None
<1>1. UNCHANGED taken  BY DEF Retry, Goto, taken, IInv, TypeOK
<1>2. TypeOK'
  BY DEF Retry, Release, Goto, IInv, TypeOK, queue, locals
<1>3. Control'
  BY DEF Retry, Release, Goto, IInv, TypeOK, Control, queue, locals
<1>4. Indices'
  BY <1>1 DEF Retry, Goto, IInv, TypeOK, Indices, queue, locals
<1>5. RingWindow'  BY <1>1, QuietRing DEF Retry
<1>6. InOrder' /\ NoLostWakeup'
  BY <1>1 DEF Retry, Goto, IInv, TypeOK, InOrder, NoLostWakeup
<1>7. QED  BY <1>2, <1>3, <1>4, <1>5, <1>6 DEF IInv

LEMMA EnqueueStep ==
  ASSUME IInv, Enqueue
  PROVE  IInv'
<1> USE DEF Thread, Producer, Consumer, None
<1>1. UNCHANGED taken  BY DEF Enqueue, Goto, taken, IInv, TypeOK
<1>2. /\ i \in Nat /\ taken \in Nat /\ BUFFSIZE \in Nat \ {0}
      /\ i \in 0 .. TESTCASE - 1 /\ TESTCASE \in Nat
  BY StaticQueueAssumption DEF Enqueue, IInv, TypeOK, Control, taken
<1>3. i - taken \in 0 .. BUFFSIZE - 1 /\ tidx[Producer] = Node(i)
  BY <1>2, TestsSound DEF Enqueue, IInv, RingWindow, Indices
<1>4. Node(i) \in Slots  BY <1>2, NodeFacts
<1>5. waiters' \subseteq waiters
  BY DEF Enqueue, NotifyConsumer, SignalIf
<1>6. TypeOK'
  <2>1. tail' \in 0 .. UINT32 - 1
    BY <1>2, AdvanceFacts DEF Enqueue, IInv, Indices
  <2>2. in_use' \in [Slots -> {0, 1}]
    BY <1>3, <1>4 DEF Enqueue, IInv, TypeOK
  <2>3. data' \in [Slots -> {Garbage} \union 0 .. TESTCASE - 1]
    BY <1>2, <1>3, <1>4 DEF Enqueue, IInv, TypeOK
  <2>4. pc' \in [Thread -> {"lock", "test", "wait", "retest", "check", "delete",
                            "exited"}] /\ i' \in 0 .. TESTCASE
    BY <1>2 DEF Enqueue, Goto, IInv, TypeOK
  <2>5. QED
    BY <1>5, <2>1, <2>2, <2>3, <2>4 DEF Enqueue, Release, IInv, TypeOK, locals
<1>7. Control'
  BY <1>2, <1>5 DEF Enqueue, Release, Goto, IInv, TypeOK, Control, locals
<1>8. Indices'
  <2>1. tail' = i' % UINT32
    BY <1>2, AdvanceFacts DEF Enqueue, IInv, Indices
  <2>2. pc'[Consumer] = pc[Consumer] /\ pc'[Producer] \in {"lock", "exited"}
    BY DEF Enqueue, Goto, IInv, TypeOK
  <2>3. pc[Consumer] # "test"
    BY DEF Enqueue, IInv, Control
  <2>4. QED  BY <1>1, <2>1, <2>2, <2>3 DEF Enqueue, IInv, Indices, locals
<1>9. RingWindow'
  <2>1. i' - taken' \in 0 .. BUFFSIZE  BY <1>1, <1>2, <1>3 DEF Enqueue
  <2>2. ASSUME NEW k \in taken .. taken + BUFFSIZE - 1
        PROVE  IF k < i' THEN in_use'[Node(k)] = 1 /\ data'[Node(k)] = k
                         ELSE in_use'[Node(k)] = 0
    <3>1. k \in Nat /\ Node(k) \in Slots  BY <1>2, NodeFacts
    <3>2. /\ in_use' = [in_use EXCEPT ![Node(i)] = 1]
          /\ data' = [data EXCEPT ![Node(i)] = i]
          /\ i' = i + 1
      BY <1>3 DEF Enqueue
    <3>3. in_use \in [Slots -> {0, 1}] /\ DOMAIN data = Slots
      BY DEF IInv, TypeOK
    <3>4. CASE k = i  BY <1>2, <1>4, <3>2, <3>3, <3>4
    <3>5. CASE k # i
      <4>1. Node(k) # Node(i)
        BY <1>2, <1>3, <3>1, <3>5, NodeFacts
      <4>2. in_use'[Node(k)] = in_use[Node(k)] /\ data'[Node(k)] = data[Node(k)]
        BY <3>1, <3>2, <3>3, <4>1
      <4>3. k < i' <=> k < i  BY <1>2, <3>1, <3>2, <3>5
      <4>4. QED  BY <4>2, <4>3 DEF IInv, RingWindow
    <3>6. QED  BY <3>4, <3>5
  <2>3. QED  BY <1>1, <2>1, <2>2 DEF RingWindow
<1>10. InOrder'
  BY DEF Enqueue, Goto, IInv, TypeOK, InOrder
<1>11. NoLostWakeup'
  <2>1. Producer \notin waiters'
    BY <1>5 DEF Enqueue, IInv, Control
  <2>2. Consumer \notin waiters'
    <3>1. SUFFICES ASSUME Consumer \in waiters PROVE Consumer \notin waiters'
      BY <1>5
    <3>2. waiters = {Consumer}
      BY <3>1 DEF Enqueue, IInv, TypeOK, Control
    <3>3. i = taken  BY <3>1 DEF IInv, NoLostWakeup
    <3>4. hidx[Producer] = tidx[Producer]
      BY <1>3, <3>3 DEF Enqueue, IInv, Indices
    <3>5. QED  BY <3>2, <3>4 DEF Enqueue, Full, Empty, NotifyConsumer, SignalIf
  <2>3. QED  BY <2>1, <2>2 DEF NoLostWakeup
<1>12. QED  BY <1>6, <1>7, <1>8, <1>9, <1>10, <1>11 DEF IInv

LEMMA DequeueStep ==
  ASSUME IInv, Dequeue
  PROVE  IInv'
<1> USE DEF Thread, Producer, Consumer, None
<1>1. taken = counter /\ taken' = taken + 1
  BY DEF Dequeue, Goto, taken, IInv, TypeOK
<1>2. /\ i \in Nat /\ taken \in Nat /\ BUFFSIZE \in Nat \ {0}
      /\ counter \in 0 .. TESTCASE - 1 /\ TESTCASE \in Nat
  BY StaticQueueAssumption DEF Dequeue, IInv, TypeOK, Control, taken
<1>3. i - taken \in 1 .. BUFFSIZE /\ hidx[Consumer] = Node(taken)
  BY <1>2, TestsSound DEF Dequeue, IInv, RingWindow, Indices
<1>4. Node(taken) \in Slots  BY <1>2, NodeFacts
<1>5. waiters' \subseteq waiters
  BY DEF Dequeue, NotifyProducer, SignalIf
<1>6. data[Node(taken)] = taken
  BY <1>2, <1>3 DEF IInv, RingWindow
<1>7. TypeOK'
  <2>1. head' \in 0 .. UINT32 - 1
    BY <1>2, AdvanceFacts DEF Dequeue, IInv, Indices
  <2>2. in_use' \in [Slots -> {0, 1}]
    BY <1>3, <1>4 DEF Dequeue, IInv, TypeOK
  <2>3. td' \in {Garbage} \union 0 .. TESTCASE - 1
    BY <1>3, <1>4 DEF Dequeue, IInv, TypeOK
  <2>4. pc' \in [Thread -> {"lock", "test", "wait", "retest", "check", "delete",
                            "exited"}]
    BY DEF Dequeue, Goto, IInv, TypeOK
  <2>5. QED
    BY <1>5, <2>1, <2>2, <2>3, <2>4 DEF Dequeue, Release, IInv, TypeOK, locals
<1>8. Control'
  BY <1>2, <1>5 DEF Dequeue, Release, Goto, IInv, TypeOK, Control, locals
<1>9. Indices'
  <2>1. head' = taken' % UINT32
    BY <1>1, <1>2, AdvanceFacts DEF Dequeue, IInv, Indices
  <2>2. pc'[Producer] = pc[Producer] /\ pc'[Consumer] = "check"
    BY DEF Dequeue, Goto, IInv, TypeOK
  <2>3. pc[Producer] # "test"
    BY DEF Dequeue, IInv, Control
  <2>4. QED  BY <2>1, <2>2, <2>3 DEF Dequeue, IInv, Indices, locals
<1>10. RingWindow'
  <2>1. i' - taken' \in 0 .. BUFFSIZE  BY <1>1, <1>2, <1>3 DEF Dequeue
  <2>2. ASSUME NEW k \in taken + 1 .. taken + 1 + BUFFSIZE - 1
        PROVE  IF k < i THEN in_use'[Node(k)] = 1 /\ data[Node(k)] = k
                        ELSE in_use'[Node(k)] = 0
    <3>1. k \in Nat /\ Node(k) \in Slots  BY <1>2, NodeFacts
    <3>2. in_use' = [in_use EXCEPT ![Node(taken)] = 0]
      BY <1>3 DEF Dequeue
    <3>3. in_use \in [Slots -> {0, 1}]
      BY DEF IInv, TypeOK
    <3>4. CASE k = taken + BUFFSIZE
      <4>1. Node(k) = Node(taken)  BY <1>2, <3>4, NodeFacts
      <4>2. ~(k < i)  BY <1>2, <1>3, <3>4
      <4>3. QED  BY <1>4, <3>2, <3>3, <4>1, <4>2
    <3>5. CASE k # taken + BUFFSIZE
      <4>1. k \in taken .. taken + BUFFSIZE - 1 /\ taken < k /\ k < taken + BUFFSIZE
        BY <1>2, <3>5
      <4>2. Node(k) # Node(taken)
        BY <1>2, <3>1, <4>1, NodeFacts
      <4>3. in_use'[Node(k)] = in_use[Node(k)]
        BY <3>1, <3>2, <3>3, <4>2
      <4>4. QED  BY <4>1, <4>3 DEF IInv, RingWindow
    <3>6. QED  BY <3>4, <3>5
  <2>3. i' = i /\ data' = data  BY DEF Dequeue
  <2>4. QED  BY <1>1, <2>1, <2>2, <2>3 DEF RingWindow
<1>11. InOrder'
  BY <1>1, <1>3, <1>6 DEF Dequeue, IInv, InOrder
<1>12. NoLostWakeup'
  <2>1. Consumer \notin waiters'
    BY <1>5 DEF Dequeue, IInv, Control
  <2>2. Producer \notin waiters'
    <3>1. SUFFICES ASSUME Producer \in waiters PROVE Producer \notin waiters'
      BY <1>5
    <3>2. waiters = {Producer}
      BY <3>1 DEF Dequeue, IInv, TypeOK, Control
    <3>3. i = taken + BUFFSIZE  BY <1>2, <3>1 DEF IInv, NoLostWakeup
    <3>4. Node(i) = Node(taken)  BY <1>2, <3>3, NodeFacts
    <3>5. hidx[Consumer] = tidx[Consumer]
      BY <1>3, <3>4 DEF Dequeue, IInv, Indices
    <3>6. in_use[Node(taken)] = 1
      BY <1>2, <1>3 DEF IInv, RingWindow
    <3>7. QED  BY <1>3, <3>2, <3>5, <3>6 DEF Dequeue, Full, NotifyProducer, SignalIf
  <2>3. QED  BY <2>1, <2>2 DEF NoLostWakeup
<1>13. QED  BY <1>7, <1>8, <1>9, <1>10, <1>11, <1>12 DEF IInv

LEMMA CheckStep ==
  ASSUME IInv, Check
  PROVE  IInv'
<1> USE DEF Thread, Producer, Consumer, None
<1>1. td = counter /\ result = 0  BY DEF Check, monitor, IInv, InOrder
<1>2. counter \in 0 .. TESTCASE - 1 /\ TESTCASE \in Nat
  BY StaticQueueAssumption DEF Check, monitor, IInv, TypeOK, Control
<1>3. /\ counter' = counter + 1 /\ result' = 0
      /\ Goto(Consumer, IF counter + 1 < TESTCASE THEN "lock" ELSE "delete")
  BY <1>1 DEF Check
<1>4. UNCHANGED taken
  BY <1>2, <1>3 DEF Check, monitor, Goto, taken, IInv, TypeOK
<1>5. TypeOK'
  BY <1>2, <1>3 DEF Check, monitor, Goto, IInv, TypeOK, queue, locals
<1>6. Control'
  BY <1>2, <1>3 DEF Check, monitor, Goto, IInv, TypeOK, Control, queue, locals
<1>7. Indices'
  BY <1>3, <1>4 DEF Check, monitor, Goto, IInv, TypeOK, Indices, queue, locals
<1>8. RingWindow'  BY <1>4, QuietRing DEF Check
<1>9. InOrder' /\ NoLostWakeup'
  BY <1>2, <1>3, <1>4 DEF Check, monitor, Goto, IInv, TypeOK, InOrder, NoLostWakeup
<1>10. QED  BY <1>5, <1>6, <1>7, <1>8, <1>9 DEF IInv

LEMMA DeleteQueueStep ==
  ASSUME IInv, DeleteQueue
  PROVE  IInv'
<1> USE DEF Thread, Producer, Consumer, None
<1>1. UNCHANGED taken  BY DEF DeleteQueue, monitor, Goto, taken, IInv, TypeOK
<1>2. TypeOK'
  BY DEF DeleteQueue, monitor, Goto, IInv, TypeOK, queue, locals
<1>3. Control'
  BY DEF DeleteQueue, monitor, Goto, IInv, TypeOK, Control, queue, locals
<1>4. Indices'
  BY <1>1 DEF DeleteQueue, monitor, Goto, IInv, TypeOK, Indices, queue, locals
<1>5. RingWindow'  BY <1>1, QuietRing DEF DeleteQueue
<1>6. InOrder' /\ NoLostWakeup'
  BY <1>1 DEF DeleteQueue, monitor, Goto, IInv, TypeOK, InOrder, NoLostWakeup
<1>7. QED  BY <1>2, <1>3, <1>4, <1>5, <1>6 DEF IInv

LEMMA Inductive == IInv /\ [Next]_vars => IInv'
<1> SUFFICES ASSUME IInv, [Next]_vars PROVE IInv'
  OBVIOUS
<1>1. ASSUME NEW t \in Thread, Step(t) PROVE IInv'
  BY <1>1, LockStep, WaitStep, WakeStep, RetryStep, EnqueueStep, DequeueStep,
     CheckStep, DeleteQueueStep DEF Step
<1>2. ASSUME NEW t \in Thread, Spurious(t) PROVE IInv'
  BY <1>2, SpuriousStep
<1>3. CASE UNCHANGED vars
  BY <1>3 DEF IInv, TypeOK, Control, Indices, RingWindow, InOrder, NoLostWakeup,
              taken, vars, monitor, queue, locals
<1>4. QED  BY <1>1, <1>2, <1>3 DEF Next, Exited

-----------------------------------------------------------------------------
LEMMA Invariance == Spec => []IInv
  BY Initially, Inductive, PTL DEF Spec

\* Every variable of static.c keeps its type; head and tail stay in range
\* though they wrap.
THEOREM TypeCorrect == Spec => []TypeOK
<1>1. IInv => TypeOK  BY DEF IInv
<1>2. QED  BY <1>1, Invariance, PTL

\* do_dequeue never meets a testdata out of order, lost or duplicated.
THEOREM Ordered == Spec => []InOrder
<1>1. IInv => InOrder  BY DEF IInv
<1>2. QED  BY <1>1, Invariance, PTL

\* in_use marks exactly the nodes between head and tail, for every ring length
\* that divides the range of the counters.
THEOREM RingCorrect == Spec => []RingWindow
<1>1. IInv => RingWindow  BY DEF IInv
<1>2. QED  BY <1>1, Invariance, PTL

\* The single condition variable and the conditional signals lose no wakeup.
THEOREM WakeupsKept == Spec => []NoLostWakeup
<1>1. IInv => NoLostWakeup  BY DEF IInv
<1>2. QED  BY <1>1, Invariance, PTL

\* delete_queue without a join is safe: the producer is done with the queue.
THEOREM FreedUnused == Spec => []NoUseAfterFree
<1>1. ASSUME IInv PROVE NoUseAfterFree
  <2>1. SUFFICES ASSUME freed PROVE pc[Producer] = "exited" /\ waiters = {}
    BY DEF NoUseAfterFree
  <2>2. pc[Consumer] = "exited" /\ counter = TESTCASE /\ taken = TESTCASE
    BY <1>1, <2>1 DEF IInv, Control, taken
  <2>3. i = TESTCASE
    BY <1>1, <2>2, StaticQueueAssumption DEF IInv, TypeOK, RingWindow
  <2>4. pc[Producer] = "exited"  BY <1>1, <2>3 DEF IInv, Control
  <2>5. waiters = {}
    BY <1>1, <2>2, <2>4 DEF IInv, TypeOK, Control, Thread
  <2>6. QED  BY <2>4, <2>5
<1>2. QED  BY <1>1, Invariance, PTL

-----------------------------------------------------------------------------
\* The queue of the bounded FIFO as the ring holds it, and what it holds.
Ring == [k \in 1 .. i - taken |-> data[Node(taken + k - 1)]]
InFlight == [k \in 1 .. i - taken |-> taken + k - 1]

Holds ==
    /\ Ring = InFlight /\ Ring \in Seq(Int) /\ Len(Ring) = i - taken
    /\ i \in Nat /\ taken \in Nat /\ i - taken \in 0 .. BUFFSIZE

LEMMA RingHoldsInFlight == IInv => Holds
<1> SUFFICES ASSUME IInv PROVE Holds
  OBVIOUS
<1>1. i \in Nat /\ taken \in Nat /\ i - taken \in 0 .. BUFFSIZE
  BY StaticQueueAssumption DEF IInv, TypeOK, RingWindow, taken
<1>2. ASSUME NEW k \in 1 .. i - taken PROVE data[Node(taken + k - 1)] = taken + k - 1
  <2>1. taken + k - 1 \in taken .. taken + BUFFSIZE - 1 /\ taken + k - 1 < i
    BY <1>1, StaticQueueAssumption
  <2>2. QED  BY <2>1 DEF IInv, RingWindow
<1>3. Ring = InFlight  BY <1>2 DEF Ring, InFlight
<1>4. InFlight \in Seq(Int) /\ Len(InFlight) = i - taken  BY <1>1 DEF InFlight
<1>5. QED  BY <1>1, <1>3, <1>4 DEF Holds

LEMMA RingHoldsAfter == IInv' => Holds'
  BY RingHoldsInFlight, PTL

\* enqueue is Put.
LEMMA EnqueueIsPut ==
  ASSUME IInv, IInv', Enqueue
  PROVE  Fifo!Put
<1>1. UNCHANGED <<taken, td>> /\ i' = i + 1
  BY DEF Enqueue, Goto, taken, IInv, TypeOK, Thread, Producer, Consumer
<1>2. i < TESTCASE /\ i - taken < BUFFSIZE
  <2>1. i \in Nat /\ taken \in Nat /\ i - taken \in 0 .. BUFFSIZE  BY RingHoldsInFlight DEF Holds
  <2>2. pc[Producer] \in {"test", "retest"} /\ ~Full(Producer)  BY DEF Enqueue
  <2>3. i - taken # BUFFSIZE  BY <2>2, TestsSound
  <2>4. i # TESTCASE  BY <2>2 DEF IInv, Control
  <2>5. i \in 0 .. TESTCASE  BY DEF IInv, TypeOK
  <2>6. QED  BY <2>1, <2>3, <2>4, <2>5, StaticQueueAssumption
<1>3. Ring' = Append(Ring, i)
  <2>1. Ring' = [k \in 1 .. i + 1 - taken |-> taken + k - 1]
    BY <1>1, RingHoldsInFlight, RingHoldsAfter DEF Holds, InFlight
  <2>2. Append(InFlight, i) = [k \in 1 .. i + 1 - taken |-> taken + k - 1]
    BY RingHoldsInFlight DEF Holds, InFlight
  <2>3. QED  BY <2>1, <2>2, RingHoldsInFlight DEF Holds
<1>4. QED  BY <1>1, <1>2, <1>3, RingHoldsInFlight DEF Holds, Fifo!Put, Ring

\* dequeue is Get.
LEMMA DequeueIsGet ==
  ASSUME IInv, IInv', Dequeue
  PROVE  Fifo!Get
<1>1. i' = i /\ taken' = taken + 1
  BY DEF Dequeue, Goto, taken, IInv, TypeOK, Thread, Producer, Consumer
<1>2. i - taken > 0 /\ td' = data[Node(taken)]
  BY RingHoldsInFlight, TestsSound, StaticQueueAssumption
     DEF Holds, Dequeue, IInv, Indices, Consumer
<1>3. Ring # <<>> /\ Head(Ring) = td'
  BY <1>2, RingHoldsInFlight DEF Holds, Ring
<1>4. Ring' = Tail(Ring)
  <2>1. /\ Ring' \in Seq(Int) /\ Len(Ring') = i - taken - 1
        /\ \A k \in 1 .. i - taken - 1 : Ring'[k] = taken + k
    <3>1. i' - taken' = i - taken - 1 /\ i \in Nat /\ taken \in Nat
      BY <1>1, RingHoldsInFlight DEF Holds
    <3>2. Ring' \in Seq(Int) /\ Len(Ring') = i' - taken'
      BY RingHoldsAfter DEF Holds
    <3>3. Ring' = [k \in 1 .. i' - taken' |-> taken' + k - 1]
      BY RingHoldsAfter DEF Holds, InFlight
    <3>4. ASSUME NEW k \in 1 .. i - taken - 1 PROVE Ring'[k] = taken + k
      <4>1. Ring'[k] = taken' + k - 1  BY <3>1, <3>3
      <4>2. QED  BY <1>1, <3>1, <4>1
    <3>5. QED  BY <3>1, <3>2, <3>4
  <2>2. /\ Tail(Ring) \in Seq(Int) /\ Len(Tail(Ring)) = i - taken - 1
        /\ \A k \in 1 .. i - taken - 1 : Tail(Ring)[k] = Ring[k + 1]
    BY <1>3, RingHoldsInFlight, HeadTailProperties DEF Holds
  <2>3. \A k \in 1 .. i - taken - 1 : Ring[k + 1] = taken + k
    BY RingHoldsInFlight DEF Holds, InFlight
  <2>4. QED  BY <2>1, <2>2, <2>3, SeqEqual
<1>5. QED  BY <1>1, <1>3, <1>4 DEF Fifo!Get, Ring

\* Every other step leaves the FIFO as it is.
LEMMA OtherStepsStutter ==
  ASSUME IInv, IInv', [Next]_vars, ~Enqueue, ~Dequeue
  PROVE  UNCHANGED Fifo!fifoVars
<1>1. UNCHANGED <<i, taken, td>>
  <2> USE DEF Thread, Producer, Consumer, IInv, TypeOK, taken, Goto
  <2>1. ASSUME NEW t \in Thread, Lock(t) PROVE UNCHANGED <<i, taken, td>>
    BY <2>1 DEF Lock
  <2>2. ASSUME NEW t \in Thread, Wait(t) PROVE UNCHANGED <<i, taken, td>>
    BY <2>2 DEF Wait
  <2>3. ASSUME NEW t \in Thread, Wake(t) PROVE UNCHANGED <<i, taken, td>>
    BY <2>3 DEF Wake
  <2>4. ASSUME NEW t \in Thread, Retry(t) PROVE UNCHANGED <<i, taken, td>>
    BY <2>4 DEF Retry
  <2>5. ASSUME NEW t \in Thread, Spurious(t) PROVE UNCHANGED <<i, taken, td>>
    BY <2>5 DEF Spurious
  <2>6. CASE Check  BY <2>6, StaticQueueAssumption DEF Check, InOrder
  <2>7. CASE DeleteQueue  BY <2>7 DEF DeleteQueue
  <2>8. CASE UNCHANGED vars  BY <2>8 DEF vars
  <2>9. QED
    BY <2>1, <2>2, <2>3, <2>4, <2>5, <2>6, <2>7, <2>8 DEF Next, Step, Exited
<1>2. Ring' = Ring  BY <1>1, RingHoldsInFlight, RingHoldsAfter DEF Holds, InFlight
<1>3. QED  BY <1>1, <1>2 DEF Fifo!fifoVars, Ring

\* enqueue and dequeue, with their locks, waits and spurious wakeups, do what the atomic
\* Put and Get of the bounded FIFO do, and nothing else that its users could see.
THEOREM RefinesFifo == Spec => Fifo!FifoSafety
<1>1. Init => Fifo!FifoInit
  <2> SUFFICES ASSUME Init PROVE Fifo!FifoInit
    OBVIOUS
  <2>1. i = 0 /\ taken = 0 /\ td = -1
    BY DEF Init, taken, Thread, Consumer, Garbage
  <2>2. QED  BY <2>1 DEF Fifo!FifoInit
<1>2. IInv /\ IInv' /\ [Next]_vars => [Fifo!FifoNext]_Fifo!fifoVars
  BY EnqueueIsPut, DequeueIsGet, OtherStepsStutter DEF Fifo!FifoNext
<1>3. QED  BY <1>1, <1>2, Invariance, PTL DEF Spec, Fifo!FifoSafety
=============================================================================
