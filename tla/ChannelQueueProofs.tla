------------------------- MODULE ChannelQueueProofs --------------------------
(***************************************************************************)
(* The ring queue of chan.c, for every number of testdata, every ring      *)
(* length that divides the range of the counters, and whatever words       *)
(* malloc leaves in head and tail: success is never reported wrongly, and  *)
(* a run without spurious wakeups whose counters start at the same node is *)
(* correct.                                                                *)
(***************************************************************************)
EXTENDS ChannelQueue, ModArithmetic

Labels == {"lock", "test", "wait", "woken", "check", "exited", "join"}

TypeOK ==
    /\ head \in 0 .. UINT32 - 1 /\ tail \in 0 .. UINT32 - 1
    /\ in_use \in [Slots -> {0, 1}] /\ data \in [Slots -> Int]
    /\ lock \in Worker \union {None} /\ waiters \in SUBSET Worker /\ spurious \in Nat
    /\ freed \in BOOLEAN
    /\ pc \in [Worker \union {Main} -> Labels]
    /\ hidx \in [Worker -> Slots] /\ tidx \in [Worker -> Slots]
    /\ i \in 0 .. TESTCASE /\ counter \in 0 .. TESTCASE
    /\ td \in Int /\ thd_result \in {0, -1}

\* What holds in every run: who has the mutex and who is blocked, how far the loops are,
\* and that do_dequeue counts only what it has compared.
Control ==
    /\ \A t \in Worker : lock = t <=> pc[t] \in {"test", "woken"}
    /\ \A t \in Worker : t \in waiters => pc[t] = "wait"
    /\ pc[Producer] \in {"lock", "test", "wait", "woken", "exited"}
    /\ pc[Producer] = "exited" <=> i = TESTCASE
    /\ pc[Consumer] \in {"lock", "test", "wait", "woken", "check", "exited"}
    /\ pc[Consumer] # "exited" => counter < TESTCASE /\ thd_result = 0
    /\ pc[Consumer] = "exited" => thd_result # 0 \/ counter = TESTCASE
    /\ pc[Consumer] # "check" /\ thd_result = 0 => td = counter - 1
    /\ freed => pc[Consumer] = "exited"

Basic == TypeOK /\ Control

\* The counters started from t0 and h0.
Offsets(t0, h0) == tail = (t0 + i) % UINT32 /\ head = (h0 + taken) % UINT32

\* Where the k-th testdata goes in a clean run.
At(h0, k) == Node(h0 + k)

Indices(h0) ==
    /\ pc[Producer] \in {"test", "wait", "woken"} => tidx[Producer] = At(h0, i)
    /\ pc[Producer] = "test" => hidx[Producer] = At(h0, taken)
    /\ pc[Producer] \in {"wait", "woken"} => hidx[Producer] = tidx[Producer]
    /\ pc[Consumer] \in {"test", "wait", "woken"} => hidx[Consumer] = At(h0, taken)
    /\ pc[Consumer] = "test" => tidx[Consumer] = At(h0, i)
    /\ pc[Consumer] \in {"wait", "woken"} => tidx[Consumer] = hidx[Consumer]

RingWindow(h0) ==
    /\ i - taken \in 0 .. BUFFSIZE
    /\ \A k \in taken .. taken + BUFFSIZE - 1 :
          IF k < i THEN in_use[At(h0, k)] = 1 /\ data[At(h0, k)] = k
                   ELSE in_use[At(h0, k)] = 0

\* A thread whose wait was ended by a signal need not test again.
Awake(t) == pc[t] = "woken" \/ (pc[t] = "wait" /\ t \notin waiters)
Wakeups ==
    /\ Producer \in waiters => i - taken = BUFFSIZE
    /\ Consumer \in waiters => i = taken
    /\ Awake(Producer) => i - taken # BUFFSIZE
    /\ Awake(Consumer) => i # taken

CleanInv(h0) == Indices(h0) /\ RingWindow(h0) /\ InOrder /\ Wakeups

StartedAt(t0, h0) ==
    /\ Offsets(t0, h0)
    /\ spurious = 0 /\ Node(t0) = Node(h0) => CleanInv(h0)

IInv == Basic /\ \E t0, h0 \in 0 .. UINT32 - 1 : StartedAt(t0, h0)

-----------------------------------------------------------------------------
\* Node(n) is a node; counters a ring apart share it, nearer ones do not.
LEMMA NodeFacts ==
  /\ \A n \in Nat : Node(n) \in Slots /\ Node(n + BUFFSIZE) = Node(n)
  /\ \A m, n \in Nat : m < n /\ n < m + BUFFSIZE => Node(m) # Node(n)
  /\ \A n \in Nat : Node(n % UINT32) = Node(n)
<1> USE ChannelQueueAssumption
<1>1. \A n \in Nat : Node(n) \in Slots  BY DivMod DEF Node, Slots
<1>2. \A n \in Nat : Node(n + BUFFSIZE) = Node(n)  BY ModPlusRing DEF Node
<1>3. \A m, n \in Nat : m < n /\ n < m + BUFFSIZE => Node(m) # Node(n)
  BY ModDistinct DEF Node
<1>4. \A n \in Nat : Node(n % UINT32) = Node(n)  BY ModMod DEF Node
<1>5. QED  BY <1>1, <1>2, <1>3, <1>4

\* The uint32_t counters stay in step with the loops.
LEMMA AdvanceFacts ==
  /\ \A n \in Nat : Advance(n % UINT32) = (n + 1) % UINT32
  /\ \A n \in Nat : n % UINT32 \in 0 .. UINT32 - 1
  /\ \A n \in Nat : Advance(n) \in 0 .. UINT32 - 1
<1> USE ChannelQueueAssumption
<1>1. \A n \in Nat : Advance(n % UINT32) = (n + 1) % UINT32  BY ModSucc DEF Advance
<1>2. \A n \in Nat : n % UINT32 \in 0 .. UINT32 - 1  BY DivMod
<1>3. QED  BY <1>1, <1>2 DEF Advance

-----------------------------------------------------------------------------
LEMMA BasicInitially == Init => Basic
<1> SUFFICES ASSUME Init PROVE Basic
  OBVIOUS
<1> USE ChannelQueueAssumption DEF Init, Worker, Producer, Consumer, Main, None
<1>1. 0 \in Slots  BY DEF Slots
<1>2. TypeOK
  <2>1. in_use \in [Slots -> {0, 1}] /\ data \in [Slots -> Int]  BY DEF Garbage
  <2>2. /\ pc \in [Worker \union {Main} -> Labels]
        /\ hidx \in [Worker -> Slots] /\ tidx \in [Worker -> Slots]
    BY <1>1 DEF Labels
  <2>3. /\ head \in 0 .. UINT32 - 1 /\ tail \in 0 .. UINT32 - 1
        /\ i \in 0 .. TESTCASE /\ counter \in 0 .. TESTCASE
        /\ td \in Int /\ thd_result \in {0, -1} /\ spurious \in Nat
    BY DEF Garbage
  <2>4. freed \in BOOLEAN /\ waiters \in SUBSET Worker /\ lock \in Worker \union {None}
    OBVIOUS
  <2>5. QED  BY <2>1, <2>2, <2>3, <2>4 DEF TypeOK
<1>3. Control  BY DEF Control, Garbage
<1>4. QED  BY <1>2, <1>3 DEF Basic

\* Basic does not depend on where the counters started: one step per action.
LEMMA BasicInductive == Basic /\ [Next]_vars => Basic'
<1> SUFFICES ASSUME Basic, [Next]_vars PROVE Basic'
  OBVIOUS
<1> USE DEF Basic, Worker, Producer, Consumer, Main, None, Labels
<1>1. ASSUME NEW t \in Worker, Lock(t) PROVE Basic'
  <2>1. Node(head) \in Slots /\ Node(tail) \in Slots
    BY ChannelQueueAssumption, NodeFacts DEF TypeOK
  <2>2. TypeOK'  BY <1>1, <2>1 DEF Lock, Acquire, Goto, TypeOK, queue
  <2>3. Control'  BY <1>1 DEF Lock, Acquire, Goto, TypeOK, Control
  <2>4. QED  BY <2>2, <2>3
<1>2. ASSUME NEW t \in Worker, Wait(t) PROVE Basic'
  <2>1. TypeOK'  BY <1>2 DEF Wait, Block, Release, Goto, TypeOK, queue, locals
  <2>2. Control'  BY <1>2 DEF Wait, Block, Release, Goto, TypeOK, Control
  <2>3. QED  BY <2>1, <2>2
<1>3. ASSUME NEW t \in Worker, Wake(t) PROVE Basic'
  <2>1. TypeOK'  BY <1>3 DEF Wake, Unblock, Acquire, Goto, TypeOK, queue, locals
  <2>2. Control'  BY <1>3 DEF Wake, Unblock, Acquire, Goto, TypeOK, Control
  <2>3. QED  BY <2>1, <2>2
<1>4. ASSUME NEW t \in Worker, Spurious(t) PROVE Basic'
  <2>1. TypeOK'  BY <1>4 DEF Spurious, WakeSpuriously, TypeOK, queue, locals
  <2>2. Control'  BY <1>4 DEF Spurious, WakeSpuriously, TypeOK, Control
  <2>3. QED  BY <2>1, <2>2
<1>5. CASE Enqueue
  <2>1. waiters' \subseteq waiters  BY <1>5 DEF Enqueue, NotifyConsumer, SignalIf
  <2>2. i \in 0 .. TESTCASE - 1 /\ TESTCASE \in Nat
    BY <1>5, ChannelQueueAssumption DEF Enqueue, Proceeds, TypeOK, Control
  <2>3. data' \in [Slots -> Int] /\ in_use' \in [Slots -> {0, 1}]
    BY <1>5 DEF Enqueue, TypeOK
  <2>4. tail' \in 0 .. UINT32 - 1
    BY <1>5, ChannelQueueAssumption, AdvanceFacts DEF Enqueue, TypeOK
  <2>5. i' \in 0 .. TESTCASE /\ pc' \in [Worker \union {Main} -> Labels]
    BY <1>5, <2>2 DEF Enqueue, EnqueueLoop, Goto, TypeOK
  <2>6. TypeOK'
    BY <1>5, <2>1, <2>3, <2>4, <2>5 DEF Enqueue, Release, TypeOK, locals
  <2>7. Control'
    BY <1>5, <2>1, <2>2
       DEF Enqueue, Proceeds, Release, EnqueueLoop, Goto, TypeOK, Control
  <2>8. QED  BY <2>6, <2>7
<1>6. CASE Dequeue
  <2>1. waiters' \subseteq waiters  BY <1>6 DEF Dequeue, NotifyProducer, SignalIf
  <2>2. head' \in 0 .. UINT32 - 1
    BY <1>6, ChannelQueueAssumption, AdvanceFacts DEF Dequeue, TypeOK
  <2>3. td' \in Int /\ in_use' \in [Slots -> {0, 1}]
    BY <1>6 DEF Dequeue, TypeOK
  <2>4. pc' \in [Worker \union {Main} -> Labels]
    BY <1>6 DEF Dequeue, Goto, TypeOK
  <2>5. TypeOK'
    BY <1>6, <2>1, <2>2, <2>3, <2>4 DEF Dequeue, Release, TypeOK, locals
  <2>6. Control'
    BY <1>6, <2>1 DEF Dequeue, Proceeds, Release, Goto, TypeOK, Control
  <2>7. QED  BY <2>5, <2>6
<1>7. CASE Check
  <2>1. counter \in 0 .. TESTCASE - 1 /\ TESTCASE \in Nat
    BY <1>7, ChannelQueueAssumption DEF Check, TypeOK, Control
  <2>2. TypeOK'
    BY <1>7, <2>1 DEF Check, Goto, TypeOK, monitor, queue, locals
  <2>3. Control'
    BY <1>7, <2>1 DEF Check, Goto, TypeOK, Control, monitor
  <2>4. QED  BY <2>2, <2>3
<1>8. CASE JoinAndDelete
  <2>1. TypeOK'  BY <1>8 DEF JoinAndDelete, Goto, TypeOK, monitor, queue, locals
  <2>2. Control'  BY <1>8 DEF JoinAndDelete, Join, Goto, TypeOK, Control, monitor
  <2>3. QED  BY <2>1, <2>2
<1>9. CASE UNCHANGED vars
  BY <1>9 DEF vars, monitor, queue, locals, TypeOK, Control
<1>10. QED
  BY <1>1, <1>2, <1>3, <1>4, <1>5, <1>6, <1>7, <1>8, <1>9 DEF Next, Step, Exited

LEMMA BasicHolds == Spec => []Basic
  BY BasicInitially, BasicInductive, PTL DEF Spec

\* main reports success only for a run in which every testdata came out in order,
\* whatever head and tail started from and however the waits ended.
THEOREM SuccessIsTrue == Spec => []SuccessMeansAll
<1>1. Basic => SuccessMeansAll
  BY ChannelQueueAssumption DEF Basic, TypeOK, Control, SuccessMeansAll
<1>2. QED  BY <1>1, BasicHolds, PTL

-----------------------------------------------------------------------------
\* Only enqueue and dequeue move the counters.
LEMMA QuietSteps ==
  ASSUME Basic, [Next]_vars, ~Enqueue, ~Dequeue
  PROVE  UNCHANGED <<queue, i, taken, td>>
<1> USE DEF Basic, TypeOK, Worker, Producer, Consumer, Main, Goto, taken
<1>1. ASSUME NEW t \in Worker, Lock(t) PROVE UNCHANGED <<queue, i, taken, td>>
  BY <1>1 DEF Lock
<1>2. ASSUME NEW t \in Worker, Wait(t) PROVE UNCHANGED <<queue, i, taken, td>>
  BY <1>2 DEF Wait
<1>3. ASSUME NEW t \in Worker, Wake(t) PROVE UNCHANGED <<queue, i, taken, td>>
  BY <1>3 DEF Wake
<1>4. ASSUME NEW t \in Worker, Spurious(t) PROVE UNCHANGED <<queue, i, taken, td>>
  BY <1>4 DEF Spurious
<1>5. CASE Check  BY <1>5 DEF Check, Control
<1>6. CASE JoinAndDelete  BY <1>6 DEF JoinAndDelete
<1>7. CASE UNCHANGED vars  BY <1>7 DEF vars
<1>8. QED  BY <1>1, <1>2, <1>3, <1>4, <1>5, <1>6, <1>7 DEF Next, Step, Exited

LEMMA Counts ==
  ASSUME Basic
  PROVE  /\ i \in Nat /\ taken \in Nat /\ BUFFSIZE \in Nat \ {0}
         /\ Enqueue => i' = i + 1 /\ taken' = taken
         /\ Dequeue => i' = i /\ taken' = taken + 1
<1> USE DEF Basic, TypeOK, Control, Worker, Producer, Consumer, Main, Goto, taken
<1>1. i \in Nat /\ taken \in Nat /\ BUFFSIZE \in Nat \ {0}  BY ChannelQueueAssumption
<1>2. Enqueue => i' = i + 1 /\ taken' = taken  BY DEF Enqueue, EnqueueLoop
<1>3. Dequeue => i' = i /\ taken' = taken + 1  BY DEF Dequeue, Proceeds
<1>4. QED  BY <1>1, <1>2, <1>3

LEMMA OffsetsKept ==
  ASSUME Basic, [Next]_vars, NEW t0 \in 0 .. UINT32 - 1, NEW h0 \in 0 .. UINT32 - 1,
         Offsets(t0, h0)
  PROVE  Offsets(t0, h0)'
<1>1. t0 \in Nat /\ h0 \in Nat /\ i \in Nat /\ taken \in Nat
  BY Counts, ChannelQueueAssumption
<1>2. CASE Enqueue
  <2>1. tail' = Advance((t0 + i) % UINT32) /\ head' = head
    BY <1>2 DEF Enqueue, Offsets
  <2>2. Advance((t0 + i) % UINT32) = (t0 + i + 1) % UINT32  BY <1>1, AdvanceFacts
  <2>3. t0 + (i + 1) = t0 + i + 1  BY <1>1
  <2>4. QED  BY <1>2, <2>1, <2>2, <2>3, Counts DEF Offsets
<1>3. CASE Dequeue
  <2>1. head' = Advance((h0 + taken) % UINT32) /\ tail' = tail
    BY <1>3 DEF Dequeue, Offsets
  <2>2. Advance((h0 + taken) % UINT32) = (h0 + taken + 1) % UINT32
    BY <1>1, AdvanceFacts
  <2>3. h0 + (taken + 1) = h0 + taken + 1  BY <1>1
  <2>4. QED  BY <1>3, <2>1, <2>2, <2>3, Counts DEF Offsets
<1>4. CASE ~Enqueue /\ ~Dequeue
  BY <1>4, QuietSteps DEF Offsets, queue
<1>5. QED  BY <1>2, <1>3, <1>4

\* The test of a clean run, in terms of where its counters started.
Wrap(n) == n % UINT32
StartNode(c, n) == (c - n) % BUFFSIZE

LEMMA StartFacts == \A a, n, c \in Nat : c = Wrap(a + n) => StartNode(c, n) = Node(a)
<1>1. \A a, n, c \in Nat : c = (a + n) % UINT32 => (c - n) % BUFFSIZE = a % BUFFSIZE
  BY ModStart, ChannelQueueAssumption
<1>2. QED  BY <1>1 DEF Wrap, StartNode, Node

LEMMA CleanMeans ==
  ASSUME Basic, NEW t0 \in 0 .. UINT32 - 1, NEW h0 \in 0 .. UINT32 - 1,
         Offsets(t0, h0)
  PROVE  Clean <=> spurious = 0 /\ Node(t0) = Node(h0)
<1>1. t0 \in Nat /\ h0 \in Nat /\ i \in Nat /\ taken \in Nat
  BY Counts, ChannelQueueAssumption
<1>2. tail \in Nat /\ head \in Nat  BY ChannelQueueAssumption DEF Basic, TypeOK
<1>3. tail = Wrap(t0 + i) /\ head = Wrap(h0 + taken)  BY DEF Offsets, Wrap
<1>4. StartNode(tail, i) = Node(t0)  BY <1>1, <1>2, <1>3, StartFacts
<1>5. StartNode(head, taken) = Node(h0)  BY <1>1, <1>2, <1>3, StartFacts
<1>6. QED  BY <1>4, <1>5 DEF Clean, StartNode
-----------------------------------------------------------------------------
\* A clean run: the counters start at the same node, and no wait has ended by itself.
CleanState(t0, h0) ==
    Basic /\ Offsets(t0, h0) /\ Node(t0) = Node(h0) /\ spurious = 0 /\ CleanInv(h0)

LEMMA NodeTogether ==
  \A a, b, n \in Nat : Node(a) = Node(b) => Node(a + n) = Node(b + n)
  BY ModTogether, ChannelQueueAssumption DEF Node

LEMMA CleanFacts ==
  ASSUME NEW t0 \in 0 .. UINT32 - 1, NEW h0 \in 0 .. UINT32 - 1, CleanState(t0, h0)
  PROVE  /\ i \in Nat /\ taken \in Nat /\ BUFFSIZE \in Nat \ {0}
         /\ i - taken \in 0 .. BUFFSIZE
         /\ Node(head) = At(h0, taken) /\ Node(tail) = At(h0, i)
         /\ \A k \in Nat : At(h0, k) \in Slots /\ At(h0, k + BUFFSIZE) = At(h0, k)
         /\ \A m, n \in Nat : m < n /\ n < m + BUFFSIZE => At(h0, m) # At(h0, n)
<1>1. /\ i \in Nat /\ taken \in Nat /\ BUFFSIZE \in Nat \ {0}
      /\ t0 \in Nat /\ h0 \in Nat
  BY Counts, ChannelQueueAssumption DEF CleanState
<1>2. i - taken \in 0 .. BUFFSIZE  BY DEF CleanState, CleanInv, RingWindow
<1>3. Node(head) = At(h0, taken)  BY <1>1, NodeFacts DEF CleanState, Offsets, At
<1>4. Node(tail) = At(h0, i)
  <2>1. Node(tail) = Node(t0 + i)  BY <1>1, NodeFacts DEF CleanState, Offsets
  <2>2. QED  BY <1>1, <2>1, NodeTogether DEF CleanState, At
<1>5. ASSUME NEW k \in Nat PROVE At(h0, k) \in Slots /\ At(h0, k + BUFFSIZE) = At(h0, k)
  <2>1. h0 + (k + BUFFSIZE) = (h0 + k) + BUFFSIZE /\ h0 + k \in Nat  BY <1>1
  <2>2. QED  BY <2>1, NodeFacts DEF At
<1>6. ASSUME NEW m \in Nat, NEW n \in Nat, m < n, n < m + BUFFSIZE
      PROVE  At(h0, m) # At(h0, n)
  <2>1. /\ h0 + m \in Nat /\ h0 + n \in Nat
        /\ h0 + m < h0 + n /\ h0 + n < (h0 + m) + BUFFSIZE
    BY <1>1, <1>6
  <2>2. QED  BY <2>1, NodeFacts DEF At
<1>7. QED  BY <1>1, <1>2, <1>3, <1>4, <1>5, <1>6

\* Before a wait the two tests mean what their names say; and a thread that goes on,
\* tested or woken, has room or testdata to go on with.
LEMMA TestsSound ==
  ASSUME NEW t0 \in 0 .. UINT32 - 1, NEW h0 \in 0 .. UINT32 - 1, CleanState(t0, h0)
  PROVE  /\ pc[Producer] = "test" => (Full(Producer) <=> i - taken = BUFFSIZE)
         /\ pc[Consumer] = "test" => (Empty(Consumer) <=> i = taken)
         /\ Proceeds(Producer) => i - taken # BUFFSIZE
         /\ Proceeds(Consumer) => i # taken
<1>1. /\ i \in Nat /\ taken \in Nat /\ BUFFSIZE \in Nat \ {0}
      /\ i - taken \in 0 .. BUFFSIZE
  BY CleanFacts
<1>2. i # taken => in_use[At(h0, taken)] = 1
  BY <1>1 DEF CleanState, CleanInv, RingWindow
<1>3. i - taken # BUFFSIZE => in_use[At(h0, i)] = 0
  BY <1>1 DEF CleanState, CleanInv, RingWindow
<1>4. At(h0, i) = At(h0, taken) <=> i = taken \/ i - taken = BUFFSIZE
  <2>1. CASE i = taken  BY <2>1
  <2>2. CASE i - taken = BUFFSIZE
    <3>1. i = taken + BUFFSIZE  BY <1>1, <2>2
    <3>2. QED  BY <1>1, <2>2, <3>1, CleanFacts
  <2>3. CASE i # taken /\ i - taken # BUFFSIZE
    <3>1. taken < i /\ i < taken + BUFFSIZE  BY <1>1, <2>3
    <3>2. At(h0, taken) # At(h0, i)  BY <1>1, <3>1, CleanFacts
    <3>3. QED  BY <2>3, <3>2
  <2>4. QED  BY <2>1, <2>2, <2>3
<1>5. ASSUME pc[Producer] = "test" PROVE Full(Producer) <=> i - taken = BUFFSIZE
  <2>1. hidx[Producer] = At(h0, taken) /\ tidx[Producer] = At(h0, i)
    BY <1>5 DEF CleanState, CleanInv, Indices
  <2>2. QED  BY <1>1, <1>2, <1>3, <1>4, <2>1 DEF Full
<1>6. ASSUME pc[Consumer] = "test" PROVE Empty(Consumer) <=> i = taken
  <2>1. hidx[Consumer] = At(h0, taken) /\ tidx[Consumer] = At(h0, i)
    BY <1>6 DEF CleanState, CleanInv, Indices
  <2>2. QED  BY <1>1, <1>2, <1>3, <1>4, <2>1 DEF Empty
<1>7. Proceeds(Producer) => i - taken # BUFFSIZE
  BY <1>5 DEF Proceeds, MustWait, CleanState, CleanInv, Wakeups, Awake, Producer
<1>8. Proceeds(Consumer) => i # taken
  BY <1>6 DEF Proceeds, MustWait, CleanState, CleanInv, Wakeups, Awake, Producer, Consumer
<1>9. QED  BY <1>5, <1>6, <1>7, <1>8
-----------------------------------------------------------------------------
\* Steps that move no testdata and leave the waits alone.
LEMMA QuietRing ==
  ASSUME NEW h0 \in 0 .. UINT32 - 1, CleanInv(h0), UNCHANGED <<queue, i, taken>>
  PROVE  RingWindow(h0)'
  BY DEF CleanInv, RingWindow, queue

LEMMA LockClean ==
  ASSUME NEW t0 \in 0 .. UINT32 - 1, NEW h0 \in 0 .. UINT32 - 1, CleanState(t0, h0),
         NEW t \in Worker, Lock(t)
  PROVE  CleanInv(h0)'
<1> USE DEF CleanState, Basic, TypeOK, Worker, Producer, Consumer, Main, None
<1>1. UNCHANGED taken  BY DEF Lock, Goto, taken
<1>2. Node(head) = At(h0, taken) /\ Node(tail) = At(h0, i)  BY CleanFacts
<1>3. Indices(h0)'  BY <1>1, <1>2 DEF Lock, Goto, CleanInv, Indices
<1>4. RingWindow(h0)'  BY <1>1, QuietRing DEF Lock
<1>5. InOrder'  BY DEF Lock, Goto, CleanInv, InOrder
<1>6. Wakeups'  BY <1>1 DEF Lock, Goto, CleanInv, Wakeups, Awake
<1>7. QED  BY <1>3, <1>4, <1>5, <1>6 DEF CleanInv

LEMMA WaitClean ==
  ASSUME NEW t0 \in 0 .. UINT32 - 1, NEW h0 \in 0 .. UINT32 - 1, CleanState(t0, h0),
         NEW t \in Worker, Wait(t)
  PROVE  CleanInv(h0)'
<1> USE DEF CleanState, Basic, TypeOK, Worker, Producer, Consumer, Main, None
<1>1. UNCHANGED taken  BY DEF Wait, Goto, taken
<1>2. Indices(h0)'
  BY <1>1 DEF Wait, MustWait, Full, Empty, Goto, CleanInv, Indices, locals
<1>3. RingWindow(h0)'  BY <1>1, QuietRing DEF Wait
<1>4. InOrder'  BY DEF Wait, Goto, CleanInv, InOrder
<1>5. Wakeups'
  BY <1>1, TestsSound DEF Wait, MustWait, Block, Goto, CleanInv, Wakeups, Awake
<1>6. QED  BY <1>2, <1>3, <1>4, <1>5 DEF CleanInv

LEMMA WakeClean ==
  ASSUME NEW t0 \in 0 .. UINT32 - 1, NEW h0 \in 0 .. UINT32 - 1, CleanState(t0, h0),
         NEW t \in Worker, Wake(t)
  PROVE  CleanInv(h0)'
<1> USE DEF CleanState, Basic, TypeOK, Worker, Producer, Consumer, Main, None
<1>1. UNCHANGED taken  BY DEF Wake, Goto, taken
<1>2. Indices(h0)'  BY <1>1 DEF Wake, Goto, CleanInv, Indices, locals
<1>3. RingWindow(h0)'  BY <1>1, QuietRing DEF Wake
<1>4. InOrder'  BY DEF Wake, Goto, CleanInv, InOrder
<1>5. Wakeups'  BY <1>1 DEF Wake, Unblock, Goto, CleanInv, Wakeups, Awake
<1>6. QED  BY <1>2, <1>3, <1>4, <1>5 DEF CleanInv

LEMMA CheckClean ==
  ASSUME NEW t0 \in 0 .. UINT32 - 1, NEW h0 \in 0 .. UINT32 - 1, CleanState(t0, h0),
         Check
  PROVE  CleanInv(h0)'
<1> USE DEF CleanState, Basic, TypeOK, Worker, Producer, Consumer, Main, None
<1>1. td = counter /\ thd_result = 0  BY DEF Check, CleanInv, InOrder
<1>2. /\ counter' = counter + 1 /\ thd_result' = 0 /\ i' = i
      /\ pc'[Consumer] \in {"lock", "exited"} /\ pc'[Producer] = pc[Producer]
  BY <1>1 DEF Check, Goto
<1>3. UNCHANGED taken  BY <1>1, <1>2 DEF Check, taken
<1>4. Indices(h0)'  BY <1>2, <1>3 DEF Check, CleanInv, Indices, locals
<1>5. RingWindow(h0)'  BY <1>3, QuietRing DEF Check
<1>6. InOrder'  BY <1>2 DEF InOrder
<1>7. Wakeups'  BY <1>2, <1>3 DEF Check, monitor, CleanInv, Wakeups, Awake, Control
<1>8. QED  BY <1>4, <1>5, <1>6, <1>7 DEF CleanInv

LEMMA DeleteClean ==
  ASSUME NEW t0 \in 0 .. UINT32 - 1, NEW h0 \in 0 .. UINT32 - 1, CleanState(t0, h0),
         JoinAndDelete
  PROVE  CleanInv(h0)'
<1> USE DEF CleanState, Basic, TypeOK, Worker, Producer, Consumer, Main, None
<1>1. UNCHANGED taken  BY DEF JoinAndDelete, Goto, taken
<1>2. pc'[Producer] = pc[Producer] /\ pc'[Consumer] = pc[Consumer]
  BY DEF JoinAndDelete, Goto
<1>3. Indices(h0)'  BY <1>1, <1>2 DEF JoinAndDelete, CleanInv, Indices, locals
<1>4. RingWindow(h0)'  BY <1>1, QuietRing DEF JoinAndDelete
<1>5. InOrder' /\ Wakeups'
  BY <1>1, <1>2 DEF JoinAndDelete, monitor, CleanInv, InOrder, Wakeups, Awake
<1>6. QED  BY <1>3, <1>4, <1>5 DEF CleanInv
LEMMA EnqueueClean ==
  ASSUME NEW t0 \in 0 .. UINT32 - 1, NEW h0 \in 0 .. UINT32 - 1, CleanState(t0, h0),
         Enqueue
  PROVE  CleanInv(h0)'
<1> USE DEF Worker, Producer, Consumer, Main, None
<1>1. TypeOK /\ Control /\ CleanInv(h0)  BY DEF CleanState, Basic
<1>2. /\ i \in Nat /\ taken \in Nat /\ BUFFSIZE \in Nat \ {0}
      /\ i' = i + 1 /\ taken' = taken
  BY Counts DEF CleanState
<1>3. i - taken \in 0 .. BUFFSIZE - 1
  BY <1>2, CleanFacts, TestsSound DEF Enqueue
<1>4. tidx[Producer] = At(h0, i)
  BY <1>1 DEF Enqueue, Proceeds, CleanInv, Indices
<1>5. At(h0, i) \in Slots  BY <1>2, CleanFacts
<1>6. waiters' \subseteq waiters  BY DEF Enqueue, NotifyConsumer, SignalIf
<1>7. /\ pc'[Consumer] = pc[Consumer] /\ pc'[Producer] \in {"lock", "exited"}
      /\ pc[Consumer] # "test"
  BY <1>1 DEF Enqueue, EnqueueLoop, Proceeds, Release, Goto, TypeOK, Control
<1>8. Indices(h0)'
  BY <1>1, <1>2, <1>7 DEF Enqueue, CleanInv, Indices, locals
<1>9. RingWindow(h0)'
  <2>1. i' - taken' \in 0 .. BUFFSIZE  BY <1>2, <1>3
  <2>2. ASSUME NEW k \in taken .. taken + BUFFSIZE - 1
        PROVE  IF k < i' THEN in_use'[At(h0, k)] = 1 /\ data'[At(h0, k)] = k
                         ELSE in_use'[At(h0, k)] = 0
    <3>1. k \in Nat /\ At(h0, k) \in Slots  BY <1>2, CleanFacts
    <3>2. /\ in_use' = [in_use EXCEPT ![At(h0, i)] = 1]
          /\ data' = [data EXCEPT ![At(h0, i)] = i]
      BY <1>4 DEF Enqueue
    <3>3. in_use \in [Slots -> {0, 1}] /\ DOMAIN data = Slots  BY <1>1 DEF TypeOK
    <3>4. CASE k = i  BY <1>2, <1>5, <3>2, <3>3, <3>4
    <3>5. CASE k # i
      <4>1. CASE k < i
        <5>1. i < k + BUFFSIZE  BY <1>2, <1>3, <3>1
        <5>2. At(h0, k) # At(h0, i)  BY <1>2, <3>1, <4>1, <5>1, CleanFacts
        <5>3. in_use'[At(h0, k)] = in_use[At(h0, k)] /\ data'[At(h0, k)] = data[At(h0, k)]
          BY <3>1, <3>2, <3>3, <5>2
        <5>4. k < i'  BY <1>2, <3>1, <4>1
        <5>5. QED  BY <1>1, <4>1, <5>3, <5>4 DEF CleanInv, RingWindow
      <4>2. CASE i < k
        <5>1. k < i + BUFFSIZE  BY <1>2, <1>3, <3>1
        <5>2. At(h0, i) # At(h0, k)  BY <1>2, <3>1, <4>2, <5>1, CleanFacts
        <5>3. in_use'[At(h0, k)] = in_use[At(h0, k)]
          BY <3>1, <3>2, <3>3, <5>2
        <5>4. ~(k < i') /\ ~(k < i)  BY <1>2, <3>1, <4>2
        <5>5. QED  BY <1>1, <5>3, <5>4 DEF CleanInv, RingWindow
      <4>3. QED  BY <1>2, <3>1, <3>5, <4>1, <4>2
    <3>6. QED  BY <3>4, <3>5
  <2>3. QED  BY <1>2, <2>1, <2>2 DEF RingWindow
<1>10. InOrder'  BY <1>1, <1>7 DEF Enqueue, CleanInv, InOrder
<1>11. Consumer \notin waiters'
  <2>1. SUFFICES ASSUME Consumer \in waiters PROVE Consumer \notin waiters'
    BY <1>6
  <2>2. waiters = {Consumer}
    BY <1>1, <2>1 DEF Enqueue, Proceeds, TypeOK, Control
  <2>3. i = taken  BY <1>1, <2>1 DEF CleanInv, Wakeups
  <2>4. hidx[Producer] = At(h0, i)
    BY <1>1, <1>4, <2>3 DEF Enqueue, Proceeds, CleanInv, Indices
  <2>5. in_use[At(h0, i)] = 0
    BY <1>1, <1>2, <2>3 DEF CleanInv, RingWindow
  <2>6. Empty(Producer)  BY <1>4, <2>4, <2>5 DEF Empty
  <2>7. QED  BY <2>2, <2>6 DEF Enqueue, NotifyConsumer, SignalIf
<1>12. Wakeups'
  <2>1. Producer \notin waiters'
    BY <1>1, <1>6 DEF Enqueue, Proceeds, Control
  <2>2. ~Awake(Producer)'  BY <1>7 DEF Awake
  <2>3. i' # taken'  BY <1>2, <1>3
  <2>4. QED  BY <1>11, <2>1, <2>2, <2>3 DEF Wakeups
<1>13. QED  BY <1>8, <1>9, <1>10, <1>12 DEF CleanInv

LEMMA DequeueClean ==
  ASSUME NEW t0 \in 0 .. UINT32 - 1, NEW h0 \in 0 .. UINT32 - 1, CleanState(t0, h0),
         Dequeue
  PROVE  CleanInv(h0)'
<1> USE DEF Worker, Producer, Consumer, Main, None
<1>1. TypeOK /\ Control /\ CleanInv(h0)  BY DEF CleanState, Basic
<1>2. /\ i \in Nat /\ taken \in Nat /\ BUFFSIZE \in Nat \ {0}
      /\ i' = i /\ taken' = taken + 1
  BY Counts DEF CleanState
<1>3. i - taken \in 1 .. BUFFSIZE
  BY <1>2, CleanFacts, TestsSound DEF Dequeue
<1>4. hidx[Consumer] = At(h0, taken)
  BY <1>1 DEF Dequeue, Proceeds, CleanInv, Indices
<1>5. At(h0, taken) \in Slots  BY <1>2, CleanFacts
<1>6. waiters' \subseteq waiters  BY DEF Dequeue, NotifyProducer, SignalIf
<1>7. /\ pc'[Producer] = pc[Producer] /\ pc'[Consumer] = "check"
      /\ pc[Producer] # "test" /\ pc[Consumer] \in {"test", "woken"}
  BY <1>1 DEF Dequeue, Proceeds, Release, Goto, TypeOK, Control
<1>8. Indices(h0)'
  BY <1>1, <1>2, <1>7 DEF Dequeue, CleanInv, Indices, locals
<1>9. RingWindow(h0)'
  <2>1. i' - taken' \in 0 .. BUFFSIZE  BY <1>2, <1>3
  <2>2. ASSUME NEW k \in taken + 1 .. taken + 1 + BUFFSIZE - 1
        PROVE  IF k < i THEN in_use'[At(h0, k)] = 1 /\ data[At(h0, k)] = k
                        ELSE in_use'[At(h0, k)] = 0
    <3>1. k \in Nat /\ At(h0, k) \in Slots  BY <1>2, CleanFacts
    <3>2. in_use' = [in_use EXCEPT ![At(h0, taken)] = 0]  BY <1>4 DEF Dequeue
    <3>3. in_use \in [Slots -> {0, 1}]  BY <1>1 DEF TypeOK
    <3>4. CASE k = taken + BUFFSIZE
      <4>1. At(h0, k) = At(h0, taken)  BY <1>2, <3>4, CleanFacts
      <4>2. ~(k < i)  BY <1>2, <1>3, <3>4
      <4>3. QED  BY <1>5, <3>2, <3>3, <4>1, <4>2
    <3>5. CASE k # taken + BUFFSIZE
      <4>1. k \in taken .. taken + BUFFSIZE - 1 /\ taken < k /\ k < taken + BUFFSIZE
        BY <1>2, <3>5
      <4>2. At(h0, taken) # At(h0, k)  BY <1>2, <3>1, <4>1, CleanFacts
      <4>3. in_use'[At(h0, k)] = in_use[At(h0, k)]  BY <3>1, <3>2, <3>3, <4>2
      <4>4. QED  BY <1>1, <4>1, <4>3 DEF CleanInv, RingWindow
    <3>6. QED  BY <3>4, <3>5
  <2>3. data' = data  BY DEF Dequeue
  <2>4. QED  BY <1>2, <2>1, <2>2, <2>3 DEF RingWindow
<1>10. InOrder'
  <2>1. taken = counter  BY <1>1, <1>7 DEF taken, CleanInv, InOrder
  <2>2. data[At(h0, taken)] = taken
    BY <1>1, <1>2, <1>3 DEF CleanInv, RingWindow
  <2>3. QED  BY <1>1, <1>4, <2>1, <2>2 DEF Dequeue, CleanInv, InOrder
<1>11. Producer \notin waiters'
  <2>1. SUFFICES ASSUME Producer \in waiters PROVE Producer \notin waiters'
    BY <1>6
  <2>2. waiters = {Producer}
    BY <1>1, <1>7, <2>1 DEF TypeOK, Control
  <2>3. i = taken + BUFFSIZE  BY <1>1, <1>2, <2>1 DEF CleanInv, Wakeups
  <2>4. At(h0, i) = At(h0, taken)  BY <1>2, <2>3, CleanFacts
  <2>5. tidx[Consumer] = At(h0, taken)
    BY <1>1, <1>4, <1>7, <2>4 DEF CleanInv, Indices
  <2>6. in_use[At(h0, taken)] = 1
    BY <1>1, <1>2, <1>3 DEF CleanInv, RingWindow
  <2>7. Full(Consumer)  BY <1>4, <2>5, <2>6 DEF Full
  <2>8. QED  BY <2>2, <2>7 DEF Dequeue, NotifyProducer, SignalIf
<1>12. Wakeups'
  <2>1. Consumer \notin waiters'  BY <1>1, <1>6, <1>7 DEF Control
  <2>2. ~Awake(Consumer)'  BY <1>7 DEF Awake
  <2>3. i' - taken' # BUFFSIZE  BY <1>2, <1>3
  <2>4. QED  BY <1>11, <2>1, <2>2, <2>3 DEF Wakeups
<1>13. QED  BY <1>8, <1>9, <1>10, <1>12 DEF CleanInv

-----------------------------------------------------------------------------
LEMMA Initially == Init => IInv
<1> SUFFICES ASSUME Init PROVE IInv
  OBVIOUS
<1> USE ChannelQueueAssumption
<1>1. Basic  BY BasicInitially
<1>2. i = 0 /\ taken = 0 /\ spurious = 0 /\ head \in Nat /\ tail \in Nat
  BY DEF Init, taken, Worker, Consumer, Main
<1>3. Offsets(tail, head)
  <2>1. tail = tail % UINT32 /\ head = head % UINT32
    BY <1>1, ModIs DEF Basic, TypeOK
  <2>2. tail + 0 = tail /\ head + 0 = head  BY <1>2
  <2>3. QED  BY <1>2, <2>1, <2>2 DEF Offsets
<1>4. CleanInv(head)
  <2>1. \A k \in Nat : At(head, k) \in Slots
    BY <1>2, NodeFacts DEF At
  <2>2. RingWindow(head)
    BY <1>2, <2>1 DEF Init, RingWindow, Slots
  <2>3. Indices(head) /\ InOrder /\ Wakeups
    BY DEF Init, Indices, InOrder, Wakeups, Awake, Worker, Producer, Consumer, Main
  <2>4. QED  BY <2>2, <2>3 DEF CleanInv
<1>5. tail \in 0 .. UINT32 - 1 /\ head \in 0 .. UINT32 - 1  BY <1>1 DEF Basic, TypeOK
<1>6. QED  BY <1>1, <1>3, <1>4, <1>5 DEF IInv, StartedAt

LEMMA Inductive == IInv /\ [Next]_vars => IInv'
<1> SUFFICES ASSUME IInv, [Next]_vars PROVE IInv'
  OBVIOUS
<1>1. PICK t0, h0 \in 0 .. UINT32 - 1 : StartedAt(t0, h0)  BY DEF IInv
<1>2. Basic /\ Basic'  BY BasicInductive DEF IInv
<1>3. Offsets(t0, h0) /\ Offsets(t0, h0)'  BY <1>1, <1>2, OffsetsKept DEF StartedAt
<1>4. ASSUME spurious' = 0, Node(t0) = Node(h0) PROVE CleanInv(h0)'
  <2>1. spurious = 0 /\ \A t \in Worker : ~Spurious(t)
    BY <1>2, <1>4, SMTT(30) DEF Basic, TypeOK, Next, Step, Exited, vars, monitor, Lock, Wait,
          Wake, Enqueue, Dequeue, Check, JoinAndDelete, Spurious, WakeSpuriously
  <2>2. CleanState(t0, h0)
    BY <1>1, <1>2, <1>4, <2>1 DEF CleanState, StartedAt
  <2>3. CASE UNCHANGED vars
    <3>1. CleanInv(h0)  BY <2>2 DEF CleanState
    <3>2. QED  BY <2>3, <3>1 DEF vars, monitor, queue, locals, CleanInv, Indices, RingWindow,
                            InOrder, Wakeups, Awake, taken
  <2>4. QED
    BY <2>1, <2>2, <2>3, LockClean, WaitClean, WakeClean, EnqueueClean, DequeueClean,
       CheckClean, DeleteClean DEF Next, Step, Exited
<1>5. QED  BY <1>2, <1>3, <1>4 DEF IInv, StartedAt

\* In a clean run of chan.c, testdata arrive in order and a thread is blocked only while
\* the ring is full or empty: for every number of testdata, ring length and common
\* starting node.
THEOREM CleanIsCorrect == Spec => []CleanRunsCorrect
<1>1. IInv => CleanRunsCorrect
  <2> SUFFICES ASSUME IInv, Clean PROVE CleanRunsCorrect
    BY DEF CleanRunsCorrect
  <2>1. PICK t0, h0 \in 0 .. UINT32 - 1 : StartedAt(t0, h0)  BY DEF IInv
  <2>2. CleanInv(h0)  BY <2>1, CleanMeans DEF IInv, StartedAt
  <2>3. QED  BY <2>2 DEF CleanRunsCorrect, CleanInv, Wakeups
<1>2. QED  BY <1>1, Initially, Inductive, PTL DEF Spec
=============================================================================
