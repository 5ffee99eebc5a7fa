------------------------- MODULE DynamicQueueProofs --------------------------
(***************************************************************************)
(* The linked queue of dynamic.c, for every number of testdata, every      *)
(* limit above 1 and every heap: the doubly linked list is always well     *)
(* formed, testdata arrive in order or the process has crashed after a     *)
(* spurious wakeup, and enqueue and dequeue are Put and Get of a FIFO.     *)
(***************************************************************************)
EXTENDS DynamicQueue, FiniteSetTheorems, SequenceTheorems, TLAPS

Labels == {"lock", "full or empty", "wait", "go", "check", "delete", "delete locked",
           "exited"}

TypeOK ==
    /\ live \in SUBSET Addr
    /\ prev \in [Addr -> Addr \union {NULL}] /\ next \in [Addr -> Addr \union {NULL}]
    /\ data \in [Addr -> Int]
    /\ lock \in Thread \union {None} /\ waiters \in SUBSET Thread
    /\ spurious \in 0 .. MaxSpurious
    /\ fault \in BOOLEAN /\ freed \in BOOLEAN
    /\ pc \in [Thread -> Labels]
    /\ i \in 0 .. TESTCASE /\ counter \in 0 .. TESTCASE /\ td \in Int

\* Who holds the mutex, who may be blocked, and how far each loop is.
Control ==
    /\ \A t \in Thread : lock = t <=> pc[t] \in {"full or empty", "go"}
    /\ \A t \in Thread : t \in waiters => pc[t] = "wait"
    /\ pc[Producer] \in {"lock", "full or empty", "wait", "go", "exited"}
    /\ pc[Producer] = "exited" <=> i = TESTCASE
    /\ pc[Consumer] \in {"delete", "delete locked", "exited"} <=> counter = TESTCASE
    /\ freed => pc[Consumer] = "exited"
    /\ pc[Consumer] = "check" => td = counter
    /\ result = 0

\* The list, by the testdata in its nodes: no two nodes hold the same one.
Content ==
    /\ len = i - taken /\ len \in Nat
    /\ IsFiniteSet(live) /\ Cardinality(live) = len
    /\ \A a, b \in live : data[a] = data[b] => a = b
    /\ {data[a] : a \in live} = taken .. i - 1
Links ==
    /\ qhead = NodeOf(i - 1) /\ qtail = NodeOf(taken)
    /\ \A a \in live : /\ next[a] = NodeOf(data[a] - 1)
                       /\ prev[a] = NodeOf(data[a] + 1)

\* As long as no wakeup is spurious, a thread that goes on after its wait need
\* not test again.
Awake(t) == pc[t] = "go" \/ (pc[t] = "wait" /\ t \notin waiters)
Blocked(t) == pc[t] = "full or empty" \/ t \in waiters
Wakeups ==
    /\ ~fault /\ len <= LIMIT
    /\ Blocked(Producer) => len = LIMIT
    /\ Blocked(Consumer) => len = 0
    /\ Awake(Producer) => len # LIMIT
    /\ Awake(Consumer) => len # 0

IInv ==
    /\ TypeOK
    /\ Control
    /\ Content
    /\ Links
    /\ spurious = 0 => Wakeups
-----------------------------------------------------------------------------
\* NodeOf finds the node of every testdata in flight, and nothing else.
Nodes ==
    /\ \A k \in taken .. i - 1 : NodeOf(k) \in live /\ data[NodeOf(k)] = k
    /\ \A a \in live : data[a] \in taken .. i - 1 /\ NodeOf(data[a]) = a
    /\ \A k \in Int : k \notin taken .. i - 1 => NodeOf(k) = NULL

LEMMA NodesFound == Content => Nodes
<1> SUFFICES ASSUME Content PROVE Nodes
  OBVIOUS
<1>1. \A k : (\E a \in live : data[a] = k) => NodeOf(k) \in live /\ data[NodeOf(k)] = k
  BY DEF NodeOf
<1>2. \A k \in taken .. i - 1 : \E a \in live : data[a] = k  BY DEF Content
<1>3. \A a \in live : data[a] \in taken .. i - 1  BY DEF Content
<1>4. ASSUME NEW a \in live PROVE NodeOf(data[a]) = a
  BY <1>1 DEF Content
<1>5. \A k \in Int : k \notin taken .. i - 1 => NodeOf(k) = NULL
  BY <1>3 DEF NodeOf
<1>6. QED  BY <1>1, <1>2, <1>3, <1>4, <1>5 DEF Nodes

LEMMA NodesFoundAfter == Content' => Nodes'
  BY NodesFound, PTL

LEMMA Counts ==
  ASSUME IInv
  PROVE  /\ i \in Nat /\ taken \in Nat /\ len \in Nat /\ i = taken + len
         /\ LIMIT \in Nat /\ LIMIT > 1 /\ TESTCASE \in Nat /\ i <= TESTCASE
<1>1. i \in Nat /\ taken \in Nat /\ i <= TESTCASE /\ TESTCASE \in Nat
  BY DynamicQueueAssumption DEF IInv, TypeOK, taken
<1>2. len \in Nat /\ i = taken + len  BY <1>1 DEF IInv, Content
<1>3. QED  BY <1>1, <1>2, DynamicQueueAssumption

\* The list is empty when len is 0; otherwise both ends are nodes, and a list of
\* two or more has a node behind the oldest.
LEMMA Ends ==
  ASSUME IInv
  PROVE  /\ len = 0 => live = {} /\ qtail \notin live
         /\ len # 0 => qhead \in live /\ data[qhead] = i - 1
         /\ len # 0 => qtail \in live /\ data[qtail] = taken
         /\ len # 0 /\ len # 1 => /\ prev[qtail] \in live
                                  /\ prev[qtail] = NodeOf(taken + 1)
                                  /\ data[prev[qtail]] = taken + 1
<1>1. Nodes  BY NodesFound DEF IInv
<1>2. /\ i \in Nat /\ taken \in Nat /\ len \in Nat /\ i = taken + len  BY Counts
<1>3. len = 0 => live = {}
  <2>1. len = 0 => taken .. i - 1 = {}  BY <1>2
  <2>2. QED  BY <1>1, <2>1 DEF Nodes
<1>4. ASSUME len # 0 PROVE /\ qhead \in live /\ data[qhead] = i - 1
                           /\ qtail \in live /\ data[qtail] = taken
  <2>1. i - 1 \in taken .. i - 1 /\ taken \in taken .. i - 1  BY <1>2, <1>4
  <2>2. QED  BY <1>1, <2>1 DEF Nodes, IInv, Links
<1>5. ASSUME len # 0, len # 1
      PROVE  /\ prev[qtail] \in live /\ prev[qtail] = NodeOf(taken + 1)
             /\ data[prev[qtail]] = taken + 1
  <2>1. taken + 1 \in taken .. i - 1  BY <1>2, <1>5
  <2>2. prev[qtail] = NodeOf(taken + 1)  BY <1>4, <1>5 DEF IInv, Links
  <2>3. QED  BY <1>1, <2>1, <2>2 DEF Nodes
<1>6. QED  BY <1>3, <1>4, <1>5

-----------------------------------------------------------------------------
LEMMA Initially == Init => IInv
<1> SUFFICES ASSUME Init PROVE IInv
  OBVIOUS
<1> USE DynamicQueueAssumption, SpuriousAssumption DEF Thread, Producer, Consumer, None
<1>1. taken = 0 /\ i = 0 /\ len = 0 /\ live = {}  BY DEF Init, taken
<1>2. TypeOK
  <2>1. /\ prev \in [Addr -> Addr \union {NULL}] /\ next \in [Addr -> Addr \union {NULL}]
        /\ data \in [Addr -> Int]
    BY DEF Init, Garbage
  <2>2. pc \in [Thread -> Labels]  BY DEF Init, Labels
  <2>3. /\ i \in 0 .. TESTCASE /\ counter \in 0 .. TESTCASE /\ td \in Int
        /\ spurious \in 0 .. MaxSpurious
    BY DEF Init, Garbage
  <2>4. QED  BY <2>1, <2>2, <2>3 DEF Init, TypeOK
<1>3. Control  BY DEF Init, Control
<1>4. Content
  <2>1. IsFiniteSet(live) /\ Cardinality(live) = 0  BY <1>1, FS_EmptySet
  <2>2. taken .. i - 1 = {}  BY <1>1
  <2>3. QED  BY <1>1, <2>1, <2>2 DEF Content
<1>5. Links
  BY <1>1 DEF Init, Links, NodeOf
<1>6. Wakeups  BY DEF Init, Wakeups, Awake, Blocked
<1>7. QED  BY <1>2, <1>3, <1>4, <1>5, <1>6 DEF IInv

\* Steps that move no testdata leave the list as it is.
LEMMA QuietList ==
  ASSUME IInv, UNCHANGED <<queue, i, taken>>
  PROVE  Content' /\ Links'
<1>1. Content'  BY DEF IInv, Content, queue
<1>2. \A k : NodeOf(k)' = NodeOf(k)  BY DEF NodeOf, queue
<1>3. Links'  BY <1>2 DEF IInv, Links, queue, NodeOf
<1>4. QED  BY <1>1, <1>3
LEMMA LockStep ==
  ASSUME IInv, NEW t \in Thread, Lock(t)
  PROVE  IInv'
<1> USE DEF Thread, Producer, Consumer, None
<1>1. UNCHANGED <<i, taken>>  BY DEF Lock, Goto, taken, IInv, TypeOK
<1>2. TypeOK'  BY DEF Lock, Acquire, Goto, IInv, TypeOK, queue, Labels
<1>3. Control'  BY DEF Lock, Acquire, Goto, IInv, TypeOK, Control
<1>4. Content' /\ Links'  BY <1>1, QuietList DEF Lock
<1>5. spurious' = 0 => Wakeups'
  BY DEF Lock, Goto, MustWait, IInv, TypeOK, Control, Wakeups, Awake, Blocked, queue
<1>6. QED  BY <1>2, <1>3, <1>4, <1>5 DEF IInv

LEMMA WaitStep ==
  ASSUME IInv, NEW t \in Thread, Wait(t)
  PROVE  IInv'
<1> USE DEF Thread, Producer, Consumer, None
<1>1. UNCHANGED <<i, taken>>  BY DEF Wait, Goto, taken, IInv, TypeOK
<1>2. TypeOK'  BY DEF Wait, Block, Release, Goto, IInv, TypeOK, queue, Labels
<1>3. Control'  BY DEF Wait, Block, Release, Goto, IInv, TypeOK, Control
<1>4. Content' /\ Links'  BY <1>1, QuietList DEF Wait
<1>5. spurious' = 0 => Wakeups'
  BY DEF Wait, Block, Goto, IInv, TypeOK, Control, Wakeups, Awake, Blocked, queue
<1>6. QED  BY <1>2, <1>3, <1>4, <1>5 DEF IInv

LEMMA WakeStep ==
  ASSUME IInv, NEW t \in Thread, Wake(t)
  PROVE  IInv'
<1> USE DEF Thread, Producer, Consumer, None
<1>1. UNCHANGED <<i, taken>>  BY DEF Wake, Goto, taken, IInv, TypeOK
<1>2. TypeOK'  BY DEF Wake, Unblock, Acquire, Goto, IInv, TypeOK, queue, Labels
<1>3. Control'  BY DEF Wake, Unblock, Acquire, Goto, IInv, TypeOK, Control
<1>4. Content' /\ Links'  BY <1>1, QuietList DEF Wake
<1>5. spurious' = 0 => Wakeups'
  BY DEF Wake, Unblock, Goto, IInv, TypeOK, Control, Wakeups, Awake, Blocked, queue
<1>6. QED  BY <1>2, <1>3, <1>4, <1>5 DEF IInv

LEMMA SpuriousStep ==
  ASSUME IInv, NEW t \in Thread, Spurious(t)
  PROVE  IInv'
<1> USE SpuriousAssumption DEF Thread, Producer, Consumer, None
<1>1. UNCHANGED <<i, taken>>  BY DEF Spurious, taken
<1>2. TypeOK'  BY DEF Spurious, WakeSpuriously, IInv, TypeOK, queue
<1>3. Control'  BY DEF Spurious, WakeSpuriously, IInv, Control
<1>4. Content' /\ Links'  BY <1>1, QuietList DEF Spurious
<1>5. spurious' # 0  BY DEF Spurious, WakeSpuriously, IInv, TypeOK
<1>6. QED  BY <1>2, <1>3, <1>4, <1>5 DEF IInv

LEMMA CheckStep ==
  ASSUME IInv, Check
  PROVE  IInv'
<1> USE DEF Thread, Producer, Consumer, None
<1>1. td = counter  BY DEF Check, IInv, Control
<1>2. counter \in 0 .. TESTCASE - 1 /\ TESTCASE \in Nat
  <2>1. pc[Consumer] = "check"  BY DEF Check
  <2>2. counter # TESTCASE  BY <2>1 DEF IInv, Control
  <2>3. QED  BY <2>2, DynamicQueueAssumption DEF IInv, TypeOK
<1>3. /\ counter' = counter + 1 /\ UNCHANGED result
      /\ Goto(Consumer, IF counter + 1 < TESTCASE THEN "lock" ELSE "delete")
  BY <1>1 DEF Check
<1>4. UNCHANGED <<i, taken>>  BY <1>2, <1>3 DEF Check, Goto, taken, IInv, TypeOK
<1>5. TypeOK'
  <2>1. counter' \in 0 .. TESTCASE  BY <1>2, <1>3
  <2>2. pc' \in [Thread -> Labels]  BY <1>3 DEF Goto, IInv, TypeOK, Labels
  <2>3. QED  BY <2>1, <2>2 DEF Check, IInv, TypeOK, monitor, queue
<1>6. Control'
  <2>1. counter' = TESTCASE <=> ~(counter + 1 < TESTCASE)  BY <1>2, <1>3
  <2>2. /\ pc'[Producer] = pc[Producer] /\ pc[Consumer] = "check"
        /\ pc'[Consumer] = IF counter + 1 < TESTCASE THEN "lock" ELSE "delete"
    BY <1>3 DEF Check, Goto, IInv, TypeOK
  <2>3. QED  BY <1>3, <2>1, <2>2 DEF Check, IInv, Control, monitor
<1>7. Content' /\ Links'  BY <1>4, QuietList DEF Check
<1>8. spurious' = 0 => Wakeups'
  BY <1>3 DEF Check, Goto, IInv, TypeOK, Control, Wakeups, Awake, Blocked, monitor, queue
<1>9. QED  BY <1>5, <1>6, <1>7, <1>8 DEF IInv

LEMMA DeleteReadStep ==
  ASSUME IInv, DeleteRead
  PROVE  IInv'
<1> USE DEF Thread, Producer, Consumer, None
<1>1. UNCHANGED <<i, taken>>  BY DEF DeleteRead, Goto, taken, IInv, TypeOK
<1>2. TypeOK'  BY DEF DeleteRead, Goto, IInv, TypeOK, monitor, queue, Labels
<1>3. Control'  BY DEF DeleteRead, Goto, IInv, TypeOK, Control, monitor
<1>4. Content' /\ Links'  BY <1>1, QuietList DEF DeleteRead
<1>5. spurious' = 0 => Wakeups'
  BY DEF DeleteRead, Goto, IInv, TypeOK, Control, Wakeups, Awake, Blocked, monitor, queue
<1>6. QED  BY <1>2, <1>3, <1>4, <1>5 DEF IInv

\* By the time main deletes the queue nothing is left in it.
LEMMA DeleteStep ==
  ASSUME IInv, Delete
  PROVE  IInv'
<1> USE DEF Thread, Producer, Consumer, None
<1>1. UNCHANGED <<i, taken>>  BY DEF Delete, Goto, taken, IInv, TypeOK
<1>2. counter = TESTCASE /\ taken = TESTCASE
  BY DEF Delete, IInv, Control, taken
<1>3. len = 0  BY <1>2, Counts
<1>4. live = {}  BY <1>3, Ends
<1>5. UNCHANGED queue  BY <1>4 DEF Delete, queue
<1>6. TypeOK'  BY <1>5 DEF Delete, Goto, IInv, TypeOK, monitor, queue, Labels
<1>7. Control'  BY DEF Delete, Goto, IInv, TypeOK, Control, monitor
<1>8. Content' /\ Links'  BY <1>1, <1>5, QuietList
<1>9. spurious' = 0 => Wakeups'
  BY DEF Delete, Goto, IInv, TypeOK, Control, Wakeups, Awake, Blocked, monitor
<1>10. QED  BY <1>6, <1>7, <1>8, <1>9 DEF IInv
LEMMA EnqueueStep ==
  ASSUME IInv, ~fault, Enqueue
  PROVE  IInv'
<1> USE DEF Thread, Producer, Consumer, None
<1>1. /\ i \in Nat /\ taken \in Nat /\ len \in Nat /\ i = taken + len
      /\ LIMIT \in Nat /\ LIMIT > 1 /\ TESTCASE \in Nat
  BY Counts
<1>2. i < TESTCASE
  <2>1. pc[Producer] = "go"  BY DEF Enqueue
  <2>2. i # TESTCASE  BY <2>1 DEF IInv, Control
  <2>3. QED  BY <1>1, <2>2, Counts
<1>3. i' = i + 1 /\ len' = len + 1 /\ taken' = taken
  BY DEF Enqueue, EnqueueLoop, Goto, taken, IInv, TypeOK, Control
<1>4. /\ pc'[Consumer] = pc[Consumer]
      /\ pc'[Producer] = IF i + 1 < TESTCASE THEN "lock" ELSE "exited"
      /\ pc[Consumer] \notin {"go", "full or empty"} /\ Producer \notin waiters
  BY DEF Enqueue, EnqueueLoop, Goto, taken, IInv, TypeOK, Control
<1>5. waiters' \subseteq waiters  BY DEF Enqueue, NotifyConsumer, SignalIf
<1>6. Nodes  BY NodesFound DEF IInv
<1>7. PICK newd \in Addr \ live :
        /\ live' = live \union {newd}
        /\ data' = [data EXCEPT ![newd] = i]
        /\ next' = [next EXCEPT ![newd] = qhead]
        /\ qhead' = newd
        /\ IF len = 0
           THEN /\ qtail' = newd
                /\ prev' = [prev EXCEPT ![newd] = NULL]
                /\ UNCHANGED fault
           ELSE /\ fault' = (qhead \notin live)
                /\ prev' = [a \in Addr |-> IF a = newd THEN NULL
                                           ELSE IF a = qhead THEN newd
                                           ELSE prev[a]]
                /\ UNCHANGED qtail
  BY DEF Enqueue
<1>8. data'[newd] = i /\ next'[newd] = qhead /\ prev'[newd] = NULL
  BY <1>7 DEF IInv, TypeOK
<1>9. \A a \in live : a # newd /\ data'[a] = data[a] /\ next'[a] = next[a]
  BY <1>7 DEF IInv, TypeOK
<1>10. Content'
  <2>1. len' = i' - taken' /\ len' \in Nat  BY <1>1, <1>3
  <2>2. IsFiniteSet(live') /\ Cardinality(live') = len'
    BY <1>3, <1>7, FS_AddElement DEF IInv, Content
  <2>3. \A a, b \in live' : data'[a] = data'[b] => a = b
    <3>1. \A a \in live : data'[a] # i  BY <1>1, <1>6, <1>9 DEF Nodes
    <3>2. QED  BY <1>7, <1>8, <1>9, <3>1 DEF IInv, Content
  <2>4. {data'[a] : a \in live'} = taken' .. i' - 1
    <3>1. taken' .. i' - 1 = (taken .. i - 1) \union {i}  BY <1>1, <1>3
    <3>2. {data'[a] : a \in live'} = {data[a] : a \in live} \union {i}
      BY <1>7, <1>8, <1>9
    <3>3. QED  BY <3>1, <3>2 DEF IInv, Content
  <2>5. QED  BY <2>1, <2>2, <2>3, <2>4 DEF Content
<1>11. Nodes'  BY <1>10, NodesFoundAfter
<1>12. \A k \in Int : NodeOf(k)' = IF k = i THEN newd ELSE NodeOf(k)
  <2> SUFFICES ASSUME NEW k \in Int PROVE NodeOf(k)' = IF k = i THEN newd ELSE NodeOf(k)
    OBVIOUS
  <2>1. CASE k = i  BY <1>7, <1>8, <1>11, <2>1 DEF Nodes
  <2>2. CASE k \in taken .. i - 1
    <3>1. NodeOf(k) \in live /\ data[NodeOf(k)] = k  BY <1>6, <2>2 DEF Nodes
    <3>2. NodeOf(k) \in live' /\ data'[NodeOf(k)] = k  BY <1>7, <1>9, <3>1
    <3>3. k # i  BY <1>1, <2>2
    <3>4. QED  BY <1>11, <3>2, <3>3 DEF Nodes
  <2>3. CASE k \notin taken .. i
    <3>1. k \notin taken .. i - 1 /\ k \notin taken' .. i' - 1 /\ k # i
      BY <1>1, <1>3, <2>3
    <3>2. QED  BY <1>6, <1>11, <3>1 DEF Nodes
  <2>4. QED  BY <1>1, <2>1, <2>2, <2>3
<1>13. Links'
  <2>1. qhead' = NodeOf(i - 1)'
    <3>1. i' - 1 = i /\ i \in Int  BY <1>1, <1>3
    <3>2. QED  BY <1>7, <1>12, <3>1
  <2>2. qtail' = NodeOf(taken)'
    <3>1. taken' = taken /\ taken \in Int /\ (taken = i <=> len = 0)  BY <1>1, <1>3
    <3>2. QED  BY <1>7, <1>12, <3>1 DEF IInv, Links
  <2>3. next'[newd] = NodeOf(data[newd] - 1)' /\ prev'[newd] = NodeOf(data[newd] + 1)'
    <3>1. data'[newd] - 1 = i - 1 /\ i - 1 \in Int /\ i - 1 # i  BY <1>1, <1>8
    <3>2. data'[newd] + 1 = i + 1 /\ i + 1 \in Int /\ i + 1 \notin taken' .. i' - 1
      BY <1>1, <1>3, <1>8
    <3>3. qhead = NodeOf(i - 1)  BY DEF IInv, Links
    <3>4. QED  BY <1>8, <1>11, <1>12, <3>1, <3>2, <3>3 DEF Nodes
  <2>4. ASSUME NEW a \in live
        PROVE  next'[a] = NodeOf(data[a] - 1)' /\ prev'[a] = NodeOf(data[a] + 1)'
    <3>1. /\ data'[a] = data[a] /\ data[a] \in taken .. i - 1 /\ data[a] \in Int
          /\ next'[a] = next[a]
      BY <1>1, <1>6, <1>9 DEF Nodes
    <3>2. data'[a] - 1 = data[a] - 1 /\ data[a] - 1 \in Int /\ data[a] - 1 # i
      BY <1>1, <3>1
    <3>3. next'[a] = NodeOf(data[a] - 1)'
      BY <1>12, <3>1, <3>2 DEF IInv, Links
    <3>4. data'[a] + 1 = data[a] + 1 /\ data[a] + 1 \in Int  BY <3>1
    <3>5. len # 0  BY Ends
    <3>6. qhead \in live /\ data[qhead] = i - 1  BY <3>5, Ends
    <3>7. prev'[a] = IF a = qhead THEN newd ELSE prev[a]
      BY <1>7, <1>9, <3>5 DEF IInv, TypeOK
    <3>8. a = qhead <=> data[a] + 1 = i
      BY <1>1, <3>1, <3>6 DEF IInv, Content
    <3>9. prev[a] = NodeOf(data[a] + 1)  BY DEF IInv, Links
    <3>10. QED  BY <1>12, <3>3, <3>4, <3>7, <3>8, <3>9
  <2>5. QED  BY <1>7, <2>1, <2>2, <2>3, <2>4 DEF Links
<1>14. ~fault'  BY <1>7, Ends
<1>15. TypeOK'
  <2>1. prev' \in [Addr -> Addr \union {NULL}] /\ next' \in [Addr -> Addr \union {NULL}]
    <3>1. qhead \in Addr \union {NULL}
      BY NodesFound DEF IInv, Links, NodeOf, TypeOK
    <3>2. QED  BY <1>7, <3>1 DEF IInv, TypeOK
  <2>2. data' \in [Addr -> Int] /\ live' \in SUBSET Addr
    BY <1>1, <1>7 DEF IInv, TypeOK
  <2>3. i' \in 0 .. TESTCASE  BY <1>1, <1>2, <1>3
  <2>4. pc' \in [Thread -> Labels]
    BY DEF Enqueue, EnqueueLoop, Goto, IInv, TypeOK, Labels
  <2>5. QED
    BY <1>5, <1>14, <2>1, <2>2, <2>3, <2>4 DEF Enqueue, Release, IInv, TypeOK
<1>16. Control'
  <2>1. i' = TESTCASE <=> ~(i + 1 < TESTCASE)  BY <1>1, <1>2, <1>3
  <2>2. QED  BY <1>3, <1>4, <1>5, <2>1 DEF Enqueue, Release, IInv, Control
<1>17. spurious' = 0 => Wakeups'
  <2> SUFFICES ASSUME spurious' = 0 PROVE Wakeups'
    OBVIOUS
  <2>1. Wakeups  BY DEF Enqueue, IInv
  <2>2. len # LIMIT /\ len <= LIMIT  BY <2>1 DEF Enqueue, Wakeups, Awake
  <2>3. Consumer \notin waiters'
    <3>1. SUFFICES ASSUME Consumer \in waiters PROVE Consumer \notin waiters'
      BY <1>5
    <3>2. waiters = {Consumer}  BY <1>4, <3>1 DEF IInv, TypeOK
    <3>3. len = 0  BY <2>1, <3>1 DEF Wakeups, Blocked
    <3>4. QED  BY <3>2, <3>3 DEF Enqueue, NotifyConsumer, SignalIf
  <2>4. ~Blocked(Producer)' /\ ~Awake(Producer)' /\ ~Blocked(Consumer)'
    BY <1>4, <1>5, <2>3 DEF Awake, Blocked
  <2>5. len' # 0 /\ len' <= LIMIT  BY <1>1, <1>3, <2>2
  <2>6. QED  BY <1>14, <2>4, <2>5 DEF Wakeups
<1>18. QED  BY <1>10, <1>13, <1>15, <1>16, <1>17 DEF IInv
\* dequeue on an empty list, which only a spurious wakeup leads to, is a crash.
LEMMA DequeueFaults ==
  ASSUME IInv, ~fault, Dequeue, len = 0
  PROVE  IInv'
<1> USE DEF Thread, Producer, Consumer, None
<1>1. qtail \notin live  BY Ends
<1>2. fault' = TRUE /\ UNCHANGED <<monitor, queue, pc, td, freed, i, counter, result, walk>>
  BY <1>1 DEF Dequeue
<1>3. UNCHANGED <<i, taken>>  BY <1>2 DEF taken
<1>4. TypeOK'  BY <1>2 DEF IInv, TypeOK, monitor, queue
<1>5. Control'  BY <1>2 DEF IInv, Control, monitor
<1>6. Content' /\ Links'  BY <1>2, <1>3, QuietList
<1>7. spurious' # 0
  BY <1>2 DEF Dequeue, IInv, Wakeups, Awake, monitor
<1>8. QED  BY <1>4, <1>5, <1>6, <1>7 DEF IInv

\* Otherwise dequeue takes the oldest node.
LEMMA DequeueTakes ==
  ASSUME IInv, Dequeue, len # 0
  PROVE  /\ qtail \in live /\ data[qtail] = taken
         /\ td' = taken /\ live' = live \ {qtail}
         /\ IF len = 1
            THEN qhead' = NULL /\ qtail' = NULL /\ UNCHANGED next
            ELSE /\ qtail' = prev[qtail]
                 /\ next' = [next EXCEPT ![prev[qtail]] = NULL]
                 /\ UNCHANGED qhead
         /\ NotifyProducer
         /\ len' = len - 1
         /\ Release(Consumer)
         /\ Goto(Consumer, "check")
         /\ UNCHANGED <<spurious, prev, data, fault>>
         /\ UNCHANGED <<freed, i, counter, result, walk>>
<1>1. qtail \in live /\ data[qtail] = taken  BY Ends
<1>2. len # 1 => prev[qtail] \in live \ {qtail}
  <2>1. ASSUME len # 1 PROVE prev[qtail] \in live /\ data[prev[qtail]] = taken + 1
    BY <2>1, Ends
  <2>2. taken + 1 # taken  BY Counts
  <2>3. QED  BY <1>1, <2>1, <2>2
<1>3. QED  BY <1>1, <1>2 DEF Dequeue, Free

LEMMA DequeueStep ==
  ASSUME IInv, Dequeue, len # 0
  PROVE  IInv'
<1> USE DEF Thread, Producer, Consumer, None
<1>1. /\ i \in Nat /\ taken \in Nat /\ len \in Nat /\ i = taken + len
      /\ LIMIT \in Nat /\ LIMIT > 1
  BY Counts
<1>2. pc[Consumer] = "go" /\ taken = counter  BY DEF Dequeue, taken
<1>3. pc'[Consumer] = "check" /\ pc'[Producer] = pc[Producer]
  BY DequeueTakes DEF Goto, IInv, TypeOK
<1>4. i' = i /\ len' = len - 1 /\ taken' = taken + 1
  BY <1>2, <1>3, DequeueTakes DEF taken
<1>5. pc[Producer] \notin {"go", "full or empty"} /\ Consumer \notin waiters
  BY <1>2 DEF IInv, Control
<1>6. waiters' \subseteq waiters  BY DequeueTakes DEF NotifyProducer, SignalIf
<1>7. Nodes  BY NodesFound DEF IInv
<1>8. /\ qtail \in live /\ data[qtail] = taken /\ live' = live \ {qtail} /\ data' = data
      /\ prev' = prev /\ td' = taken /\ i \in Int /\ taken \in Int
  BY <1>1, DequeueTakes
<1>9. \A a \in live' : a \in live /\ data[a] \in taken + 1 .. i - 1
  <2>1. \A a \in live' : a \in live /\ data[a] \in taken .. i - 1 /\ data[a] # taken
    BY <1>7, <1>8 DEF Nodes, IInv, Content
  <2>2. QED  BY <1>1, <2>1
<1>10. Content'
  <2>1. len' = i' - taken' /\ len' \in Nat
    <3>1. len \in Nat /\ len # 0  BY <1>1
    <3>2. QED  BY <1>1, <1>4, <3>1
  <2>2. IsFiniteSet(live') /\ Cardinality(live') = len'
    BY <1>4, <1>8, FS_RemoveElement DEF IInv, Content
  <2>3. \A a, b \in live' : data'[a] = data'[b] => a = b
    BY <1>8, <1>9 DEF IInv, Content
  <2>4. {data'[a] : a \in live'} = taken' .. i' - 1
    <3>1. taken' .. i' - 1 = (taken .. i - 1) \ {taken}  BY <1>1, <1>4
    <3>2. {data'[a] : a \in live'} = {data[a] : a \in live} \ {taken}
      BY <1>8 DEF IInv, Content
    <3>3. QED  BY <3>1, <3>2 DEF IInv, Content
  <2>5. QED  BY <2>1, <2>2, <2>3, <2>4 DEF Content
<1>11. Nodes'  BY <1>10, NodesFoundAfter
<1>12. \A k \in Int : NodeOf(k)' = IF k = taken THEN NULL ELSE NodeOf(k)
  <2> SUFFICES ASSUME NEW k \in Int
               PROVE  NodeOf(k)' = IF k = taken THEN NULL ELSE NodeOf(k)
    OBVIOUS
  <2>1. CASE k \in taken + 1 .. i - 1
    <3>1. k \in taken .. i - 1 /\ k # taken  BY <1>1, <2>1
    <3>2. NodeOf(k) \in live /\ data[NodeOf(k)] = k  BY <1>7, <3>1 DEF Nodes
    <3>3. NodeOf(k) \in live' /\ data'[NodeOf(k)] = k  BY <1>8, <3>1, <3>2
    <3>4. QED  BY <1>11, <3>1, <3>3 DEF Nodes
  <2>2. CASE k \notin taken + 1 .. i - 1
    <3>1. k \notin taken' .. i' - 1 /\ (k # taken => k \notin taken .. i - 1)
      BY <1>1, <1>4, <2>2
    <3>2. QED  BY <1>7, <1>11, <3>1 DEF Nodes
  <2>3. QED  BY <2>1, <2>2
<1>13. Links'
  <2>1. qhead' = NodeOf(i - 1)' /\ qtail' = NodeOf(taken)'
    <3>1. i' - 1 = i - 1 /\ taken' = taken + 1 /\ i - 1 \in Int /\ taken + 1 \in Int
      BY <1>1, <1>4
    <3>2. taken + 1 # taken  BY <1>1
    <3>3. CASE len = 1
      <4>1. i - 1 = taken /\ taken + 1 \notin taken .. i - 1  BY <1>1, <3>3
      <4>2. QED  BY <1>7, <1>12, <3>1, <3>2, <3>3, <4>1, DequeueTakes DEF Nodes
    <3>4. CASE len # 1
      <4>1. i - 1 # taken  BY <1>1, <3>4
      <4>2. qtail' = NodeOf(taken + 1) /\ qhead' = qhead  BY <3>4, DequeueTakes, Ends
      <4>3. QED  BY <1>12, <3>1, <3>2, <4>1, <4>2 DEF IInv, Links
    <3>5. QED  BY <3>3, <3>4
  <2>2. ASSUME NEW a \in live'
        PROVE  next'[a] = NodeOf(data[a] - 1)' /\ prev'[a] = NodeOf(data[a] + 1)'
    <3>1. a \in live /\ data[a] \in taken + 1 .. i - 1 /\ data[a] \in Int  BY <1>1, <1>9
    <3>2. /\ data'[a] = data[a]
          /\ data[a] - 1 \in Int /\ data[a] + 1 \in Int /\ data[a] + 1 # taken
          /\ (data[a] - 1 = taken <=> data[a] = taken + 1)
      BY <1>1, <1>8, <3>1
    <3>3. len # 1  BY <1>1, <3>1
    <3>4. /\ prev[qtail] \in live /\ data[prev[qtail]] = taken + 1
          /\ next' = [next EXCEPT ![prev[qtail]] = NULL]
      BY <3>3, Ends, DequeueTakes
    <3>5. a = prev[qtail] <=> data[a] - 1 = taken
      BY <3>1, <3>2, <3>4 DEF IInv, Content
    <3>6. next'[a] = IF a = prev[qtail] THEN NULL ELSE next[a]
      BY <3>1, <3>4 DEF IInv, TypeOK
    <3>7. next[a] = NodeOf(data[a] - 1) /\ prev[a] = NodeOf(data[a] + 1)
      BY <3>1 DEF IInv, Links
    <3>8. QED  BY <1>8, <1>12, <3>2, <3>5, <3>6, <3>7
  <2>3. QED  BY <2>1, <2>2 DEF Links
<1>14. TypeOK'
  <2>1. next' \in [Addr -> Addr \union {NULL}]
    BY DequeueTakes DEF IInv, TypeOK
  <2>2. pc' \in [Thread -> Labels]  BY DequeueTakes DEF Goto, IInv, TypeOK, Labels
  <2>3. QED
    BY <1>6, <1>8, <2>1, <2>2, DequeueTakes DEF Release, IInv, TypeOK
<1>15. Control'
  <2>1. counter # TESTCASE  BY <1>2 DEF IInv, Control
  <2>2. counter' = counter /\ result' = result /\ freed' = freed /\ td' = counter
    BY <1>2, DequeueTakes
  <2>3. lock = Consumer /\ lock' = None  BY DequeueTakes DEF Release
  <2>4. QED
    BY <1>2, <1>3, <1>4, <1>5, <1>6, <2>1, <2>2, <2>3 DEF IInv, Control
<1>16. spurious' = 0 => Wakeups'
  <2> SUFFICES ASSUME spurious' = 0 PROVE Wakeups'
    OBVIOUS
  <2>1. Wakeups /\ fault' = fault  BY DequeueTakes DEF IInv
  <2>2. Producer \notin waiters'
    <3>1. SUFFICES ASSUME Producer \in waiters PROVE Producer \notin waiters'
      BY <1>6
    <3>2. waiters = {Producer}  BY <1>5, <3>1 DEF IInv, TypeOK
    <3>3. len = LIMIT  BY <2>1, <3>1 DEF Wakeups, Blocked
    <3>4. len # 1  BY <1>1, <3>3
    <3>5. QED  BY <3>2, <3>3, <3>4, DequeueTakes DEF NotifyProducer, SignalIf
  <2>3. ~Blocked(Producer)' /\ ~Awake(Consumer)' /\ ~Blocked(Consumer)'
    BY <1>3, <1>5, <1>6, <2>2 DEF Awake, Blocked
  <2>4. len' # LIMIT /\ len' <= LIMIT
    <3>1. len <= LIMIT  BY <2>1 DEF Wakeups
    <3>2. QED  BY <1>1, <1>4, <3>1
  <2>5. QED  BY <2>1, <2>3, <2>4 DEF Wakeups
<1>17. QED  BY <1>10, <1>13, <1>14, <1>15, <1>16 DEF IInv

LEMMA Inductive == IInv /\ [Next]_vars => IInv'
<1> SUFFICES ASSUME IInv, [Next]_vars PROVE IInv'
  OBVIOUS
<1>1. ASSUME NEW t \in Thread, Step(t) PROVE IInv'
  BY <1>1, LockStep, WaitStep, WakeStep, EnqueueStep, DequeueFaults, DequeueStep,
     CheckStep, DeleteReadStep, DeleteStep DEF Step
<1>2. ASSUME NEW t \in Thread, Spurious(t) PROVE IInv'
  BY <1>2, SpuriousStep
<1>3. CASE UNCHANGED vars
  <2>1. UNCHANGED <<queue, i, taken>>  BY <1>3 DEF vars, taken
  <2>2. Content' /\ Links'  BY <2>1, QuietList
  <2>3. TypeOK' /\ Control'
    BY <1>3 DEF IInv, TypeOK, Control, vars, monitor, queue
  <2>4. spurious' = 0 => Wakeups'
    BY <1>3 DEF IInv, Wakeups, Awake, Blocked, vars, monitor, queue
  <2>5. QED  BY <2>2, <2>3, <2>4 DEF IInv
<1>4. QED  BY <1>1, <1>2, <1>3 DEF Next, Exited

LEMMA Invariance == Spec => []IInv
  BY Initially, Inductive, PTL DEF Spec

-----------------------------------------------------------------------------
\* do_dequeue is handed the testdata it expects or the process has crashed, and it
\* crashes only after a spurious wakeup.
THEOREM Ordered == Spec => []OrderedOrCrashed
<1>1. IInv => OrderedOrCrashed
  BY DEF IInv, Control, Wakeups, OrderedOrCrashed, InOrder
<1>2. QED  BY <1>1, Invariance, PTL

\* enqueue, dequeue and delete_queue keep the doubly linked list well formed, and
\* nothing is left in it, nor used, once it is freed.
THEOREM WellLinked == Spec => []ListShape
<1>1. ASSUME IInv PROVE ListShape
  <2>1. ASSUME freed PROVE live = {} /\ pc[Producer] = "exited"
    <3>1. counter = TESTCASE /\ taken = TESTCASE
      BY <1>1, <2>1 DEF IInv, Control, taken
    <3>2. i = TESTCASE /\ len = 0  BY <1>1, <3>1, Counts
    <3>3. QED  BY <1>1, <3>2, Ends DEF IInv, Control
  <2>2. QED  BY <1>1, <2>1 DEF IInv, Content, Links, ListShape
<1>2. QED  BY <1>1, Invariance, PTL
-----------------------------------------------------------------------------
\* The queue of the FIFO as the list holds it, oldest first, and what it holds.
List == [k \in 1 .. len |-> data[NodeOf(taken + k - 1)]]
InFlight == [k \in 1 .. len |-> taken + k - 1]

Holds ==
    /\ List = InFlight /\ List \in Seq(Int) /\ Len(List) = len
    /\ i \in Nat /\ taken \in Nat /\ len \in Nat /\ i = taken + len /\ i <= TESTCASE

LEMMA ListHoldsInFlight == IInv => Holds
<1> SUFFICES ASSUME IInv PROVE Holds
  OBVIOUS
<1>1. i \in Nat /\ taken \in Nat /\ len \in Nat /\ i = taken + len /\ i <= TESTCASE
  BY Counts
<1>2. ASSUME NEW k \in 1 .. len PROVE data[NodeOf(taken + k - 1)] = taken + k - 1
  <2>1. taken + k - 1 \in taken .. i - 1  BY <1>1
  <2>2. QED  BY <2>1, NodesFound DEF IInv, Nodes
<1>3. List = InFlight  BY <1>2 DEF List, InFlight
<1>4. InFlight \in Seq(Int) /\ Len(InFlight) = len  BY <1>1 DEF InFlight
<1>5. QED  BY <1>1, <1>3, <1>4 DEF Holds

LEMMA ListHoldsAfter == IInv' => Holds'
  BY ListHoldsInFlight, PTL

\* enqueue is Put; while no wakeup is spurious, below the limit.
LEMMA EnqueueIsPut ==
  ASSUME IInv, IInv', Enqueue
  PROVE  Fifo!Put
<1>1. UNCHANGED <<taken, td>> /\ i' = i + 1 /\ len' = len + 1
  BY DEF Enqueue, EnqueueLoop, Goto, taken, IInv, TypeOK, Thread, Producer, Consumer
<1>2. Holds /\ Holds'  BY ListHoldsInFlight, ListHoldsAfter
<1>3. i < TESTCASE /\ len < TESTCASE
  <2>1. i # TESTCASE  BY DEF Enqueue, IInv, Control
  <2>2. QED  BY <1>2, <2>1, DynamicQueueAssumption DEF Holds
<1>4. MaxSpurious = 0 => len < LIMIT
  <2>1. MaxSpurious = 0 => spurious = 0  BY SMTT(30) DEF IInv, TypeOK
  <2>2. spurious = 0 => len <= LIMIT /\ len # LIMIT
    BY DEF Enqueue, IInv, Wakeups, Awake
  <2>3. QED  BY <1>2, <2>1, <2>2, DynamicQueueAssumption DEF Holds
<1>5. List' = Append(List, i)
  <2>1. List' = [k \in 1 .. len + 1 |-> taken + k - 1]
    BY <1>1, <1>2 DEF Holds, InFlight
  <2>2. Append(InFlight, i) = [k \in 1 .. len + 1 |-> taken + k - 1]
    BY <1>2, SMTT(30) DEF Holds, InFlight
  <2>3. QED  BY <1>2, <2>1, <2>2 DEF Holds
<1>6. Len(List) = len  BY <1>2 DEF Holds
<1>7. QED  BY <1>1, <1>3, <1>4, <1>5, <1>6 DEF Fifo!Put, List

\* dequeue is Get.
LEMMA DequeueIsGet ==
  ASSUME IInv, IInv', Dequeue, len # 0
  PROVE  Fifo!Get
<1>1. i' = i /\ td' = taken /\ len' = len - 1  BY DequeueTakes
<1>2. taken' = taken + 1
  BY DequeueTakes DEF Dequeue, Goto, taken, IInv, TypeOK, Thread, Producer, Consumer
<1>3. Holds /\ Holds'  BY ListHoldsInFlight, ListHoldsAfter
<1>4. taken \in Nat /\ len \in Nat /\ len > 0  BY <1>3 DEF Holds
<1>5. List # <<>> /\ Head(List) = td'
  <2>1. List # <<>> /\ Head(List) = List[1]  BY <1>3, <1>4 DEF Holds
  <2>2. List[1] = taken  BY <1>3, <1>4 DEF Holds, InFlight
  <2>3. QED  BY <1>1, <2>1, <2>2
<1>6. List' = Tail(List)
  <2>1. List' \in Seq(Int) /\ Len(List') = len - 1  BY <1>1, <1>3 DEF Holds
  <2>2. ASSUME NEW k \in 1 .. len - 1 PROVE List'[k] = taken + k
    <3>1. List' = [j \in 1 .. len' |-> taken' + j - 1]  BY <1>3 DEF Holds, InFlight
    <3>2. List'[k] = taken' + k - 1  BY <1>1, <3>1
    <3>3. QED  BY <1>2, <1>4, <3>2
  <2>3. /\ Tail(List) \in Seq(Int) /\ Len(Tail(List)) = len - 1
        /\ \A k \in 1 .. len - 1 : Tail(List)[k] = List[k + 1]
    BY <1>3, <1>5, HeadTailProperties DEF Holds
  <2>4. \A k \in 1 .. len - 1 : List[k + 1] = taken + k
    BY <1>3, <1>4 DEF Holds, InFlight
  <2>5. QED  BY <2>1, <2>2, <2>3, <2>4, SeqEqual, SMTT(30)
<1>7. QED  BY <1>1, <1>5, <1>6 DEF Fifo!Get, List

\* Every other step, a crash among them, leaves the FIFO as it is.
LEMMA OtherStepsStutter ==
  ASSUME IInv, IInv', [Next]_vars, ~Enqueue, ~(Dequeue /\ len # 0)
  PROVE  UNCHANGED Fifo!fifoVars
<1>1. UNCHANGED <<i, taken, td, len>>
  <2> USE DEF Thread, Producer, Consumer, IInv, TypeOK, taken, Goto, queue
  <2>1. ASSUME NEW t \in Thread, Lock(t) PROVE UNCHANGED <<i, taken, td, len>>
    BY <2>1 DEF Lock
  <2>2. ASSUME NEW t \in Thread, Wait(t) PROVE UNCHANGED <<i, taken, td, len>>
    BY <2>2 DEF Wait
  <2>3. ASSUME NEW t \in Thread, Wake(t) PROVE UNCHANGED <<i, taken, td, len>>
    BY <2>3 DEF Wake
  <2>4. ASSUME NEW t \in Thread, Spurious(t) PROVE UNCHANGED <<i, taken, td, len>>
    BY <2>4 DEF Spurious
  <2>5. CASE Dequeue /\ len = 0
    <3>1. qtail \notin live  BY <2>5, Ends
    <3>2. QED  BY <2>5, <3>1 DEF Dequeue
  <2>6. CASE Check
    <3>1. td = counter  BY <2>6 DEF Check, Control
    <3>2. QED  BY <2>6, <3>1, DynamicQueueAssumption DEF Check
  <2>7. CASE DeleteRead  BY <2>7 DEF DeleteRead
  <2>8. CASE Delete  BY <2>8 DEF Delete
  <2>9. CASE UNCHANGED vars  BY <2>9 DEF vars
  <2>10. QED
    BY <2>1, <2>2, <2>3, <2>4, <2>5, <2>6, <2>7, <2>8, <2>9 DEF Next, Step, Exited
<1>2. List' = List
  BY <1>1, ListHoldsInFlight, ListHoldsAfter DEF Holds, InFlight
<1>3. QED  BY <1>1, <1>2 DEF Fifo!fifoVars, List

\* enqueue and dequeue of dynamic.c are Put and Get of the bounded FIFO, whose
\* capacity is the limit as long as no wakeup can be spurious.
THEOREM RefinesFifo == Spec => ImplementsFifo
<1>1. Init => Fifo!FifoInit
  <2> SUFFICES ASSUME Init PROVE Fifo!FifoInit
    OBVIOUS
  <2>1. i = 0 /\ len = 0 /\ td = -1  BY DEF Init, Garbage
  <2>2. QED  BY <2>1 DEF Fifo!FifoInit
<1>2. IInv /\ IInv' /\ [Next]_vars => [Fifo!FifoNext]_Fifo!fifoVars
  BY EnqueueIsPut, DequeueIsGet, OtherStepsStutter DEF Fifo!FifoNext
<1>3. QED  BY <1>1, <1>2, Invariance, PTL DEF Spec, ImplementsFifo, Fifo!FifoSafety
=============================================================================
