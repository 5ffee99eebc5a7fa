----------------------------- MODULE StaticQueue -----------------------------
(***************************************************************************)
(* The array-backed queue of data-queue-concurrent/static.c: a ring of     *)
(* BUFFSIZE nodes, each with an in_use flag, one mutex and ONE condition   *)
(* variable that both sides wait on.  main() runs do_enqueue in a thread,  *)
(* drains the queue itself in do_dequeue, and deletes the queue without    *)
(* joining the thread.                                                     *)
(*                                                                         *)
(* The i-th testdata (top = i + 1, bottom = i - 1) is the number i, and    *)
(* do_dequeue's two comparisons are one comparison with its counter.       *)
(* LOCK_SPIN is 0: the lock and the signal are those of Pthread.           *)
(***************************************************************************)
EXTENDS Integers, Pthread

CONSTANTS TESTCASE,      \* how many testdata the producer enqueues
          BUFFSIZE,      \* q->limit
          UINT32         \* 2^32: the counters head and tail wrap here

ASSUME StaticQueueAssumption ==
    /\ TESTCASE \in Nat \ {0}
    /\ BUFFSIZE \in Nat \ {0}
    /\ UINT32 \in Nat \ {0}
    /\ UINT32 % BUFFSIZE = 0

VARIABLES head, tail,    \* q->head and q->tail
          in_use, data,  \* the nodes of q->arr
          freed,         \* delete_queue has run
          pc,            \* where each thread is
          hidx, tidx,    \* the locals of enqueue (producer) and dequeue
          i,             \* do_enqueue's loop counter
          counter, td,   \* do_dequeue's locals
          result         \* -1 when a comparison made do_dequeue return

queue  == <<head, tail, in_use, data>>
locals == <<hidx, tidx>>
vars   == <<monitor, queue, freed, pc, locals, i, counter, td, result>>

Producer == "do_enqueue"
Consumer == "main"
Thread   == {Producer, Consumer}
Slots    == 0 .. BUFFSIZE - 1
Garbage  == -1           \* the bytes of a block fresh from malloc

Goto(t, label) == pc' = [pc EXCEPT ![t] = label]

-----------------------------------------------------------------------------
\* Slips a programmer might make in the definitions that follow.
NeverFull(t) == FALSE
NeverEmpty(t) == FALSE
NotifyNobody == UNCHANGED waiters

\* The index of the node a counter stands at: q->head % q->limit.
Node(n) == n % BUFFSIZE

\* q->head += 1 and q->tail += 1 on uint32_t.
Advance(n) == (n + 1) % UINT32

\* The tests of enqueue and dequeue.  After a wait they are made again with
\* the indices read before it: only in_use is read anew.
Full(t)  == hidx[t] = tidx[t] /\ in_use[hidx[t]] = 1
Empty(t) == hidx[t] = tidx[t] /\ in_use[hidx[t]] # 1

\* The guard of the wait in each operation.
MustWait(t) == IF t = Producer THEN Full(t) ELSE Empty(t)

\* LOCK_SIG_SEND in enqueue and in dequeue.
NotifyConsumer == SignalIf(Empty(Producer))
NotifyProducer == SignalIf(Full(Consumer))

-----------------------------------------------------------------------------
\* make_queue, then pthread_create: main goes on into do_dequeue.
Init ==
    /\ head = 0 /\ tail = 0
    /\ in_use = [s \in Slots |-> 0]
    /\ data = [s \in Slots |-> Garbage]
    /\ lock = None /\ waiters = {} /\ spurious = 0
    /\ freed = FALSE
    /\ pc = [t \in Thread |-> "lock"]
    /\ hidx = [t \in Thread |-> 0] /\ tidx = [t \in Thread |-> 0]
    /\ i = 0 /\ counter = 0 /\ td = Garbage /\ result = 0

\* LOCK, and the indices of the head and the tail are read.
Lock(t) ==
    /\ pc[t] = "lock"
    /\ Acquire(t)
    /\ hidx' = [hidx EXCEPT ![t] = Node(head)]
    /\ tidx' = [tidx EXCEPT ![t] = Node(tail)]
    /\ Goto(t, "test")
    /\ UNCHANGED <<waiters, spurious, queue, freed, i, counter, td, result>>

Wait(t) ==
    /\ pc[t] = "test" /\ MustWait(t)
    /\ Block(t)
    /\ Goto(t, "wait")
    /\ UNCHANGED <<spurious, queue, freed, locals, i, counter, td, result>>

Spurious(t) ==
    /\ WakeSpuriously(t)
    /\ UNCHANGED <<queue, freed, pc, locals, i, counter, td, result>>

Wake(t) ==
    /\ pc[t] = "wait"
    /\ Unblock(t)
    /\ Goto(t, "retest")
    /\ UNCHANGED <<waiters, spurious, queue, freed, locals, i, counter, td,
                   result>>

\* The condition still holds after the wait: UNLOCK; continue.
Retry(t) ==
    /\ pc[t] = "retest" /\ MustWait(t)
    /\ Release(t)
    /\ Goto(t, "lock")
    /\ UNCHANGED <<waiters, spurious, queue, freed, locals, i, counter, td,
                   result>>

\* The rest of enqueue, and the loop of do_enqueue.
Enqueue ==
    /\ pc[Producer] \in {"test", "retest"} /\ ~Full(Producer)
    /\ data' = [data EXCEPT ![tidx[Producer]] = i]
    /\ NotifyConsumer
    /\ in_use' = [in_use EXCEPT ![tidx[Producer]] = 1]
    /\ tail' = Advance(tail)
    /\ Release(Producer)
    /\ i' = i + 1
    /\ Goto(Producer, IF i + 1 < TESTCASE THEN "lock" ELSE "exited")
    /\ UNCHANGED <<spurious, head, freed, locals, counter, td, result>>

\* The rest of dequeue.
Dequeue ==
    /\ pc[Consumer] \in {"test", "retest"} /\ ~Empty(Consumer)
    /\ td' = data[hidx[Consumer]]
    /\ NotifyProducer
    /\ in_use' = [in_use EXCEPT ![hidx[Consumer]] = 0]
    /\ head' = Advance(head)
    /\ Release(Consumer)
    /\ Goto(Consumer, "check")
    /\ UNCHANGED <<spurious, tail, data, freed, locals, i, counter, result>>

\* A slip: the loop ends one testdata early.
CheckOneShort ==
    /\ pc[Consumer] = "check"
    /\ counter' = counter + 1
    /\ Goto(Consumer, IF counter + 2 < TESTCASE THEN "lock" ELSE "delete")
    /\ UNCHANGED <<monitor, queue, freed, locals, i, td, result>>

\* do_dequeue compares what it got with its counter.  It leaves its loop without a return
\* statement: whatever main then reads, below 0 or not, it goes on to delete_queue.
Check ==
    /\ pc[Consumer] = "check"
    /\ IF td # counter
       THEN /\ result' = -1
            /\ Goto(Consumer, "delete")
            /\ UNCHANGED counter
       ELSE /\ counter' = counter + 1
            /\ Goto(Consumer, IF counter + 1 < TESTCASE THEN "lock" ELSE "delete")
            /\ UNCHANGED result
    /\ UNCHANGED <<monitor, queue, freed, locals, i, td>>

\* A slip: the queue is not freed.
LeakQueue ==
    /\ pc[Consumer] = "delete"
    /\ Goto(Consumer, "exited")
    /\ UNCHANGED <<monitor, queue, freed, locals, i, counter, td, result>>

\* delete_queue, on the error path and on the normal one.
DeleteQueue ==
    /\ pc[Consumer] = "delete" /\ lock = None
    /\ freed' = TRUE
    /\ Goto(Consumer, "exited")
    /\ UNCHANGED <<monitor, queue, locals, i, counter, td, result>>

\* main returned: the process, with whatever thread is left, is gone.
Exited == pc[Consumer] = "exited" /\ UNCHANGED vars

Step(t) ==
    \/ Lock(t) \/ Wait(t) \/ Wake(t) \/ Retry(t)
    \/ t = Producer /\ Enqueue
    \/ t = Consumer /\ (Dequeue \/ Check \/ DeleteQueue)

Next == (\E t \in Thread : Step(t) \/ Spurious(t)) \/ Exited

\* The scheduler runs both threads.  Weak fairness is enough: a thread that
\* waits for the mutex is overtaken only finitely often, since the other one
\* blocks or exits.
Fairness == \A t \in Thread : WF_vars(Step(t))

Spec == Init /\ [][Next]_vars /\ Fairness

-----------------------------------------------------------------------------
TypeOK ==
    /\ head \in 0 .. UINT32 - 1 /\ tail \in 0 .. UINT32 - 1
    /\ in_use \in [Slots -> {0, 1}]
    /\ data \in [Slots -> {Garbage} \union 0 .. TESTCASE - 1]
    /\ lock \in Thread \union {None}
    /\ waiters \in SUBSET Thread
    /\ spurious \in 0 .. MaxSpurious
    /\ freed \in BOOLEAN
    /\ pc \in [Thread -> {"lock", "test", "wait", "retest", "check", "delete",
                          "exited"}]
    /\ hidx \in [Thread -> Slots] /\ tidx \in [Thread -> Slots]
    /\ i \in 0 .. TESTCASE /\ counter \in 0 .. TESTCASE
    /\ td \in {Garbage} \union 0 .. TESTCASE - 1
    /\ result \in {0, -1}

\* The number of completed calls of dequeue.
taken == IF pc[Consumer] = "check" THEN counter + 1 ELSE counter

\* do_dequeue never returns -1 or -2: whatever the interleaving, the waits
\* and the spurious wakeups, each dequeue yields the testdata it expects.
InOrder ==
    /\ pc[Consumer] = "check" => td = counter
    /\ result = 0

\* The ring between the operations: never more than BUFFSIZE testdata in
\* flight, the nodes from head on hold them in order with in_use set, and
\* in_use is clear in every other node, wrapped counters included.
RingWindow ==
    /\ i - taken \in 0 .. BUFFSIZE
    /\ \A k \in taken .. taken + BUFFSIZE - 1 :
          IF k < i THEN in_use[Node(k)] = 1 /\ data[Node(k)] = k
                   ELSE in_use[Node(k)] = 0

\* No wakeup is lost although both sides share one condition variable and
\* signal only when hidx == tidx: a thread is still blocked in
\* pthread_cond_wait only while the ring is full (enqueue) or empty (dequeue).
NoLostWakeup ==
    /\ Producer \in waiters => i - taken = BUFFSIZE
    /\ Consumer \in waiters => i = taken

\* main frees the queue without joining do_enqueue: by then the producer has
\* made its last enqueue and touches the queue no more.
NoUseAfterFree == freed => pc[Producer] = "exited" /\ waiters = {}

\* Every run ends: all testdata come out and delete_queue is reached.
Finishes == <>(counter = TESTCASE /\ freed)

\* The queue of the bounded FIFO: the testdata from taken on, read from the
\* nodes they are in.
Fifo == INSTANCE BoundedFifo WITH
    N <- TESTCASE, Capacity <- BUFFSIZE, sent <- i, got <- td,
    buf <- [k \in 1 .. i - taken |-> data[Node(taken + k - 1)]]

\* enqueue and dequeue are the atomic Put and Get of the bounded FIFO, and
\* every testdata is delivered.
ImplementsFifo == Fifo!FifoSpec
=============================================================================
