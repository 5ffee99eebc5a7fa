---------------------------- MODULE ChannelQueue -----------------------------
(***************************************************************************)
(* The ring queue of data-queue-channel/chan.c.  It differs from static.c  *)
(* in three ways: enqueue and dequeue do not test their condition again    *)
(* after pthread_cond_wait; make_queue's memset of the bucket is commented *)
(* out, so that head and tail start with whatever the block from malloc    *)
(* holds; and main runs both loops as threads and joins them before it     *)
(* looks at thd.result and deletes the queue.  USE_SPIN is 0.              *)
(***************************************************************************)
EXTENDS Integers, Pthread

CONSTANTS TESTCASE, BUFFSIZE, UINT32,
          HeapWords      \* the values an unwritten word of the heap may hold

ASSUME ChannelQueueAssumption ==
    /\ TESTCASE \in Nat \ {0}
    /\ BUFFSIZE \in Nat \ {0}
    /\ UINT32 \in Nat \ {0}
    /\ UINT32 % BUFFSIZE = 0
    /\ HeapWords \subseteq 0 .. UINT32 - 1

VARIABLES head, tail,    \* q->head and q->tail
          in_use, data,  \* the nodes of q->arr
          freed,         \* delete_queue has run
          pc,            \* where each thread is
          hidx, tidx,    \* the locals of enqueue and dequeue
          i,             \* do_enqueue's loop counter
          counter, td,   \* do_dequeue's locals
          thd_result     \* thd.result, shared between do_dequeue and main

queue  == <<head, tail, in_use, data>>
locals == <<hidx, tidx>>
vars   == <<monitor, queue, freed, pc, locals, i, counter, td, thd_result>>

Producer == "do_enqueue"
Consumer == "do_dequeue"
Main     == "main"
Worker   == {Producer, Consumer}
Slots    == 0 .. BUFFSIZE - 1
Garbage  == -1

Goto(t, label) == pc' = [pc EXCEPT ![t] = label]

-----------------------------------------------------------------------------
\* Slips a programmer might make in the definitions that follow.
NotifyNobody == UNCHANGED waiters
JoinProducer == pc[Producer] = "exited"

Node(n) == n % BUFFSIZE
Advance(n) == (n + 1) % UINT32
Full(t)  == hidx[t] = tidx[t] /\ in_use[hidx[t]] = 1
Empty(t) == hidx[t] = tidx[t] /\ in_use[hidx[t]] # 1
MustWait(t) == IF t = Producer THEN Full(t) ELSE Empty(t)
NotifyConsumer == SignalIf(Empty(Producer))
NotifyProducer == SignalIf(Full(Consumer))

\* The loop of do_enqueue.
EnqueueLoop ==
    i' = i + 1 /\ Goto(Producer, IF i + 1 < TESTCASE THEN "lock" ELSE "exited")

\* pthread_join on both threads.
Join == \A t \in Worker : pc[t] = "exited"

-----------------------------------------------------------------------------
\* make_queue leaves the counters of the bucket as malloc returned them.
Init ==
    /\ head \in HeapWords /\ tail \in HeapWords
    /\ in_use = [s \in Slots |-> 0]
    /\ data = [s \in Slots |-> Garbage]
    /\ lock = None /\ waiters = {} /\ spurious = 0
    /\ freed = FALSE
    /\ pc = [t \in Worker \union {Main} |-> IF t = Main THEN "join" ELSE "lock"]
    /\ hidx = [t \in Worker |-> 0] /\ tidx = [t \in Worker |-> 0]
    /\ i = 0 /\ counter = 0 /\ td = Garbage /\ thd_result = 0

Lock(t) ==
    /\ pc[t] = "lock"
    /\ Acquire(t)
    /\ hidx' = [hidx EXCEPT ![t] = Node(head)]
    /\ tidx' = [tidx EXCEPT ![t] = Node(tail)]
    /\ Goto(t, "test")
    /\ UNCHANGED <<waiters, spurious, queue, freed, i, counter, td, thd_result>>

Wait(t) ==
    /\ pc[t] = "test" /\ MustWait(t)
    /\ Block(t)
    /\ Goto(t, "wait")
    /\ UNCHANGED <<spurious, queue, freed, locals, i, counter, td, thd_result>>

Spurious(t) ==
    /\ WakeSpuriously(t)
    /\ UNCHANGED <<queue, freed, pc, locals, i, counter, td, thd_result>>

Wake(t) ==
    /\ pc[t] = "wait"
    /\ Unblock(t)
    /\ Goto(t, "woken")
    /\ UNCHANGED <<waiters, spurious, queue, freed, locals, i, counter, td,
                   thd_result>>

\* A thread goes on when it need not wait, and always after its wait.
Proceeds(t) == pc[t] = "woken" \/ (pc[t] = "test" /\ ~MustWait(t))

Enqueue ==
    /\ Proceeds(Producer)
    /\ data' = [data EXCEPT ![tidx[Producer]] = i]
    /\ NotifyConsumer
    /\ in_use' = [in_use EXCEPT ![tidx[Producer]] = 1]
    /\ tail' = Advance(tail)
    /\ Release(Producer)
    /\ EnqueueLoop
    /\ UNCHANGED <<spurious, head, freed, locals, counter, td, thd_result>>

Dequeue ==
    /\ Proceeds(Consumer)
    /\ td' = data[hidx[Consumer]]
    /\ NotifyProducer
    /\ in_use' = [in_use EXCEPT ![hidx[Consumer]] = 0]
    /\ head' = Advance(head)
    /\ Release(Consumer)
    /\ Goto(Consumer, "check")
    /\ UNCHANGED <<spurious, tail, data, freed, locals, i, counter, thd_result>>

\* do_dequeue compares what it got with its counter, and exits on a mismatch.
Check ==
    /\ pc[Consumer] = "check"
    /\ IF td # counter
       THEN /\ thd_result' = -1
            /\ Goto(Consumer, "exited")
            /\ UNCHANGED counter
       ELSE /\ counter' = counter + 1
            /\ Goto(Consumer, IF counter + 1 < TESTCASE THEN "lock" ELSE "exited")
            /\ UNCHANGED thd_result
    /\ UNCHANGED <<monitor, queue, freed, locals, i, td>>

\* A slip: the queue is not freed.
JoinAndLeak ==
    /\ pc[Main] = "join" /\ Join
    /\ Goto(Main, "exited")
    /\ UNCHANGED <<monitor, queue, freed, locals, i, counter, td, thd_result>>

\* main joins both threads and deletes the queue.
JoinAndDelete ==
    /\ pc[Main] = "join" /\ Join
    /\ lock = None
    /\ freed' = TRUE
    /\ Goto(Main, "exited")
    /\ UNCHANGED <<monitor, queue, locals, i, counter, td, thd_result>>

Exited == pc[Main] = "exited" /\ UNCHANGED vars

Step(t) ==
    \/ Lock(t) \/ Wait(t) \/ Wake(t)
    \/ t = Producer /\ Enqueue
    \/ t = Consumer /\ (Dequeue \/ Check)

Next == (\E t \in Worker : Step(t) \/ Spurious(t)) \/ JoinAndDelete \/ Exited

Fairness == (\A t \in Worker : WF_vars(Step(t))) /\ WF_vars(JoinAndDelete)

Spec == Init /\ [][Next]_vars /\ Fairness

-----------------------------------------------------------------------------
\* The number of completed calls of dequeue.
taken == IF pc[Consumer] = "check" \/ thd_result # 0 THEN counter + 1 ELSE counter

\* thd.result stays 0: each dequeue yields the testdata do_dequeue expects.
InOrder ==
    /\ pc[Consumer] = "check" => td = counter
    /\ thd_result = 0

\* The counters started from the same node and no wait ended without a signal.
Clean == spurious = 0 /\ (tail - i) % BUFFSIZE = (head - taken) % BUFFSIZE

\* In a clean run the missing second test and the missing memset do no harm:
\* testdata arrive in order, from whatever common value the counters start,
\* and a thread is blocked only while the ring is full (enqueue) or empty
\* (dequeue).
CleanRunsCorrect ==
    Clean => /\ InOrder
             /\ Producer \in waiters => i - taken = BUFFSIZE
             /\ Consumer \in waiters => i = taken

\* Whatever the counters start from and however the waits end, main reports
\* success only for a run in which every testdata came out in order: it has joined
\* both threads by then, and frees the queue only after them.
SuccessMeansAll == freed /\ thd_result = 0 => counter = TESTCASE /\ td = TESTCASE - 1

\* main gets past its two joins, with every testdata out, in every clean run.
Finishes == []Clean => <>(counter = TESTCASE /\ freed)
=============================================================================
