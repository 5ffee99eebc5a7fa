---------------------------- MODULE DynamicQueue -----------------------------
(***************************************************************************)
(* The linked queue of data-queue-concurrent/dynamic.c.  enqueue mallocs a *)
(* node and pushes it at qhead, dequeue takes the node at qtail and frees  *)
(* it.  Unlike static.c neither operation tests its condition again after  *)
(* pthread_cond_wait.  The i-th testdata is the number i, as in            *)
(* StaticQueue; dereferencing NULL or freed memory is the state fault.     *)
(***************************************************************************)
EXTENDS Integers, FiniteSets, Pthread

CONSTANTS TESTCASE,      \* how many testdata the producer enqueues
          LIMIT,         \* q->limit; main passes TESTCASE
          Addr           \* the addresses malloc returns nodes at

ASSUME DynamicQueueAssumption ==
    /\ TESTCASE \in Nat \ {0}
    /\ LIMIT \in Nat \ {0, 1}
    /\ IsFiniteSet(Addr) /\ Cardinality(Addr) > LIMIT
    /\ "NULL" \notin Addr

VARIABLES len, qhead, qtail,   \* the bucket
          live,                \* the nodes that are allocated
          prev, next, data,    \* the fields of the nodes
          fault,               \* a segmentation fault ended the process
          freed,               \* delete_queue has freed the bucket
          pc, i, counter, td, result, \* as in StaticQueue
          walk                 \* delete_queue's local data

queue == <<len, qhead, qtail, live, prev, next, data>>
vars  == <<monitor, queue, fault, freed, pc, i, counter, td, result, walk>>

Producer == "do_enqueue"
Consumer == "main"
Thread   == {Producer, Consumer}
NULL     == "NULL"
Garbage  == -1

Goto(t, label) == pc' = [pc EXCEPT ![t] = label]

-----------------------------------------------------------------------------
\* Slips a programmer might make in the definitions that follow.
ReleaseNothing(d) == UNCHANGED live
OneTooMany == i' = i + 1 /\ Goto(Producer, IF i < TESTCASE THEN "lock" ELSE "exited")

\* The guard of the wait in each operation.
MustWait(t) == IF t = Producer THEN len = LIMIT ELSE len = 0

\* enqueue signals when the queue was empty; dequeue when it was full, but
\* only on the branch that leaves a node behind.
NotifyConsumer == SignalIf(len = 0)
NotifyProducer == SignalIf(len # 1 /\ len = LIMIT)

\* The loop of do_enqueue.
EnqueueLoop ==
    i' = i + 1 /\ Goto(Producer, IF i + 1 < TESTCASE THEN "lock" ELSE "exited")

\* free(d->data); free(d).
Free(d) == live' = live \ {d}

-----------------------------------------------------------------------------
Init ==
    /\ len = 0 /\ qhead = NULL /\ qtail = NULL
    /\ live = {}
    /\ prev = [a \in Addr |-> NULL] /\ next = [a \in Addr |-> NULL]
    /\ data = [a \in Addr |-> Garbage]
    /\ lock = None /\ waiters = {} /\ spurious = 0
    /\ fault = FALSE /\ freed = FALSE
    /\ pc = [t \in Thread |-> "lock"]
    /\ i = 0 /\ counter = 0 /\ td = Garbage /\ result = 0 /\ walk = NULL

Lock(t) ==
    /\ pc[t] = "lock"
    /\ Acquire(t)
    /\ Goto(t, IF MustWait(t) THEN "full or empty" ELSE "go")
    /\ UNCHANGED <<waiters, spurious, queue, fault, freed, i, counter, td,
                   result, walk>>

Wait(t) ==
    /\ pc[t] = "full or empty"
    /\ Block(t)
    /\ Goto(t, "wait")
    /\ UNCHANGED <<spurious, queue, fault, freed, i, counter, td, result, walk>>

Spurious(t) ==
    /\ WakeSpuriously(t)
    /\ UNCHANGED <<queue, fault, freed, pc, i, counter, td, result, walk>>

Wake(t) ==
    /\ pc[t] = "wait"
    /\ Unblock(t)
    /\ Goto(t, "go")
    /\ UNCHANGED <<waiters, spurious, queue, fault, freed, i, counter, td,
                   result, walk>>

\* enqueue from the malloc on, which is taken to succeed: the code does not look.  The old
\* head is dereferenced only when len says there is one.
Enqueue ==
    /\ pc[Producer] = "go"
    /\ \E newd \in Addr \ live :
          /\ live' = live \union {newd}
          /\ data' = [data EXCEPT ![newd] = i]
          /\ next' = [next EXCEPT ![newd] = qhead]
          /\ qhead' = newd
          /\ IF len = 0
             THEN /\ qtail' = newd
                  /\ prev' = [prev EXCEPT ![newd] = NULL]
                  /\ UNCHANGED fault
             ELSE /\ fault' = (qhead \notin live)
                  /\ prev' = [a \in Addr |-> IF a = newd THEN NULL
                                             ELSE IF a = qhead THEN newd
                                             ELSE prev[a]]
                  /\ UNCHANGED qtail
    /\ NotifyConsumer
    /\ len' = len + 1
    /\ Release(Producer)
    /\ EnqueueLoop
    /\ UNCHANGED <<spurious, freed, counter, td, result, walk>>

\* dequeue from the read of qtail on.  d->data, and q->qtail->next when a node
\* should be left, are dereferenced.
Dequeue ==
    /\ pc[Consumer] = "go"
    /\ IF qtail \notin live \/ (len # 1 /\ prev[qtail] \notin live \ {qtail})
       THEN /\ fault' = TRUE
            /\ UNCHANGED <<monitor, queue, pc, td>>
       ELSE /\ td' = data[qtail]
            /\ Free(qtail)
            /\ IF len = 1
               THEN qhead' = NULL /\ qtail' = NULL /\ UNCHANGED next
               ELSE /\ qtail' = prev[qtail]
                    /\ next' = [next EXCEPT ![prev[qtail]] = NULL]
                    /\ UNCHANGED qhead
            /\ NotifyProducer
            /\ len' = len - 1
            /\ Release(Consumer)
            /\ Goto(Consumer, "check")
            /\ UNCHANGED <<spurious, prev, data, fault>>
    /\ UNCHANGED <<freed, i, counter, result, walk>>

\* A slip: the loop ends one testdata early.
CheckOneShort ==
    /\ pc[Consumer] = "check"
    /\ counter' = counter + 1
    /\ Goto(Consumer, IF counter + 2 < TESTCASE THEN "lock" ELSE "delete")
    /\ UNCHANGED <<monitor, queue, fault, freed, i, td, result, walk>>

\* A slip: every other testdata is expected.
CheckSkips ==
    /\ pc[Consumer] = "check"
    /\ counter' = counter + 2
    /\ Goto(Consumer, "lock")
    /\ UNCHANGED <<monitor, queue, fault, freed, i, td, result, walk>>

\* do_dequeue compares what it got with its counter.  It leaves its loop without a return
\* statement: whatever main then reads, below 0 or not, it goes on to delete_queue.
Check ==
    /\ pc[Consumer] = "check"
    /\ IF td # counter
       THEN /\ result' = -1
            /\ Goto(Consumer, "delete")
            /\ UNCHANGED counter
       ELSE /\ counter' = counter + 1
            /\ Goto(Consumer, IF counter + 1 < TESTCASE THEN "lock" ELSE "delete")
            /\ UNCHANGED result
    /\ UNCHANGED <<monitor, queue, fault, freed, i, td, walk>>

\* delete_queue reads qhead before it takes the lock ...
DeleteRead ==
    /\ pc[Consumer] = "delete"
    /\ walk' = qhead
    /\ Goto(Consumer, "delete locked")
    /\ UNCHANGED <<monitor, queue, fault, freed, i, counter, td, result>>

\* ... and then frees the nodes it reaches from there, and the bucket.
Chain(a) ==
    LET upTo[k \in 0 .. Cardinality(Addr)] ==
          IF k = 0 THEN {a} \ {NULL}
          ELSE upTo[k - 1] \union ({next[b] : b \in upTo[k - 1]} \ {NULL})
    IN  upTo[Cardinality(Addr)]

Delete ==
    /\ pc[Consumer] = "delete locked" /\ lock = None
    /\ live' = live \ Chain(walk)
    /\ freed' = TRUE
    /\ Goto(Consumer, "exited")
    /\ UNCHANGED <<monitor, len, qhead, qtail, prev, next, data, fault, i,
                   counter, td, result, walk>>

Exited == (fault \/ pc[Consumer] = "exited") /\ UNCHANGED vars

Step(t) ==
    /\ ~fault
    /\ \/ Lock(t) \/ Wait(t) \/ Wake(t)
       \/ t = Producer /\ Enqueue
       \/ t = Consumer /\ (Dequeue \/ Check \/ DeleteRead \/ Delete)

Next == (\E t \in Thread : Step(t) \/ (~fault /\ Spurious(t))) \/ Exited

Fairness == \A t \in Thread : WF_vars(Step(t))

Spec == Init /\ [][Next]_vars /\ Fairness

-----------------------------------------------------------------------------
\* The number of completed calls of dequeue.
taken == IF pc[Consumer] = "check" THEN counter + 1 ELSE counter

\* do_dequeue neither crashes nor returns -1 or -2: each dequeue yields the
\* testdata it expects.
InOrder ==
    /\ ~fault
    /\ pc[Consumer] = "check" => td = counter
    /\ result = 0

\* Without a spurious wakeup all is well; and even with one the consumer is
\* never handed a wrong testdata: it gets the right one, or the process crashes.
OrderedOrCrashed ==
    /\ spurious = 0 => InOrder
    /\ pc[Consumer] = "check" => td = counter
    /\ result = 0

NodeOf(k) == IF \E a \in live : data[a] = k
             THEN CHOOSE a \in live : data[a] = k
             ELSE NULL

\* The doubly linked list between the operations: one live node per testdata
\* in flight, linked from qhead (newest) by next and from qtail (oldest) by
\* prev, the two directions inverse to each other, and len its length.
\* delete_queue frees every node that is left, and nobody uses the bucket
\* after it, although the producer is not joined.
ListShape ==
    /\ len = i - taken /\ Cardinality(live) = len
    /\ {data[a] : a \in live} = taken .. i - 1
    /\ qhead = NodeOf(i - 1) /\ qtail = NodeOf(taken)
    /\ \A a \in live : /\ next[a] = NodeOf(data[a] - 1)
                       /\ prev[a] = NodeOf(data[a] + 1)
    /\ freed => live = {} /\ pc[Producer] = "exited"

\* Every run ends with all testdata out and the queue deleted, or in a crash
\* that a spurious wakeup caused.
Finishes == <>(counter = TESTCASE /\ freed) \/ <>(fault /\ spurious > 0)

Fifo == INSTANCE BoundedFifo WITH
    N <- TESTCASE, sent <- i, got <- td,
    Capacity <- IF MaxSpurious = 0 THEN LIMIT ELSE TESTCASE,
    buf <- [k \in 1 .. len |-> data[NodeOf(taken + k - 1)]]

\* enqueue and dequeue are the atomic Put and Get of a FIFO.  Its capacity is
\* the limit only as long as no wakeup is spurious: a producer that runs on a
\* full list leaves len above the limit, and len == limit stops nobody then.
ImplementsFifo == Fifo!FifoSafety
=============================================================================
