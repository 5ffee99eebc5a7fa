------------------------------ MODULE SyncDemos ------------------------------
(***************************************************************************)
(* The demonstrations of locks (data-sync-mutex, data-sync-spin-atomic,    *)
(* data-sync-rwlock, data-sync-sem, data-sync-cond-mutex), one in each     *)
(* behaviour: two threads that share a lock and what it protects, and a    *)
(* main that waits for both of them or for the second.  When main returns  *)
(* the process ends.  The threads can be created.                          *)
(***************************************************************************)
EXTENDS Integers

CONSTANTS Rounds,        \* of a loop
          SLOT_LEN

VARIABLES demo, at, round,      \* which one; where each thread is, and in which round
          locked,        \* the lock, of whatever kind
          counter, done, content_queue, \* what it protects
          loaded, i,     \* a thread's copy of counter, and its index
          over,          \* main has returned
          updates, overlap, spurious, seen    \* history: additions; whether both threads
                         \* hold the lock; a wakeup without a signal; what was consumed

shared  == <<counter, done, content_queue>>
history == <<updates, overlap, spurious, seen>>
syncVars == <<demo, at, round, locked, shared, loaded, i, over, history>>

Demos == {"mutex", "std", "nostd", "rwlock", "sem", "cond"}
Threads == {1, 2}
Slots == 0 .. SLOT_LEN - 1

Init ==
    /\ demo \in Demos /\ over = FALSE /\ locked = FALSE
    /\ at = [t \in Threads |-> IF demo = "rwlock" /\ t = 1 THEN "test" ELSE "lock"]
    /\ round = [t \in Threads |-> 0] /\ loaded = round /\ i = round
    /\ counter = (IF demo = "cond" THEN 1 ELSE 0) /\ done = 0
    /\ content_queue = [k \in Slots |-> 0] /\ seen = content_queue
    /\ updates = 0 /\ overlap = FALSE /\ spurious = FALSE

Goto(t, where) == at' = [at EXCEPT ![t] = where]

-----------------------------------------------------------------------------
\* A lock that is taken in one step: a mutex, sem_wait on 1, rdlock and wrlock of one
\* reader and one writer, ...
Take(t) == at[t] = "lock" /\ ~locked /\ locked' = TRUE /\ Goto(t, "in")
Lock(t) ==
    /\ demo \notin {"std", "nostd"} /\ Take(t)
    /\ UNCHANGED <<demo, round, shared, loaded, i, over, history>>

\* ... or atomic_compare_exchange.
spinlock_lock(t) ==
    /\ demo = "nostd" /\ Take(t)
    /\ UNCHANGED <<demo, round, shared, loaded, i, over, history>>

\* The spin lock of std tests the word, and then sets it.
std_test(t) ==
    /\ demo = "std" /\ at[t] = "lock" /\ ~locked /\ Goto(t, "set")
    /\ UNCHANGED <<demo, round, locked, shared, loaded, i, over, history>>
std_set(t) ==
    /\ at[t] = "set" /\ locked' = TRUE /\ overlap' = (overlap \/ locked) /\ Goto(t, "in")
    /\ UNCHANGED <<demo, round, shared, loaded, i, over, updates, spurious, seen>>

Last(t) == CASE demo \in {"mutex", "std", "cond"} -> 1
             [] demo \in {"nostd", "sem"} -> Rounds
             [] demo = "rwlock" -> Rounds + 1
\* The unlock, and the loop around the section; the reader of rwlock has another test.
Unlock(t) ==
    /\ at[t] = "unlock" /\ locked' = FALSE
    /\ IF demo = "rwlock" /\ t = 1
       THEN Goto(t, "test") /\ UNCHANGED round
       ELSE /\ round' = [round EXCEPT ![t] = @ + 1]
            /\ Goto(t, IF round'[t] < Last(t) THEN "lock" ELSE "end")
    /\ i' = [i EXCEPT ![t] = 0] /\ UNCHANGED <<demo, shared, loaded, over, history>>

-----------------------------------------------------------------------------
\* counter += 1, by trythis and by the writer.
Adds(t) == \/ demo \in {"mutex", "std", "nostd"}
           \/ demo = "rwlock" /\ t = 2 /\ round[t] < Rounds
load(t) ==
    /\ Adds(t) /\ at[t] = "in" /\ loaded' = [loaded EXCEPT ![t] = counter] /\ Goto(t, "add")
    /\ UNCHANGED <<demo, round, locked, shared, i, over, history>>
trythis(t) ==
    /\ at[t] = "add" /\ counter' = loaded[t] + 1 /\ updates' = updates + 1 /\ Goto(t, "unlock")
    /\ UNCHANGED <<demo, round, locked, done, content_queue, loaded, i, over, overlap, spurious,
                   seen>>

\* rwlock: the writer's last section, and the reader, which tests done without the lock.
writer(t) ==
    /\ demo = "rwlock" /\ t = 2 /\ round[t] = Rounds /\ at[t] = "in"
    /\ done' = 1 /\ Goto(t, "unlock")
    /\ UNCHANGED <<demo, round, locked, counter, content_queue, loaded, i, over, history>>
reader(t) ==
    /\ \/ at[t] = "test" /\ Goto(t, IF done = 0 THEN "lock" ELSE "end") /\ UNCHANGED loaded
       \/ /\ demo = "rwlock" /\ t = 1 /\ at[t] = "in" /\ Goto(t, "unlock")
          /\ loaded' = [loaded EXCEPT ![t] = counter]
    /\ UNCHANGED <<demo, round, locked, shared, i, over, history>>

\* sem: one slot of the loops of producer and consumer.
NextSlot(t) ==
    /\ i' = [i EXCEPT ![t] = @ + 1] /\ Goto(t, IF i'[t] = SLOT_LEN THEN "unlock" ELSE "in")
producer(t) ==
    /\ demo = "sem" /\ t = 1 /\ at[t] = "in" /\ NextSlot(t)
    /\ content_queue' = [content_queue EXCEPT ![i[t]] = i[t] * round[t]]
    /\ UNCHANGED <<demo, round, locked, counter, done, loaded, over, history>>
consumer(t) ==
    /\ demo = "sem" /\ t = 2 /\ at[t] = "in" /\ NextSlot(t)
    /\ seen' = [seen EXCEPT ![i[t]] = content_queue[i[t]]]
    /\ content_queue' = [content_queue EXCEPT ![i[t]] = 0]
    /\ UNCHANGED <<demo, round, locked, counter, done, loaded, over, updates, overlap, spurious>>

\* cond: the first thread under the lock waits for the second; it may be woken by nobody.
foo(t) ==
    /\ demo = "cond" /\ at[t] = "in"
    /\ IF counter = 1
       THEN counter' = 2 /\ locked' = FALSE /\ Goto(t, "wait")
       ELSE /\ counter' = counter + 5 /\ UNCHANGED locked
            /\ at' = [s \in Threads |-> IF s = t THEN "unlock"
                                        ELSE IF at[s] = "wait" THEN "woken" ELSE at[s]]
    /\ UNCHANGED <<demo, round, done, content_queue, loaded, i, over, history>>
Spurious(t) ==
    /\ at[t] = "wait" /\ spurious' = TRUE /\ Goto(t, "woken")
    /\ UNCHANGED <<demo, round, locked, shared, loaded, i, over, updates, overlap, seen>>
Woken(t) ==
    /\ at[t] = "woken" /\ ~locked /\ locked' = TRUE /\ Goto(t, "unlock")
    /\ loaded' = [loaded EXCEPT ![t] = counter]
    /\ UNCHANGED <<demo, round, shared, i, over, history>>

\* rwlock keeps one pthread_t for both threads, cond joins the second only.
main ==
    /\ at[2] = "end" /\ (demo \in {"rwlock", "cond"} \/ at[1] = "end")
    /\ over' = TRUE /\ UNCHANGED <<demo, at, round, locked, shared, loaded, i, history>>

Next ==
    \/ ~over /\ main
    \/ ~over /\ \E t \in Threads :
          \/ Lock(t) \/ spinlock_lock(t) \/ std_test(t) \/ std_set(t) \/ Unlock(t)
          \/ load(t) \/ trythis(t) \/ writer(t) \/ reader(t) \/ producer(t) \/ consumer(t)
          \/ foo(t) \/ Spurious(t) \/ Woken(t)
    \/ over /\ UNCHANGED syncVars

-----------------------------------------------------------------------------
\* No addition is lost, unless both threads have taken the lock, which only the spin lock
\* that tests and then sets lets happen; the consumer sees one round of the producer, whole,
\* or what it has left itself; and the thread that waits sees what the other one has added,
\* unless it was woken by nobody.
NoLostUpdate ==
    /\ overlap => demo = "std"
    /\ ~overlap /\ demo \notin {"sem", "cond"} => counter = updates
    /\ demo = "sem" /\ at[2] = "unlock" =>
         \E r \in 0 .. Rounds - 1 : \A k \in Slots : seen[k] = k * r
    /\ demo = "cond" /\ ~spurious => \A t \in Threads : loaded[t] \in {0, 7}
=============================================================================
