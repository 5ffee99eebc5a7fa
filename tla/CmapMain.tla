------------------------------ MODULE CmapMain -------------------------------
(***************************************************************************)
(* The program of data-hashmap-concurrent/cmap.c: main sets every key to   *)
(* 0, starts threads that add its index to every value (increase_thread)   *)
(* or subtract it (decrease_thread) in the callback of cmap_get, joins     *)
(* them, looks for a value that is not 0, and frees the map.               *)
(***************************************************************************)
EXTENDS Cmap

CONSTANTS Incs, Decs     \* the increase_threads and the decrease_threads

VARIABLES pc, i,         \* position and loop counter of each thread
          node, val,     \* the node its cmap_get has found and the value loaded from it
          inc_done_count, dec_done_count,
          verdict        \* what main prints: "data invalid" or "all data is valid"

Main   == "main"
Worker == Incs \union Decs
TOTAL_VAL_COUNT == Cardinality(Keys)

vars == <<buck, block, pc, i, node, val, inc_done_count, dec_done_count, verdict>>

Goto(t, label) == pc' = [pc EXCEPT ![t] = label]

-----------------------------------------------------------------------------
Init ==
    /\ Alloc
    /\ pc = [t \in Worker \union {Main} |-> IF t = Main THEN "insert" ELSE "new"]
    /\ i = [t \in Worker \union {Main} |-> 0]
    /\ node = [t \in Worker |-> 0] /\ val = [t \in Worker |-> 0]
    /\ inc_done_count = 0 /\ dec_done_count = 0
    /\ verdict = "none"

\* One cmap_set of main's loop; no other thread runs yet.  After the last one
\* the threads are created.
Insert ==
    /\ pc[Main] = "insert"
    /\ LET k == i[Main]
       IN  /\ buck' = [buck EXCEPT ![HashOf[k]] = SetIn(@, k, 0)]
           /\ i' = [i EXCEPT ![Main] = k + 1]
           /\ IF k + 1 < TOTAL_VAL_COUNT
              THEN UNCHANGED pc
              ELSE pc' = [t \in Worker \union {Main} |->
                            IF t = Main THEN "join" ELSE "lock"]
    /\ UNCHANGED <<block, node, val, inc_done_count, dec_done_count, verdict>>

\* cmap_get, its lock.
GetLock(t) ==
    /\ pc[t] = "lock"
    /\ LockBucket(t, i[t])
    /\ Goto(t, "walk")
    /\ UNCHANGED <<buck, i, node, val, inc_done_count, dec_done_count, verdict>>

\* _inc_func and _dec_func on uint64_t.
Callback(t, v, k) == IF t \in Incs THEN (v + k) % UINT64 ELSE (v - k) % UINT64

\* cmap_get finds the node and its callback loads the value; on -1 the thread gives up.
GetWalk(t) ==
    /\ pc[t] = "walk"
    /\ LET k  == i[t]
           b  == HashOf[k]
           at == Find(buck[b], k)
       IN  IF at = 0
           THEN /\ UnlockBucket(k, FALSE)
                /\ Goto(t, "exited")
                /\ UNCHANGED <<node, val>>
           ELSE /\ node' = [node EXCEPT ![t] = at]
                /\ val' = [val EXCEPT ![t] = buck[b][at].value]
                /\ Goto(t, "store")
                /\ UNCHANGED block
    /\ UNCHANGED <<buck, i, inc_done_count, dec_done_count, verdict>>

\* The callback stores the new value, cmap_get unlocks, and the loop of the thread goes on.
GetStore(t) ==
    /\ pc[t] = "store"
    /\ LET k == i[t]
       IN  /\ buck' = [buck EXCEPT ![HashOf[k]][node[t]].value = Callback(t, val[t], k)]
           /\ UnlockBucket(k, TRUE)
           /\ i' = [i EXCEPT ![t] = k + 1]
           /\ Goto(t, IF k + 1 < TOTAL_VAL_COUNT THEN "lock" ELSE "done")
    /\ node' = [node EXCEPT ![t] = 0] /\ val' = [val EXCEPT ![t] = 0]
    /\ UNCHANGED <<inc_done_count, dec_done_count, verdict>>

\* The count under plock, and pthread_exit.
Done(t) ==
    /\ pc[t] = "done"
    /\ inc_done_count' = inc_done_count + (IF t \in Incs THEN 1 ELSE 0)
    /\ dec_done_count' = dec_done_count + (IF t \in Decs THEN 1 ELSE 0)
    /\ Goto(t, "exited")
    /\ UNCHANGED <<buck, block, i, node, val, verdict>>

\* main has joined every thread and looks at every node, free ones included,
\* without a lock.
Verify ==
    /\ pc[Main] = "join" /\ \A t \in Worker : pc[t] = "exited"
    /\ verdict' = IF \E b \in Buckets : \E n \in 1 .. Len(buck[b]) : buck[b][n].value # 0
                  THEN "invalid" ELSE "valid"
    /\ Goto(Main, "free")
    /\ UNCHANGED <<buck, block, i, node, val, inc_done_count, dec_done_count>>

\* cmap_free takes the mutex of every bucket in turn.
FreeMap ==
    /\ pc[Main] = "free" /\ \A b \in Buckets : block[b] = None
    /\ buck' = [b \in Buckets |-> <<>>]
    /\ Goto(Main, "exited")
    /\ UNCHANGED <<block, i, node, val, inc_done_count, dec_done_count, verdict>>

Exited == pc[Main] = "exited" /\ UNCHANGED vars

Work(t) == GetLock(t) \/ GetWalk(t) \/ GetStore(t) \/ Done(t)

Next == Insert \/ (\E t \in Worker : Work(t)) \/ Verify \/ FreeMap \/ Exited

Spec == Init /\ [][Next]_vars

-----------------------------------------------------------------------------
\* No update is lost: at every moment the value of a key is its index times
\* the increments less the decrements made so far, modulo 2^64, although the
\* callback loads and stores in two steps and intermediate values go below zero.
\* So main never prints "data invalid".
NoLostUpdate ==
    /\ pc[Main] = "join" =>
         \A k \in Keys :
           buck[HashOf[k]][Find(buck[HashOf[k]], k)].value
             = (k * (Cardinality({t \in Incs : i[t] > k})
                     - Cardinality({t \in Decs : i[t] > k}))) % UINT64
    /\ verdict # "invalid"
=============================================================================
