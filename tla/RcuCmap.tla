------------------------------- MODULE RcuCmap -------------------------------
(***************************************************************************)
(* The kernel module ksync-rcu-cmap/rcucmap.c: a hash map whose buckets    *)
(* are RCU lists.  task_writer fills it, updates every key several times   *)
(* (a new node replaces the old one, which call_rcu frees) and removes     *)
(* every key; task_reader sums all values again and again, without a lock, *)
(* until the sum is 0; rcu_cmap_exit waits for both and deletes the map.   *)
(* The bucket spinlocks are never contended: there is one writer, and the  *)
(* deletion follows it.  An allocation waits when all of Addr is in use,   *)
(* which bounds the retired nodes a reader may hold up.                    *)
(***************************************************************************)
EXTENDS RcuList

CONSTANTS OP_COUNT,      \* keys 0 .. OP_COUNT - 1, and as many buckets
          limit,         \* the writer's steps end there; the code has OP_COUNT / 2
          HashOf,        \* _hashfunc
          MaxFail        \* bound on the kzallocs that return NULL

Keys == 0 .. OP_COUNT - 1
Reader == "task_reader"

ASSUME RcuCmapAssumption ==
    /\ OP_COUNT \in Nat \ {0} /\ limit \in Nat \ {0}
    /\ Heads = Keys /\ HashOf \in [Keys -> Heads]
    /\ Tasks = {Reader}
    /\ MaxFail \in Nat

VARIABLES key, value,    \* the fields of the nodes
          wpc, wi, step, \* task_writer: position, loop counters
          old_n,         \* update_ccmap's and remove_ccmap's local
          task_init_val,
          rpc, ri,       \* task_reader
          sum,           \* 1 when it is not 0: no value is negative
          n,             \* get_ccmap_rcu's cursor
          seen,          \* history: values ri had since the section began
          mod,           \* the module, from insmod to rmmod
          fails          \* kzallocs that failed

nodes  == <<rcuVars, key, value>>
writer == <<wpc, wi, step, old_n, task_init_val, fails>>
reader == <<rpc, ri, sum, n, seen>>
vars   == <<nodes, writer, reader, mod>>

Missing == -1

\* Slip: the search begins behind the first node.
SearchSkipsFirst(k) ==
    {a \in on[HashOf[k]] : key[a] = k /\ a # first[HashOf[k]]}

\* The node that holds k, and its value, as the writer sees them.
NodesOf(k) == {a \in on[HashOf[k]] : key[a] = k}
Current(k) == IF NodesOf(k) = {} THEN Missing
              ELSE value[CHOOSE a \in NodesOf(k) : TRUE]

-----------------------------------------------------------------------------
Init ==
    /\ RcuInit
    /\ key = [a \in Addr |-> 0] /\ value = [a \in Addr |-> 0]
    /\ wpc = "new" /\ wi = 0 /\ step = 1 /\ old_n = End
    /\ task_init_val = 0 /\ fails = 0
    /\ rpc = "new" /\ ri = 0 /\ sum = 0 /\ n = End /\ seen = {}
    /\ mod = "loaded"

\* Where the writer's loops go after the call for key wi.
Advance ==
    IF wi + 1 < OP_COUNT
    THEN wi' = wi + 1 /\ UNCHANGED <<wpc, step, task_init_val>>
    ELSE /\ wi' = 0
         /\ CASE wpc = "fill" ->
                   /\ wpc' = IF step < limit THEN "update" ELSE "remove"
                   /\ task_init_val' = 1
                   /\ UNCHANGED step
              [] wpc = "update" ->
                   /\ step' = step + 1
                   /\ wpc' = IF step + 1 < limit THEN "update" ELSE "remove"
                   /\ UNCHANGED task_init_val
              [] wpc = "remove" ->
                   /\ wpc' = "exited"
                   /\ UNCHANGED <<step, task_init_val>>

\* A read-side section of the reader on the key that changes sees its new value.
Witness(k, v) == seen' = IF Reader \in inside /\ ri = k THEN seen \union {v} ELSE seen

\* Slips: list_replace_init, which resets the old node's link, for
\* list_replace_rcu; the old node is freed at once, or never.
LinkResetting(h, a, b) ==
    /\ on' = [on EXCEPT ![h] = (@ \ {a}) \union {b}]
    /\ IF first[h] = a
       THEN /\ first' = [first EXCEPT ![h] = b]
            /\ next' = [next EXCEPT ![b] = next[a], ![a] = End]
       ELSE LET p == CHOOSE p \in on[h] : next[p] = a
            IN  /\ next' = [next EXCEPT ![b] = next[a], ![p] = b, ![a] = End]
                /\ UNCHANGED first
FreeAtOnce(a) == alloc' = alloc \ {a} /\ UNCHANGED <<retired, gp>>
Forget(a) == UNCHANGED <<alloc, retired, gp>>

\* list_replace_rcu on the bucket's list, and call_rcu on the old node.
LinkReplacement(h, a, b) == ReplaceRcu(h, a, b)
CallRcu(a) == Retire(a) /\ UNCHANGED alloc

\* kthread(): a thread that was stopped before it ran never enters its function.
StartWriter ==
    /\ wpc = "new"
    /\ wpc' = IF mod = "loaded" THEN "fill" ELSE "exited"
    /\ UNCHANGED <<nodes, wi, step, old_n, task_init_val, fails, reader, mod>>

\* update_ccmap up to the unlock: the value goes into a new node.
Update ==
    /\ wpc \in {"fill", "update"} /\ old_n = End
    /\ Addr \ alloc # {}
    /\ LET k == wi
           h == HashOf[k]
           v == IF wpc = "fill" THEN k ELSE k * step
       IN  /\ alloc' = alloc \union {Fresh}
           /\ key' = [key EXCEPT ![Fresh] = k]
           /\ value' = [value EXCEPT ![Fresh] = v]
           /\ Witness(k, v)
           /\ IF NodesOf(k) = {}
              THEN AddRcu(h, Fresh) /\ Advance /\ UNCHANGED old_n
              ELSE \E a \in NodesOf(k) :
                     /\ LinkReplacement(h, a, Fresh)
                     /\ old_n' = a
                     /\ UNCHANGED <<wpc, wi, step, task_init_val>>
    /\ UNCHANGED <<inside, retired, gp, fails, rpc, ri, sum, n, mod>>

\* kzalloc(GFP_ATOMIC) fails: nothing changes, the loop goes on.
UpdateFails ==
    /\ wpc \in {"fill", "update"} /\ old_n = End
    /\ fails < MaxFail
    /\ fails' = fails + 1
    /\ Advance
    /\ UNCHANGED <<nodes, old_n, reader, mod>>

\* remove_ccmap up to the unlock; a key that is not there is skipped.
Remove ==
    /\ wpc = "remove" /\ old_n = End
    /\ IF NodesOf(wi) = {}
       THEN Advance /\ UNCHANGED <<first, next, on, old_n, seen>>
       ELSE \E a \in NodesOf(wi) :
              /\ DelRcu(HashOf[wi], a)
              /\ old_n' = a
              /\ Witness(wi, Missing)
              /\ UNCHANGED <<wpc, wi, step, task_init_val>>
    /\ UNCHANGED <<alloc, inside, retired, gp, key, value, fails, rpc, ri, sum,
                   n, mod>>

\* call_rcu after the unlock, and the loop.
CallRcuOld ==
    /\ old_n # End
    /\ CallRcu(old_n)
    /\ old_n' = End
    /\ Advance
    /\ UNCHANGED <<first, next, on, inside, key, value, fails, reader, mod>>

\* A grace period ends and _ccmap_cb frees the node; the code of _ccmap_cb is
\* gone once the module is unloaded.
Callback(a) ==
    /\ mod # "oops"
    /\ Reclaim(a)
    /\ mod' = IF mod = "unloaded" THEN "oops" ELSE mod
    /\ key' = [key EXCEPT ![a] = 0] /\ value' = [value EXCEPT ![a] = 0]
    /\ UNCHANGED <<first, on, inside, gp, writer, reader>>

-----------------------------------------------------------------------------
StartReader ==
    /\ rpc = "new"
    /\ rpc' = IF mod = "stop_r" THEN "exited" ELSE "wait"
    /\ UNCHANGED <<nodes, writer, ri, sum, n, seen, mod>>

\* The reader sees task_init_val after a sleep.
Ready ==
    /\ rpc = "wait" /\ task_init_val = 1
    /\ rpc' = "lock"
    /\ UNCHANGED <<nodes, writer, ri, sum, n, seen, mod>>

\* Until then it sleeps again.
StillWaiting == rpc = "wait" /\ task_init_val # 1 /\ UNCHANGED vars

\* rcu_read_lock, and the cursor is at the first node of the bucket.
BeginRead ==
    /\ rpc = "lock"
    /\ ReadLock(Reader)
    /\ n' = first[HashOf[ri]]
    /\ seen' = {Current(ri)}
    /\ rpc' = "walk"
    /\ UNCHANGED <<first, next, on, alloc, retired, gp, key, value, writer, ri, sum, mod>>

\* The cursor moves past a node of another key.
Walk ==
    /\ rpc = "walk" /\ n # End /\ key[n] # ri
    /\ n' = next[n]
    /\ UNCHANGED <<nodes, writer, rpc, ri, sum, seen, mod>>

\* The key is found or the list is over: the value is added, the section ends,
\* and after the last key the sum decides.
EndRead ==
    /\ rpc = "walk" /\ (n # End => key[n] = ri)
    /\ LET total == IF n # End /\ value[n] > 0 THEN 1 ELSE sum
       IN  IF ri + 1 < OP_COUNT
           THEN ri' = ri + 1 /\ sum' = total /\ rpc' = "lock"
           ELSE /\ ri' = 0 /\ sum' = 0
                /\ rpc' = IF total = 0 THEN "exited" ELSE "lock"
    /\ ReadUnlock(Reader)
    /\ n' = End /\ seen' = {}
    /\ UNCHANGED <<first, next, on, alloc, retired, key, value, writer, mod>>

\* rmmod: rcu_cmap_exit begins with kthread_stop(task_write).  While the writer
\* runs that only waits, so it starts before the writer ran or when it is done.
Rmmod ==
    /\ mod = "loaded"
    /\ wpc \in {"new", "exited"}
    /\ mod' = "stop_w"
    /\ UNCHANGED <<nodes, writer, reader>>

\* The writer has exited: kthread_stop(task_read).
StopReader ==
    /\ mod = "stop_w" /\ wpc = "exited"
    /\ mod' = "stop_r"
    /\ UNCHANGED <<nodes, writer, reader>>

\* The reader has exited: delete_ccmap frees what is linked.
Delete ==
    /\ mod = "stop_r" /\ rpc = "exited"
    /\ alloc' = alloc \ UNION {on[h] : h \in Heads}
    /\ first' = [h \in Heads |-> End] /\ on' = [h \in Heads |-> {}]
    /\ mod' = "unloaded"
    /\ UNCHANGED <<next, inside, retired, gp, key, value, writer, reader>>

Gone == mod = "oops" \/ (mod = "unloaded" /\ retired = {})

Write == StartWriter \/ Update \/ UpdateFails \/ Remove \/ CallRcuOld
Read == StartReader \/ Ready \/ BeginRead \/ Walk \/ EndRead
Callbacks == \E a \in Addr : Callback(a)
Exit == StopReader \/ Delete

Next ==
    \/ Write \/ Read \/ Rmmod \/ Exit
    \/ Callbacks
    \/ StillWaiting \/ (Gone /\ UNCHANGED vars)

\* Both kthreads and a started rmmod are scheduled, and grace periods end.
Fairness ==
    /\ WF_vars(Write) /\ WF_vars(Read) /\ WF_vars(Exit) /\ WF_vars(Callbacks)

Spec == Init /\ [][Next]_vars /\ Fairness

-----------------------------------------------------------------------------
\* The reader's cursor is always on allocated memory, although the writer
\* replaces, removes and retires nodes under it: a node is freed only when no
\* section that could have reached it is open.
ReaderOnLiveNode == n # End => n \in alloc

\* What a section of the reader yields is a value its key really had at some
\* moment of the section; in particular a key that is there all the time is
\* found, whatever happens to its neighbours in the bucket.  And the sum of such
\* values, read one after the other, is 0 only when every key is removed.
ReadIsCurrent ==
    /\ rpc = "walk" /\ n = End => Missing \in seen
    /\ rpc = "walk" /\ n # End /\ key[n] = ri => value[n] \in seen
    /\ rpc = "exited" => \A h \in Heads : first[h] = End

\* The module never loses a node: what is allocated is on the intact chain of the
\* bucket of its key, which no other node there has, or retired, or in the hands
\* of the writer between the unlock and call_rcu.
NoLeak ==
    /\ alloc = (UNION {on[h] : h \in Heads}) \union retired
               \union (IF old_n = End THEN {} ELSE {old_n})
    /\ \A h \in Heads : ChainSound(h) /\ \A a \in on[h] :
        /\ a \notin retired /\ HashOf[key[a]] = h
        /\ \A b \in on[h] : key[b] = key[a] => b = a

\* Both kthreads end: the reader, which nobody stops, sees the map empty.  The
\* exception is an rmmod before the writer first ran: kthread_stop then keeps it
\* from running, task_init_val stays 0 and the reader waits for ever.
TasksEnd ==
    <>(wpc = "exited" /\ rpc = "exited") \/ <>(wpc = "exited" /\ task_init_val = 0)
=============================================================================
