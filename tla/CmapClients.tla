----------------------------- MODULE CmapClients -----------------------------
(***************************************************************************)
(* Threads that call cmap_set, cmap_get and cmap_del of                    *)
(* data-hashmap-concurrent/cmap.c freely: any thread any operation on any  *)
(* key, keys that are there set again and, with CallsAbsent, keys that are *)
(* not there got and deleted.                                              *)
(*                                                                         *)
(* What the functions keep is a multimap.  cmap_set does not look for the  *)
(* key and always adds an entry; cmap_get finds one of the entries of the  *)
(* key, not always the one set last, and cmap_del removes the one that     *)
(* cmap_get would find.                                                    *)
(***************************************************************************)
EXTENDS Cmap

CONSTANTS Clients,
          Values,        \* the values set
          MaxEntries,    \* bound: the entries of a bucket at any one time
          CallsAbsent    \* whether get and del may miss

ASSUME CmapClientsAssumption ==
    /\ Values \subseteq 0 .. UINT64 - 1
    /\ MaxEntries \in Nat
    /\ CallsAbsent \in BOOLEAN
    /\ None \notin Clients

VARIABLES call,          \* the call each thread is in, or Idle
          reply,         \* what its last call returned: bucket or -1, and value
          store,         \* how often each value of a key was set and not yet deleted
          entries        \* how many entries each bucket has

vars == <<buck, block, call, reply, store, entries>>

Call(op, k, v) == [op |-> op, key |-> k, value |-> v, at |-> -1]   \* not walked yet
Idle    == Call("idle", 0, 0)
Absent  == -1
NoReply == <<-1, Absent>>

Init ==
    /\ Alloc
    /\ call = [t \in Clients |-> Idle]
    /\ reply = [t \in Clients |-> NoReply]
    /\ store = [k \in Keys |-> [v \in Values |-> 0]]
    /\ entries = [b \in Buckets |-> 0]

Present(k) == \E v \in Values : store[k][v] > 0

\* A thread calls an operation, which locks the bucket.
Begin(t) ==
    /\ call[t] = Idle
    /\ \E k \in Keys :
          /\ LockBucket(t, k)
          /\ \/ /\ entries[HashOf[k]] < MaxEntries
                /\ \E v \in Values : call' = [call EXCEPT ![t] = Call("set", k, v)]
             \/ /\ CallsAbsent \/ Present(k)
                /\ \E op \in {"get", "del"} : call' = [call EXCEPT ![t] = Call(op, k, 0)]
    /\ reply' = [reply EXCEPT ![t] = NoReply]
    /\ UNCHANGED <<buck, store, entries>>

\* The walk of the operation through the list, under the lock.
Walk(t) ==
    /\ call[t] # Idle /\ call[t].at = -1
    /\ LET list == buck[HashOf[call[t].key]]
       IN  call' = [call EXCEPT ![t].at = IF call[t].op = "set" THEN FindFree(list)
                                          ELSE Find(list, call[t].key)]
    /\ UNCHANGED <<buck, block, reply, store, entries>>

\* An operation that has walked does its work and unlocks the bucket.
Ends(t, op) == call[t].op = op /\ call[t].at # -1 /\ call' = [call EXCEPT ![t] = Idle]

\* cmap_set from the end of its walk on.
Set(t) ==
    /\ Ends(t, "set")
    /\ LET c == call[t]
           b == HashOf[c.key]
       IN  /\ buck' = [buck EXCEPT ![b] = SetAt(@, c.at, c.key, c.value)]
           /\ UnlockBucket(c.key, TRUE)
           /\ reply' = [reply EXCEPT ![t] = <<b, Absent>>]
           /\ store' = [store EXCEPT ![c.key][c.value] = @ + 1]
           /\ entries' = [entries EXCEPT ![b] = @ + 1]

\* cmap_get from the end of its walk on, with a callback that copies the value.
Get(t) ==
    /\ Ends(t, "get")
    /\ LET c == call[t]
           b == HashOf[c.key]
       IN  /\ UnlockBucket(c.key, c.at # 0)
           /\ reply' = [reply EXCEPT ![t] = IF c.at = 0 THEN <<-1, Absent>>
                                            ELSE <<b, buck[b][c.at].value>>]
    /\ UNCHANGED <<buck, store, entries>>

\* cmap_del from the end of its walk on.
Del(t) ==
    /\ Ends(t, "del")
    /\ LET c == call[t]
           b == HashOf[c.key]
       IN  /\ UnlockBucket(c.key, c.at # 0)
           /\ reply' = [reply EXCEPT ![t] = <<IF c.at = 0 THEN -1 ELSE b, Absent>>]
           /\ IF c.at = 0
              THEN UNCHANGED <<buck, store, entries>>
              ELSE /\ buck' = [buck EXCEPT ![b] = DelIn(@, c.at)]
                   /\ store' = [store EXCEPT ![c.key][buck[b][c.at].value] = @ - 1]
                   /\ entries' = [entries EXCEPT ![b] = @ - 1]

Next == \E t \in Clients : Begin(t) \/ Walk(t) \/ Set(t) \/ Get(t) \/ Del(t)

Spec == Init /\ [][Next]_vars

-----------------------------------------------------------------------------
\* Whatever set, get and del all threads make, in any order and of the same keys, the lists
\* hold what was set and not deleted and nothing else: for each key and value as many nodes
\* as sets of it that no del has undone, in the bucket of the key.  And the nodes of deleted
\* entries are used again: a list has no more nodes than were allocated with it or than its
\* bucket has entries at some time.
RepresentsStore ==
    /\ \A k \in Keys, v \in Values :
         Cardinality({n \in DOMAIN buck[HashOf[k]] : buck[HashOf[k]][n] = NodeFor(k, v)})
           = store[k][v]
    /\ \A b \in Buckets :
         /\ Cardinality({n \in DOMAIN buck[b] : buck[b][n].in_use = 1}) = entries[b]
         /\ Len(buck[b]) <= IF DATA_SIZE > MaxEntries THEN DATA_SIZE ELSE MaxEntries

\* The answer of a get or del that ends, when the key has an entry and when it has none.
Answered(t) ==
    LET k == call[t].key
        r == reply'[t]
    IN  IF Present(k)
        THEN /\ r[1] = HashOf[k]
             /\ call[t].op = "get" => r[2] \in Values /\ store[k][r[2]] > 0
        ELSE r = <<-1, Absent>>

\* cmap_get hands its callback a value of its key that was set and not deleted, though
\* nodes are zeroed and refilled by other threads between its calls; it is the only one, and
\* so the one set last, when the key was absent before it was set.  cmap_get and cmap_del
\* return -1 when the key has no entry, and only then.
AnswersFromStore ==
    [][\A t \in Clients : call[t].op \in {"get", "del"} /\ call'[t] = Idle => Answered(t)]_vars

\* A thread that is not inside a call holds no bucket's mutex: an operation
\* gives the mutex back on every path, "not found" included.
LockReleased ==
    \A b \in Buckets : block[b] # None => call[block[b]] # Idle
=============================================================================
