-------------------------------- MODULE Cmap ---------------------------------
(***************************************************************************)
(* The hash map of data-hashmap-concurrent/cmap.c: BUCK_SIZE buckets, each *)
(* a mutex and a list of nodes, some of them free (in_use = 0).  This      *)
(* module has the map and what cmap_set, cmap_get and cmap_del do to the   *)
(* list of one bucket; CmapMain and CmapClients have the threads.          *)
(*                                                                         *)
(* A list is the sequence of its nodes from buck->data on.  cmap_alloc     *)
(* links the first node of a list to the unwritten buck[i].data, which is  *)
(* NULL in the fresh heap of the process.  The FNV hash is the constant    *)
(* HashOf.                                                                 *)
(***************************************************************************)
EXTENDS Integers, Sequences, FiniteSets, FiniteSetsExt

CONSTANTS Keys,          \* the values of index
          BUCK_SIZE, DATA_SIZE,
          HashOf,        \* _hashfunc: Keys -> buckets
          UINT64         \* 2^64: values wrap here

Buckets == 0 .. BUCK_SIZE - 1

ASSUME CmapAssumption ==
    /\ Keys \subseteq Nat /\ IsFiniteSet(Keys)
    /\ BUCK_SIZE \in Nat \ {0} /\ DATA_SIZE \in Nat
    /\ HashOf \in [Keys -> Buckets]
    /\ UINT64 \in Nat \ {0}

VARIABLES buck,          \* the list of each bucket
          block          \* the holder of each bucket's mutex

None == "none"

FreeNode == [index |-> 0, value |-> 0, in_use |-> 0]
NodeFor(k, v) == [index |-> k, value |-> v, in_use |-> 1]

\* cmap_alloc.
Alloc ==
    /\ buck = [b \in Buckets |-> [n \in 1 .. DATA_SIZE |-> FreeNode]]
    /\ block = [b \in Buckets |-> None]

-----------------------------------------------------------------------------
\* The first of the nodes a walk looks for, 0 when the walk ends at NULL.
First(nodes) == IF nodes = {} THEN 0 ELSE Min(nodes)

\* A slip: a free node is taken for the end of the list.
FindUntilFree(list, k) ==
    First({n \in DOMAIN list : list[n].index = k /\ \A m \in 1 .. n : list[m].in_use = 1})

\* The walk of cmap_get and cmap_del: the position of the first node in use
\* with this index, 0 when the walk ends at NULL.
Find(list, k) == First({n \in DOMAIN list : list[n].in_use = 1 /\ list[n].index = k})

\* The walk of cmap_set: the first free node.  The index of the nodes in use is not
\* looked at, so that a key that is set again has one node more.
FindFree(list) == First({n \in DOMAIN list : list[n].in_use = 0})

\* That node is filled, or a new one goes to the front.
SetAt(list, at, k, v) == IF at = 0 THEN <<NodeFor(k, v)>> \o list
                                   ELSE [list EXCEPT ![at] = NodeFor(k, v)]

\* Both at once, for main, which sets its keys before there are other threads.
SetIn(list, k, v) == SetAt(list, FindFree(list), k, v)

\* cmap_del: the node is zeroed and stays linked.
DelIn(list, at) == [list EXCEPT ![at] = FreeNode]

-----------------------------------------------------------------------------
\* A slip: a lock that does not wait, because another mutex is taken.
LockElsewhere(t, k) == block' = [block EXCEPT ![HashOf[k]] = t]

\* pthread_mutex_lock on the bucket of k.
LockBucket(t, k) ==
    /\ block[HashOf[k]] = None
    /\ block' = [block EXCEPT ![HashOf[k]] = t]

\* pthread_mutex_unlock(&cm->buck[idx].lock), where idx has become -1 when the
\* walk ended at NULL: that is no bucket's mutex, and the one held stays held.
UnlockBucket(k, found) ==
    block' = IF found THEN [block EXCEPT ![HashOf[k]] = None] ELSE block
=============================================================================
