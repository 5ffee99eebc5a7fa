------------------------------- MODULE RcuList -------------------------------
(***************************************************************************)
(* The kernel's RCU lists as ksync-rcu and ksync-rcu-cmap use them         *)
(* (external code).  A list is the chain of next pointers from its head; a *)
(* node that was replaced or deleted keeps its next pointer, so a reader   *)
(* on it can go on.  call_rcu and synchronize_rcu wait for the read-side   *)
(* critical sections that are open when they are called.                   *)
(***************************************************************************)
EXTENDS Integers, FiniteSets

CONSTANTS Heads,         \* the list heads
          Addr,          \* the addresses of nodes, a set of positive integers
          Tasks          \* the tasks that read

ASSUME RcuListAssumption == IsFiniteSet(Addr) /\ Addr \subseteq Nat \ {0}

VARIABLES first, next,   \* the chains
          on,            \* the nodes on each chain
          alloc,         \* the nodes that are allocated
          inside,        \* the tasks in a read-side critical section
          retired,       \* the nodes waiting for a grace period
          gp             \* for each of them, the sections it still waits for

rcuVars == <<first, next, on, alloc, inside, retired, gp>>

End == 0                 \* the list head again, where a traversal stops

RcuInit ==
    /\ first = [h \in Heads |-> End] /\ next = [a \in Addr |-> End]
    /\ on = [h \in Heads |-> {}]
    /\ alloc = {} /\ inside = {} /\ retired = {}
    /\ gp = [a \in Addr |-> {}]

\* kzalloc returns a free address, which one does not matter.
Fresh == CHOOSE a \in Addr : a \notin alloc

\* list_add_rcu(n, h): the new node is published by the store to the head.
AddRcu(h, n) ==
    /\ next' = [next EXCEPT ![n] = first[h]]
    /\ first' = [first EXCEPT ![h] = n]
    /\ on' = [on EXCEPT ![h] = @ \union {n}]

\* list_del_rcu(a): the pointer that leads to a skips it.
DelRcu(h, a) ==
    /\ on' = [on EXCEPT ![h] = @ \ {a}]
    /\ IF first[h] = a
       THEN first' = [first EXCEPT ![h] = next[a]] /\ UNCHANGED next
       ELSE LET p == CHOOSE p \in on[h] : next[p] = a
            IN  next' = [next EXCEPT ![p] = next[a]] /\ UNCHANGED first

\* list_replace_rcu(a, n): n takes a's successor, then a's place.
ReplaceRcu(h, a, n) ==
    /\ on' = [on EXCEPT ![h] = (@ \ {a}) \union {n}]
    /\ IF first[h] = a
       THEN /\ first' = [first EXCEPT ![h] = n]
            /\ next' = [next EXCEPT ![n] = next[a]]
       ELSE LET p == CHOOSE p \in on[h] : next[p] = a
            IN  /\ next' = [next EXCEPT ![n] = next[a], ![p] = n]
                /\ UNCHANGED first

\* The chain from a head visits exactly the nodes on the list, each once.
ChainSound(h) ==
    /\ {first[h]} \union {next[a] : a \in on[h]} = on[h] \union {End}
    /\ \A a \in on[h] : first[h] # next[a]
    /\ \A a, b \in on[h] : next[a] = next[b] => a = b

ReadLock(t) == inside' = inside \union {t}

ReadUnlock(t) ==
    /\ inside' = inside \ {t}
    /\ gp' = [a \in Addr |-> gp[a] \ {t}]

\* call_rcu, or the start of synchronize_rcu, for node a.
Retire(a) ==
    /\ retired' = retired \union {a}
    /\ gp' = [gp EXCEPT ![a] = inside]

\* The grace period of a is over: kfree.  What a freed node holds does not
\* matter, its link is cleared.
Reclaim(a) ==
    /\ a \in retired /\ gp[a] = {}
    /\ retired' = retired \ {a}
    /\ alloc' = alloc \ {a}
    /\ next' = [next EXCEPT ![a] = End]
=============================================================================
