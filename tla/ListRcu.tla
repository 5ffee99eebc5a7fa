------------------------------- MODULE ListRcu -------------------------------
(***************************************************************************)
(* The book list of ksync-rcu/list_rcu.c: readers walk it in RCU read-side *)
(* critical sections, updaters replace or delete nodes under books_lock    *)
(* and free the old node after a grace period, in a callback (async) or    *)
(* after synchronize_rcu.  Every task runs a script of calls; the module's *)
(* own task is list_rcu_init, which calls test_example(0) and then         *)
(* test_example(1).  books_lock is held for one list operation at a time,  *)
(* which is one step here.                                                 *)
(***************************************************************************)
EXTENDS RcuList, Sequences

CONSTANTS Ids,           \* the ids of books
          Script         \* the calls of each task, a sequence of records

Books == "books"

ASSUME ListRcuAssumption ==
    /\ Heads = {Books}
    /\ \A t \in Tasks : \A i \in DOMAIN Script[t] :
          /\ Script[t][i].id \in Ids
          /\ Script[t][i].async \in BOOLEAN
          /\ Script[t][i].op \in {"add", "borrow", "return", "delete",
                                  "print", "is_borrowed"}

VARIABLES id, borrow,    \* the fields of the nodes
          at, pc,        \* each task: the call it is in, and where
          b, new_b,      \* its local pointers (old_b is b once it is found)
          out,           \* history: the books lent, by successful calls
          mod            \* "loaded", "unloaded", or "oops"

fields == <<id, borrow>>
tasks  == <<at, pc, b, new_b>>
vars   == <<rcuVars, fields, tasks, out, mod>>

Call(t) == Script[t][at[t]]
InCall(t, ops) == at[t] <= Len(Script[t]) /\ Call(t).op \in ops
Updates == {"borrow", "return"}
Walks == {"borrow", "return", "print", "is_borrowed"}

\* What an update writes into the new node; it is refused when it is there.
Wanted(t) == IF Call(t).op = "borrow" THEN 1 ELSE 0

Init ==
    /\ RcuInit
    /\ id = [a \in Addr |-> End] /\ borrow = [a \in Addr |-> 0]
    /\ at = [t \in Tasks |-> 1] /\ pc = [t \in Tasks |-> "call"]
    /\ b = [t \in Tasks |-> End] /\ new_b = [t \in Tasks |-> End]
    /\ out = {} /\ mod = "loaded"

Goto(t, where) == pc' = [pc EXCEPT ![t] = where] /\ UNCHANGED at
Return(t) ==
    /\ pc' = [pc EXCEPT ![t] = "call"]
    /\ at' = [at EXCEPT ![t] = @ + 1]

\* add_book.
AddBook(t) ==
    /\ InCall(t, {"add"}) /\ pc[t] = "call"
    /\ Addr \ alloc # {}
    /\ alloc' = alloc \union {Fresh}
    /\ id' = [id EXCEPT ![Fresh] = Call(t).id]
    /\ borrow' = [borrow EXCEPT ![Fresh] = 0]
    /\ AddRcu(Books, Fresh)
    /\ Return(t)
    /\ UNCHANGED <<inside, retired, gp, b, new_b, out, mod>>

\* Its kzalloc fails.
AddBookFails(t) ==
    /\ InCall(t, {"add"}) /\ pc[t] = "call"
    /\ Return(t)
    /\ UNCHANGED <<rcuVars, fields, b, new_b, out, mod>>

\* rcu_read_lock, and the cursor goes to the first book.
BeginWalk(t) ==
    /\ InCall(t, Walks) /\ pc[t] = "call"
    /\ ReadLock(t)
    /\ b' = [b EXCEPT ![t] = first[Books]]
    /\ Goto(t, "walk")
    /\ UNCHANGED <<first, next, on, alloc, retired, gp, fields, new_b, out, mod>>

Walk(t) ==
    /\ pc[t] = "walk" /\ b[t] # End /\ id[b[t]] # Call(t).id
    /\ b' = [b EXCEPT ![t] = next[b[t]]]
    /\ UNCHANGED <<rcuVars, fields, at, pc, new_b, out, mod>>

\* Whether the cursor is on the book the call asks for.
Found(t) == b[t] # End /\ id[b[t]] = Call(t).id

\* borrow_book wants a book that is not borrowed, return_book one that is.
Refused(t) == Call(t).op \in Updates /\ borrow[b[t]] = Wanted(t)

\* No such book, the update is refused, or print_book printed: unlock, return.
EndWalk(t) ==
    /\ pc[t] = "walk"
    /\ b[t] # End => Found(t) /\ (Refused(t) \/ Call(t).op = "print")
    /\ ReadUnlock(t)
    /\ b' = [b EXCEPT ![t] = End]
    /\ Return(t)
    /\ UNCHANGED <<first, next, on, alloc, retired, fields, new_b, out, mod>>

\* is_borrowed_book unlocks first, and reads b->borrow in its return statement.
UnlockFound(t) ==
    /\ pc[t] = "walk" /\ Found(t) /\ Call(t).op = "is_borrowed"
    /\ ReadUnlock(t)
    /\ Goto(t, "late")
    /\ UNCHANGED <<first, next, on, alloc, retired, fields, b, new_b, out, mod>>

ReadLate(t) ==
    /\ pc[t] = "late"
    /\ b' = [b EXCEPT ![t] = End]
    /\ Return(t)
    /\ UNCHANGED <<rcuVars, fields, new_b, out, mod>>

\* A slip: the copy keeps the old state.
KeepBorrow(t) == borrow[b[t]]

\* new_b->borrow.
NewBorrow(t) == Wanted(t)

\* The old node is found and copied into a new one.
Copy(t) ==
    /\ pc[t] = "walk" /\ Found(t) /\ Call(t).op \in Updates /\ ~Refused(t)
    /\ Addr \ alloc # {}
    /\ alloc' = alloc \union {Fresh}
    /\ id' = [id EXCEPT ![Fresh] = id[b[t]]]
    /\ borrow' = [borrow EXCEPT ![Fresh] = NewBorrow(t)]
    /\ new_b' = [new_b EXCEPT ![t] = Fresh]
    /\ Goto(t, "replace")
    /\ UNCHANGED <<first, next, on, inside, retired, gp, b, out, mod>>

\* Its kzalloc fails: unlock and return.
CopyFails(t) ==
    /\ pc[t] = "walk" /\ Found(t) /\ Call(t).op \in Updates /\ ~Refused(t)
    /\ ReadUnlock(t)
    /\ b' = [b EXCEPT ![t] = End]
    /\ Return(t)
    /\ UNCHANGED <<first, next, on, alloc, retired, fields, new_b, out, mod>>

\* list_replace_rcu under books_lock.  A node that is off the list has a
\* poisoned prev pointer, through which the kernel writes.
Replace(t) ==
    /\ pc[t] = "replace"
    /\ IF b[t] \in on[Books]
       THEN /\ ReplaceRcu(Books, b[t], new_b[t])
            /\ out' = IF Call(t).op = "borrow" THEN out \union {Call(t).id}
                      ELSE out \ {Call(t).id}
            /\ UNCHANGED mod
       ELSE mod' = "oops" /\ UNCHANGED <<first, next, on, out>>
    /\ Goto(t, "unlock")
    /\ UNCHANGED <<alloc, inside, retired, gp, fields, b, new_b>>

\* rcu_read_unlock at the end of an update.
Unlock(t) ==
    /\ pc[t] = "unlock"
    /\ ReadUnlock(t)
    /\ new_b' = [new_b EXCEPT ![t] = End]
    /\ Goto(t, "reclaim")
    /\ UNCHANGED <<first, next, on, alloc, retired, fields, b, out, mod>>

\* delete_book: the list is searched and changed under books_lock.
DeleteBook(t) ==
    /\ InCall(t, {"delete"}) /\ pc[t] = "call"
    /\ LET found == {a \in on[Books] : id[a] = Call(t).id}
       IN  IF found = {}
           THEN Return(t) /\ UNCHANGED <<first, next, on, b, out>>
           ELSE \E a \in found :
                  /\ DelRcu(Books, a)
                  /\ b' = [b EXCEPT ![t] = a]
                  /\ out' = out \ {Call(t).id}
                  /\ Goto(t, "reclaim")
    /\ UNCHANGED <<alloc, inside, retired, gp, fields, new_b, mod>>

\* Slip: the node is freed without a grace period.
FreeAtOnce(a) == alloc' = alloc \ {a} /\ UNCHANGED <<retired, gp>>

WaitForReaders(a) == Retire(a) /\ UNCHANGED alloc

\* call_rcu, after which an async call returns, or the start of
\* synchronize_rcu.
Reclaiming(t) ==
    /\ pc[t] = "reclaim"
    /\ WaitForReaders(b[t])
    /\ IF Call(t).async THEN Return(t) /\ b' = [b EXCEPT ![t] = End]
       ELSE Goto(t, "sync") /\ UNCHANGED b
    /\ UNCHANGED <<first, next, on, inside, fields, new_b, out, mod>>

\* The fields of a freed node do not matter, they are cleared.
Kfree(a) ==
    /\ Reclaim(a)
    /\ id' = [id EXCEPT ![a] = End] /\ borrow' = [borrow EXCEPT ![a] = 0]
    /\ UNCHANGED <<first, on, inside, gp>>

\* Slip: the kfree after synchronize_rcu is forgotten.
SynchronizedLeaks(t) ==
    /\ pc[t] = "sync" /\ gp[b[t]] = {}
    /\ retired' = retired \ {b[t]}
    /\ b' = [b EXCEPT ![t] = End]
    /\ Return(t)
    /\ UNCHANGED <<first, next, on, alloc, inside, gp, fields, new_b, out, mod>>

\* synchronize_rcu returns, kfree.
Synchronized(t) ==
    /\ pc[t] = "sync"
    /\ Kfree(b[t])
    /\ b' = [b EXCEPT ![t] = End]
    /\ Return(t)
    /\ UNCHANGED <<new_b, out, mod>>

\* book_reclaim_callback, whose code is gone with the module.
Callback(a) ==
    /\ mod # "oops"
    /\ \A t \in Tasks : pc[t] = "sync" => b[t] # a
    /\ Kfree(a)
    /\ mod' = IF mod = "unloaded" THEN "oops" ELSE mod
    /\ UNCHANGED <<tasks, out>>

Finished == \A t \in Tasks : at[t] > Len(Script[t])

\* rmmod: list_rcu_exit does nothing.
Rmmod ==
    /\ mod = "loaded" /\ Finished
    /\ mod' = "unloaded"
    /\ UNCHANGED <<rcuVars, fields, tasks, out>>

Gone == mod = "oops" \/ (mod = "unloaded" /\ retired = {})

Step(t) ==
    /\ mod = "loaded"
    /\ \/ AddBook(t) \/ AddBookFails(t) \/ BeginWalk(t) \/ Walk(t) \/ EndWalk(t)
       \/ UnlockFound(t) \/ ReadLate(t)
       \/ Copy(t) \/ CopyFails(t) \/ Replace(t) \/ Unlock(t)
       \/ DeleteBook(t) \/ Reclaiming(t) \/ Synchronized(t)

Next ==
    \/ \E t \in Tasks : Step(t)
    \/ \E a \in Addr : Callback(a)
    \/ Rmmod
    \/ Gone /\ UNCHANGED vars

\* The tasks are scheduled, and grace periods end.
Fairness ==
    /\ \A t \in Tasks : WF_vars(Step(t))
    /\ \A a \in Addr : WF_vars(Callback(a))

Spec == Init /\ [][Next]_vars /\ Fairness

-----------------------------------------------------------------------------
\* A pointer a reader or an updater holds is to memory that is not freed, up
\* to the last time it is used.
PointersLive ==
    \A t \in Tasks :
        /\ b[t] # End => b[t] \in alloc
        /\ new_b[t] # End => new_b[t] \in alloc

\* The list is intact, with one node per book, none of them on its way to be
\* freed, and its borrow flag is 1 exactly when the last successful call for
\* that book was borrow_book.
ListMatchesCalls ==
    /\ ChainSound(Books)
    /\ on[Books] \subseteq alloc \ retired
    /\ \A a, c \in on[Books] : id[a] = id[c] => a = c
    /\ \A a \in on[Books] : (borrow[a] = 1) <=> (id[a] \in out)

\* The scripts run to their end (no call waits for ever for a grace period) and
\* every node taken off the list is freed, unless the module goes too early.
EverythingFreed == <>(Finished /\ alloc = on[Books]) \/ <>(mod = "oops")
=============================================================================
