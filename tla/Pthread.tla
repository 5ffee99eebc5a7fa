------------------------------- MODULE Pthread -------------------------------
(***************************************************************************)
(* A pthread mutex and the condition variable used with it, as the queues  *)
(* of data-queue-concurrent and data-queue-channel use them (external      *)
(* code, modelled by what POSIX lets a caller see).                        *)
(***************************************************************************)
EXTENDS Integers

CONSTANT MaxSpurious     \* bound on the spurious wakeups of a behaviour

ASSUME SpuriousAssumption == MaxSpurious \in Nat

VARIABLES lock,          \* the thread that holds the mutex, or None
          waiters,       \* the threads blocked in pthread_cond_wait
          spurious       \* spurious wakeups so far

monitor == <<lock, waiters, spurious>>

None == "none"

\* pthread_mutex_lock and pthread_mutex_unlock.
Acquire(t) == lock = None /\ lock' = t
Release(t) == lock = t /\ lock' = None

\* pthread_cond_wait: the mutex is released and the thread blocks in one
\* step; it returns once it is no longer a waiter and has the mutex again.
Block(t) == Release(t) /\ waiters' = waiters \union {t}
Unblock(t) == t \notin waiters /\ Acquire(t)

\* pthread_cond_wait may end without a signal.
WakeSpuriously(t) ==
    /\ t \in waiters
    /\ spurious < MaxSpurious
    /\ waiters' = waiters \ {t}
    /\ spurious' = spurious + 1
    /\ UNCHANGED lock

\* pthread_cond_signal where cond holds: one waiter, if there is one, wakes.
SignalIf(cond) ==
    IF cond /\ waiters # {}
    THEN \E t \in waiters : waiters' = waiters \ {t}
    ELSE UNCHANGED waiters
=============================================================================
