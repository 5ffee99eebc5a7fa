----------------------------- MODULE BoundedFifo -----------------------------
(***************************************************************************)
(* What the concurrent queues of data-queue-concurrent and                 *)
(* data-queue-channel promise their two threads: the producer's testdata   *)
(* 0, 1, 2, ... come out once each, in order, with at most Capacity of     *)
(* them in the queue at a time, and all of them come out in the end.       *)
(***************************************************************************)
EXTENDS Integers, Sequences

CONSTANTS N,             \* how many items are sent
          Capacity       \* how many may be in the queue at once

VARIABLES sent,          \* items enqueued so far
          buf,           \* the items in the queue, oldest first
          got            \* the item dequeued last, -1 before the first

fifoVars == <<sent, buf, got>>

FifoInit == sent = 0 /\ buf = <<>> /\ got = -1

Put == /\ sent < N /\ Len(buf) < Capacity
       /\ buf' = Append(buf, sent)
       /\ sent' = sent + 1
       /\ UNCHANGED got

Get == /\ buf # <<>>
       /\ got' = Head(buf)
       /\ buf' = Tail(buf)
       /\ UNCHANGED sent

FifoNext == Put \/ Get

\* Safety alone, and with the promise that nothing stays behind.
FifoSafety == FifoInit /\ [][FifoNext]_fifoVars
FifoSpec == FifoSafety /\ WF_fifoVars(FifoNext)
=============================================================================
