---------------------------- MODULE NetlinkQuery -----------------------------
(***************************************************************************)
(* sendrecv_xfrm_msg of dev-sock-netlink/xfrm.c: a request to the kernel   *)
(* and the wait for its answer among whatever the socket receives.  The    *)
(* kernel queues the answer during the write.  A receive that fails leaves *)
(* the answer in the queue for the next call to meet; other processes may  *)
(* send to the socket too.                                                 *)
(***************************************************************************)
EXTENDS Integers, Sequences

CONSTANTS Queries,       \* the security associations main asks for
          MaxCalls,
          MaxFaults      \* failed calls, and messages nobody asked for

VARIABLES ncall, query, seq, inbox, outcome, nfault

netlinkVars == <<ncall, query, seq, inbox, outcome, nfault>>

\* "failed" and "ERROR" are the ways to return 0.
None == [type |-> "failed"]

Init ==
    /\ ncall = 0 /\ query = "none" /\ seq = 0 /\ inbox = <<>> /\ outcome = None
    /\ nfault = 0

-----------------------------------------------------------------------------
\* Slips a programmer might make in the definitions that follow.
AnySeq(m) == m.kernel

NextSeq == seq' = seq + 1

\* What the loop of recvfrom goes on past: a short message, one from a process, one
\* that answers another request.
Ours(m) == m.kernel /\ m.seq = seq

Waiting == outcome.type = "wait"

\* The request goes out, with the answer of the kernel queued, or write fails.
Write ==
    /\ ~Waiting /\ ncall < MaxCalls
    /\ ncall' = ncall + 1 /\ query' \in Queries /\ NextSeq
    /\ \/ /\ \E type \in {"NEWSA", "ERROR"} :
               inbox' = Append(inbox, [kernel |-> TRUE, seq |-> seq', about |-> query',
                                       type |-> type])
          /\ outcome' = [type |-> "wait"] /\ UNCHANGED nfault
       \/ /\ nfault < MaxFaults /\ nfault' = nfault + 1
          /\ outcome' = None /\ UNCHANGED inbox

\* recvfrom fails for another reason than EINTR.
RecvFails ==
    /\ Waiting /\ nfault < MaxFaults /\ nfault' = nfault + 1
    /\ outcome' = None
    /\ UNCHANGED <<ncall, query, seq, inbox>>

\* The message is taken from the queue whole.  One that is ours and longer than what was
\* read of it ends the call with 0.
Recv ==
    /\ Waiting /\ inbox # <<>>
    /\ inbox' = Tail(inbox)
    /\ \/ outcome' = (IF Ours(Head(inbox)) THEN Head(inbox) ELSE outcome) /\ UNCHANGED nfault
       \/ /\ Ours(Head(inbox)) /\ nfault < MaxFaults /\ nfault' = nfault + 1
          /\ outcome' = None
    /\ UNCHANGED <<ncall, query, seq>>

Other ==
    /\ nfault < MaxFaults /\ nfault' = nfault + 1
    /\ \E s \in 1 .. MaxCalls, about \in Queries :
         inbox' = Append(inbox, [kernel |-> FALSE, seq |-> s, about |-> about,
                                 type |-> "NEWSA"])
    /\ UNCHANGED <<ncall, query, seq, outcome>>

Done == ~Waiting /\ ncall = MaxCalls /\ UNCHANGED netlinkVars

Next == Done \/ Write \/ RecvFails \/ Recv \/ Other

Spec == Init /\ [][Next]_netlinkVars

-----------------------------------------------------------------------------
\* What sendrecv_xfrm_msg returns is the answer of the kernel to the request of this
\* call, even when the answer to an earlier call, which failed, comes first, or another
\* process sends a message that looks like one; and its wait does not depend on anything
\* that is not in the queue: the answer is still to be read.
AnswersItsQuery ==
    /\ outcome.type \in {"NEWSA", "ERROR"} => outcome.kernel /\ outcome.about = query
    /\ Waiting => \E k \in DOMAIN inbox : Ours(inbox[k]) /\ inbox[k].about = query
=============================================================================
