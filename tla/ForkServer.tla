----------------------------- MODULE ForkServer ------------------------------
(***************************************************************************)
(* serve_forever of dev-net-ip-netfilter/nat_httpd.c: one child process    *)
(* per connection, and a table of the connections' descriptors in memory   *)
(* that parent and children share.  The child takes its entry out of the   *)
(* table, and the parent closes its copy of the descriptor by reading the  *)
(* entry, in whichever order.                                              *)
(***************************************************************************)
EXTENDS Integers, FiniteSets, FiniteSetsExt

CONSTANTS MAX_CONNECTIONS,
          Descriptors,   \* what the parent's table has room for
          MaxConnections \* connections that are made

Slots == 0 .. MAX_CONNECTIONS - 1

VARIABLES clients,       \* the shared table
          slot, parent,  \* of the parent: where in the table, where in its loop
          open,          \* connections the parent has open
          child,         \* the children: descriptor inherited, slot, progress
          nconn,
          lateClose,     \* descriptors of which the entry was gone when the parent closed
          deadSlots      \* slots whose child died, or was never made

forkVars == <<clients, slot, parent, open, child, nconn, lateClose, deadSlots>>

Init ==
    /\ clients = [s \in Slots |-> -1] /\ slot = 0 /\ parent = "accept"
    /\ open = {} /\ child = {} /\ nconn = 0 /\ lateClose = {} /\ deadSlots = {}

-----------------------------------------------------------------------------
\* Slips a programmer might make in the definitions that follow.
NextSlot == parent' = "accept" /\ slot' = (slot + 1) % MAX_CONNECTIONS
ClearForgotten(c) ==
    /\ c.at = "clear" /\ child' = child \ {c}
    /\ UNCHANGED <<clients, slot, parent, open, nconn, lateClose, deadSlots>>

\* The least descriptor that is free; accept fails when there is none.
accept ==
    /\ parent = "accept" /\ nconn < MaxConnections /\ nconn' = nconn + 1
    /\ IF Descriptors \ open = {}
       THEN parent' = "exit" /\ clients' = [clients EXCEPT ![slot] = -1] /\ UNCHANGED open
       ELSE LET fd == Min(Descriptors \ open) IN
            /\ clients' = [clients EXCEPT ![slot] = fd] /\ open' = open \union {fd}
            /\ parent' = "fork"
    /\ UNCHANGED <<slot, child, lateClose, deadSlots>>

\* fork, or its failure, of which the parent takes no notice.
fork ==
    /\ parent = "fork" /\ parent' = "close"
    /\ \/ child' = child \union {[fd |-> clients[slot], slot |-> slot, at |-> "respond"]}
          /\ UNCHANGED deadSlots
       \/ deadSlots' = deadSlots \union {slot} /\ UNCHANGED child
    /\ UNCHANGED <<clients, slot, open, nconn, lateClose>>

close ==
    /\ parent = "close" /\ parent' = "search"
    /\ open' = open \ {clients[slot]}
    /\ lateClose' = IF clients[slot] = -1
                    THEN lateClose \union (open \ lateClose) ELSE lateClose
    /\ UNCHANGED <<clients, slot, child, nconn, deadSlots>>

\* One turn of the loop that looks for a free entry, or its end.
search ==
    IF clients[slot] = -1 THEN parent' = "accept" /\ UNCHANGED slot
    ELSE slot' = (slot + 1) % MAX_CONNECTIONS /\ UNCHANGED parent

Search ==
    /\ parent = "search" /\ search
    /\ UNCHANGED <<clients, open, child, nconn, lateClose, deadSlots>>

-----------------------------------------------------------------------------
\* A child serves the connection it finds at its slot, or dies doing so.
respond(c) ==
    /\ c.at = "respond"
    /\ \/ child' = (child \ {c}) \union {[c EXCEPT !.at = "clear"]} /\ UNCHANGED deadSlots
       \/ child' = child \ {c} /\ deadSlots' = deadSlots \union {c.slot}
    /\ UNCHANGED <<clients, slot, parent, open, nconn, lateClose>>

clear(c) ==
    /\ c.at = "clear" /\ child' = child \ {c}
    /\ clients' = [clients EXCEPT ![c.slot] = -1]
    /\ UNCHANGED <<slot, parent, open, nconn, lateClose, deadSlots>>

Child == \E c \in child : respond(c) \/ clear(c)

Done ==
    /\ parent = "exit" \/ (parent = "accept" /\ nconn = MaxConnections)
    /\ child = {} /\ UNCHANGED forkVars

Next == Done \/ accept \/ fork \/ close \/ Search \/ Child

\* Processes are scheduled; nobody has to connect.
Fairness == WF_forkVars(fork \/ close) /\ WF_forkVars(Search) /\ WF_forkVars(Child)

Spec == Init /\ [][Next]_forkVars /\ Fairness

-----------------------------------------------------------------------------
\* The entry a child reads and clears is its own: while it runs, its slot holds the
\* descriptor it was forked with and is given to nobody else.  And the parent keeps a
\* connection open after its turn only if the child had taken the entry out of the table
\* before the parent read it there.
SlotIsItsChilds ==
    /\ \A c \in child : clients[c.slot] = c.fd /\ ~ \E d \in child \ {c} : d.slot = c.slot
    /\ parent \in {"search", "accept"} => open = lateClose

\* The parent accepts again, unless the table has no free entry left because every
\* child died or was never made.
AcceptsAgain == (parent = "search") ~> (parent = "accept" \/ deadSlots = Slots)
=============================================================================
