----------------------------- MODULE MCPrograms ------------------------------
(***************************************************************************)
(* Programs that have nothing to do with each other, checked side by side: *)
(* the functions of the procedure tables, the threads of cmap.c, the GPIO  *)
(* link, the netlink query, the forking server, the AF_XDP forwarder, the  *)
(* demonstrations of locks and the wireless device.  which says the one    *)
(* that runs in this behaviour; the variables of the others do not change. *)
(***************************************************************************)
EXTENDS Procedure, Integers, FiniteSets

\* All functions, for module Procedure.
A == INSTANCE CryptAsym
Q == INSTANCE CryptQs
S == INSTANCE CryptSym
T == INSTANCE TlsPeers
N == INSTANCE NetModules
K == INSTANCE KernelModules
U == INSTANCE QuicPeers
R == INSTANCE RawSockets
E == INSTANCE SocketServers
AllProcs == A!AsymProcs @@ Q!QsProcs @@ S!SymProcs @@ T!TlsProcs @@ N!NetProcs @@
            K!FileProcs @@ K!DeviceProcs @@ U!QuicProcs @@ R!RawProcs @@ E!SocketProcs

-----------------------------------------------------------------------------
\* cmap.c on four keys in two buckets with one preallocated node each, so that one
\* bucket's list grows past its preallocation.  2^64 is 8.
VARIABLES buck, block, pc, i, node, val, inc_done_count, dec_done_count, verdict
C == INSTANCE CmapMain WITH
       Keys <- 0 .. 3, BUCK_SIZE <- 2, DATA_SIZE <- 1, UINT64 <- 8,
       HashOf <- [k \in 0 .. 3 |-> IF k = 2 THEN 1 ELSE 0],
       Incs <- {"inc1", "inc2"}, Decs <- {"dec1", "dec2"}

\* Two packets of up to four bits, a byte being two, and one pulse that is late.
VARIABLES sent, wire, pending, ctl_bits_count, comms_mode_i, i_value, i_q_ptr, i_q, napi,
          poll, pkt, npackets, received, late, overtaken
G == INSTANCE GpioLink WITH
       Payloads <- {<<0, 1, 1, 0>>, <<1, 1>>},
       BITS <- 2, budget <- 2, MaxPackets <- 2, MaxLate <- 1

\* Enough calls for the answer to the first to be met by the last.
VARIABLES ncall, query, seq, inbox, outcome, nfault
L == INSTANCE NetlinkQuery WITH Queries <- {"q1", "q2"}, MaxCalls <- 3, MaxFaults <- 2

\* More connections than slots, and descriptors that run out.
VARIABLES clients, slot, parent, open, child, nconn, lateClose, deadSlots
F == INSTANCE ForkServer WITH
       MAX_CONNECTIONS <- 2, Descriptors <- {3, 4, 5}, MaxConnections <- 5

\* The pool of main.c with a fill queue of 2 for 8192: four slabs of twice the fill queue.
VARIABLES slabs, n_slabs_available, bc, fq, rxq, txq, cq, thread
X == INSTANCE XskForward WITH
       n_slabs <- 4, n_buffers_per_slab <- 4, fill_size <- 2, comp_size <- 1, tx_size <- 2

VARIABLES demo, at, round, locked, counter, done, content_queue, loaded, index, over,
          updates, overlap, spurious, seen
D == INSTANCE SyncDemos WITH Rounds <- 3, SLOT_LEN <- 3, i <- index

\* A scan and another one, or a connection and its end, while routines run and the module goes.
VARIABLES field, callback, queued, running, asked, answer, calls, unload, requeued
W == INSTANCE WlanWork WITH MaxCalls <- 3

-----------------------------------------------------------------------------
VARIABLE which

cmap == <<buck, block, pc, i, node, val, inc_done_count, dec_done_count, verdict>>
gpio == <<sent, wire, pending, ctl_bits_count, comms_mode_i, i_value, i_q_ptr, i_q, napi,
          poll, pkt, npackets, received, late, overtaken>>
netlink == <<ncall, query, seq, inbox, outcome, nfault>>
fork == <<clients, slot, parent, open, child, nconn, lateClose, deadSlots>>
xsk == <<slabs, n_slabs_available, bc, fq, rxq, txq, cq, thread>>
sync == <<demo, at, round, locked, counter, done, content_queue, loaded, index, over, updates,
          overlap, spurious, seen>>
wlan == <<field, callback, queued, running, asked, answer, calls, unload, requeued>>

ProgramsInit ==
    /\ which \in {"procedure", "cmap", "gpio", "netlink", "fork", "xsk", "sync", "wlan"}
    /\ Init /\ (which = "procedure" \/ fn = "can")
    /\ C!Init /\ G!Init /\ L!Init /\ F!Init /\ X!Init /\ W!Init
    /\ D!Init /\ (which = "sync" \/ demo = "mutex")

ProgramsNext ==
    \/ /\ which = "procedure" /\ Next
       /\ UNCHANGED <<which, cmap, gpio, netlink, fork, xsk, sync, wlan>>
    \/ /\ which = "cmap" /\ C!Next
       /\ UNCHANGED <<which, vars, gpio, netlink, fork, xsk, sync, wlan>>
    \/ /\ which = "gpio" /\ G!Next
       /\ UNCHANGED <<which, vars, cmap, netlink, fork, xsk, sync, wlan>>
    \/ /\ which = "netlink" /\ L!Next
       /\ UNCHANGED <<which, vars, cmap, gpio, fork, xsk, sync, wlan>>
    \/ /\ which = "fork" /\ F!Next
       /\ UNCHANGED <<which, vars, cmap, gpio, netlink, xsk, sync, wlan>>
    \/ /\ which = "xsk" /\ X!Next
       /\ UNCHANGED <<which, vars, cmap, gpio, netlink, fork, sync, wlan>>
    \/ /\ which = "sync" /\ D!Next
       /\ UNCHANGED <<which, vars, cmap, gpio, netlink, fork, xsk, wlan>>
    \/ /\ which = "wlan" /\ W!Next
       /\ UNCHANGED <<which, vars, cmap, gpio, netlink, fork, xsk, sync>>

\* The fairness of GpioLink, ForkServer and WlanWork, for the behaviours in which they run.
ProgramsSpec ==
    /\ ProgramsInit /\ [][ProgramsNext]_<<which, vars, cmap, gpio, netlink, fork, xsk, sync, wlan>>
    /\ WF_gpio(which = "gpio" /\ G!Pulse) /\ WF_gpio(which = "gpio" /\ G!Handlers)
    /\ WF_gpio(which = "gpio" /\ G!geth_poll)
    /\ WF_fork(which = "fork" /\ (F!fork \/ F!close)) /\ WF_fork(which = "fork" /\ F!Search)
    /\ WF_fork(which = "fork" /\ F!Child)
    /\ WF_wlan(which = "wlan" /\ W!schedule_work)
    /\ \A w \in W!Works : WF_wlan(which = "wlan" /\ W!Run(w))
    /\ WF_wlan(which = "wlan" /\ W!wlanidt_scan_routine)
    /\ WF_wlan(which = "wlan" /\ W!wlanidt_connect_routine)
    /\ WF_wlan(which = "wlan" /\ W!wlanidt_disconnect_routine)

-----------------------------------------------------------------------------
\* The pointers of the functions, and the context of the wireless device: Procedure and
\* WlanWork.
NoStrayUse == NoStrayPointer /\ W!NoWorkOnFreed

\* cmap.c, and the demonstrations of locks: CmapMain and SyncDemos.
NoLostUpdate == C!NoLostUpdate /\ D!NoLostUpdate

\* kgpio_irqsk.c: GpioLink.
SentIsReceived == G!SentIsReceived
\* Packets of kgpio_irqsk.c, and requests to the wireless device: GpioLink and WlanWork.
EverythingArrives == G!EverythingArrives /\ W!AcceptedIsAnswered

\* sendrecv_xfrm_msg, and the routines of the wireless device: NetlinkQuery and WlanWork.
AnswersItsQuery == L!AnswersItsQuery /\ W!AnswersItsRequest

\* serve_forever: ForkServer.
SlotIsItsChilds == F!SlotIsItsChilds
AcceptsAgain == F!AcceptsAgain

\* af_rxtx.c: XskForward.
BuffersConserved == X!BuffersConserved
NeverStarved == X!NeverStarved
=============================================================================
