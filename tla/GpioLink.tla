------------------------------ MODULE GpioLink -------------------------------
(***************************************************************************)
(* The network link over two GPIO lines (kdev-gpio-irqsock): gpio_tx of    *)
(* one machine makes pulses on a control and a data line, the interrupt    *)
(* handlers of the other machine put a packet together from them, and NAPI *)
(* polls it.  A pulse leaves its interrupt pending until the handler runs; *)
(* a second pulse on the line before that is lost.                         *)
(***************************************************************************)
EXTENDS Integers, Sequences, SequencesExt

CONSTANTS Payloads,      \* the packets, as sequences of bits
          BITS,          \* bits in a byte: 8
          budget,
          MaxPackets,    \* packets that are sent
          MaxLate        \* pulses that come before the handler of the one before ran

VARIABLES sent,          \* what gpio_tx was called with
          wire,          \* the pulses of the current call that are still to come
          pending,       \* lines whose interrupt was raised and not handled
          ctl_bits_count, comms_mode_i,
          i_value,       \* the bits so far; data_bits_count is their number
          i_q_ptr, i_q,  \* the queue of MAX_Q_LEN = 1 packet
          napi, poll, pkt, npackets,
          received,      \* passed on, or dropped for want of an skb
          late, overtaken        \* a pulse was late; a packet came before the poll was over

sender   == <<sent, wire>>
receiver == <<ctl_bits_count, comms_mode_i, i_value>>
queue    == <<i_q_ptr, i_q, napi>>
polling  == <<poll, pkt, npackets>>
gpioVars == <<sender, pending, receiver, queue, polling, received, late, overtaken>>

Init ==
    /\ sent = <<>> /\ wire = <<>> /\ pending = {}
    /\ ctl_bits_count = 0 /\ comms_mode_i = 0 /\ i_value = <<>>
    /\ i_q_ptr = -1 /\ i_q = <<>> /\ napi = "idle"
    /\ poll = "idle" /\ pkt = <<>> /\ npackets = 0
    /\ received = <<>> /\ late = 0 /\ overtaken = FALSE

-----------------------------------------------------------------------------
\* Slips a programmer might make in the definitions that follow.
BitsKeepMode(data) == FlattenSeq([k \in DOMAIN data |->
                        IF data[k] = 1 THEN <<"ctl", "data">> ELSE <<"data">>])
NotScheduled == napi

\* gpio_tx: three control pulses and a data pulse around the bits; a control pulse
\* before a bit that differs from the one before it (comms_mode_o, 0 at the start).
Frame == <<"ctl", "ctl", "ctl", "data">>
Bits(data) == FlattenSeq([k \in DOMAIN data |->
                IF data[k] # (IF k = 1 THEN 0 ELSE data[k - 1])
                THEN <<"ctl", "data">> ELSE <<"data">>])
gpio_tx(data) == Frame \o Bits(data) \o Frame

\* geth_xmit and geth_hw_tx, up to the first pulse.
geth_xmit ==
    /\ wire = <<>> /\ Len(sent) < MaxPackets
    /\ \E data \in Payloads : sent' = Append(sent, data) /\ wire' = gpio_tx(data)
    /\ UNCHANGED <<pending, receiver, queue, polling, received, late, overtaken>>

\* gpio_ctl_on or gpio_data_on.  SYNC_UDELAY is there for the handler to run in time.
Pulse ==
    /\ wire # <<>> /\ (pending # {} => late < MaxLate)
    /\ pending' = pending \union {Head(wire)} /\ wire' = Tail(wire)
    /\ late' = IF pending = {} THEN late ELSE late + 1
    /\ UNCHANGED <<sent, receiver, queue, polling, received, overtaken>>

gpio_ctl_irq_handler ==
    /\ "ctl" \in pending /\ pending' = pending \ {"ctl"}
    /\ ctl_bits_count' = ctl_bits_count + 1
    /\ UNCHANGED <<sender, comms_mode_i, i_value, queue, polling, received, late, overtaken>>

-----------------------------------------------------------------------------
Scheduled == IF napi = "idle" THEN "sched" ELSE "missed"
Whole(bits) == SubSeq(bits, 1, BITS * (Len(bits) \div BITS))

\* Only the first element of i_q exists.
geth_napi_interrupt ==
    /\ i_q_ptr' = i_q_ptr + 1
    /\ i_q' = IF i_q_ptr' = 0 THEN Whole(i_value) ELSE i_q
    /\ napi' = Scheduled
    /\ overtaken' = (overtaken \/ napi # "idle")

EndOfPacketMode == comms_mode_i' = 0

gpio_data_irq_handler ==
    /\ "data" \in pending /\ pending' = pending \ {"data"}
    /\ IF ctl_bits_count = 3
       THEN /\ ctl_bits_count' = 0
            /\ IF i_value = <<>> THEN UNCHANGED <<comms_mode_i, i_value, queue, overtaken>>
               ELSE geth_napi_interrupt /\ i_value' = <<>> /\ EndOfPacketMode
       ELSE /\ ctl_bits_count' = IF ctl_bits_count = 1 THEN 0 ELSE ctl_bits_count
            /\ comms_mode_i' = IF ctl_bits_count = 1 THEN 1 - comms_mode_i ELSE comms_mode_i
            /\ i_value' = Append(i_value, comms_mode_i')
            /\ UNCHANGED <<queue, overtaken>>
    /\ UNCHANGED <<sender, polling, received, late>>

-----------------------------------------------------------------------------
\* geth_poll copies the packet on top, or what lies beside the queue, ...
PollCopy ==
    /\ poll = "idle" /\ napi # "idle"
    /\ poll' = "loop" /\ npackets' = 0
    /\ pkt' \in IF i_q_ptr = 0 THEN {i_q} ELSE Payloads
    /\ UNCHANGED <<sender, pending, receiver, queue, received, late, overtaken>>

\* ... passes it on as often as the queue says, ...
PollLoop ==
    /\ poll = "loop" /\ npackets < budget /\ i_q_ptr + 1 # 0
    /\ i_q_ptr' = i_q_ptr - 1 /\ npackets' = npackets + 1
    /\ received' = Append(received, pkt)
    /\ UNCHANGED <<sender, pending, receiver, i_q, napi, poll, pkt, late, overtaken>>

\* ... and completes, or is called again.
PollEnd ==
    /\ poll = "loop" /\ ~(npackets < budget /\ i_q_ptr + 1 # 0)
    /\ poll' = "idle"
    /\ napi' = IF npackets < budget /\ napi # "missed" THEN "idle" ELSE "sched"
    /\ UNCHANGED <<sender, pending, receiver, i_q_ptr, i_q, pkt, npackets, received, late,
                   overtaken>>

Handlers == gpio_ctl_irq_handler \/ gpio_data_irq_handler
geth_poll == PollCopy \/ PollLoop \/ PollEnd

Done ==
    /\ Len(sent) = MaxPackets /\ wire = <<>> /\ pending = {} /\ napi = "idle"
    /\ UNCHANGED gpioVars

Next == Done \/ geth_xmit \/ Pulse \/ Handlers \/ geth_poll

\* gpio_tx goes on to its last pulse, interrupts are handled and polls run; nobody has
\* to send.
Fairness == WF_gpioVars(Pulse) /\ WF_gpioVars(Handlers) /\ WF_gpioVars(geth_poll)

Spec == Init /\ [][Next]_gpioVars /\ Fairness

-----------------------------------------------------------------------------
Undisturbed == late = 0 /\ ~overtaken

\* Whatever the bits, the receiver puts together the packets that were sent, in order
\* and each once, as long as every pulse is handled before the next one and every packet
\* is polled before the next one is complete: the modes of the two sides agree again
\* after every packet, and a bit is never taken for the frame around it.
SentIsReceived == Undisturbed => IsPrefix(received, sent)

\* Every packet that is sent is received, unless the timing was missed.
EverythingArrives ==
    (Len(received) < Len(sent)) ~> (Len(received) = Len(sent) \/ ~Undisturbed)
=============================================================================
