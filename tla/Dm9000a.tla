------------------------------ MODULE Dm9000a ------------------------------
(***************************************************************************)
(* The Ethernet driver dm9000a.c between the chip and the TCP/IP stack:    *)
(* the interrupt handler dm9000a_isr, TransmitPacket, the packet buffers   *)
(* of pktalloc.c and the task tk_netmain that empties rcvdq.               *)
(*                                                                         *)
(* The chip has one index register and one data port.  A task writes the   *)
(* index in one step and accesses the data in another, and the handler may *)
(* run between the two; the handler itself is not interrupted, but the     *)
(* chip goes on receiving and transmitting while it runs.                  *)
(***************************************************************************)
EXTENDS Naturals, Sequences, FiniteSets, SequencesExt

CONSTANTS Tasks,           \* the tasks that send
          LilBufs, BigBufs,
          MaxFrames,       \* bound: frames on the wire
          MaxSends,        \* bound: calls of dm9ka_pkt_send
          MaxFaults,       \* bound: times the receive memory goes wrong
          None

ASSUME BufsAssumption == LilBufs \in Nat /\ BigBufs \in Nat

ASSUME TasksAssumption == IsFiniteSet(Tasks) /\ None \notin Tasks \cup {"lil", "big"}

VARIABLES
    index, imr, prs,        \* the chip: index register, IMR (TRUE: INTR_set), ISR bit PRS
    rx, strange,            \* RX SRAM; it is in a state the driver does not know
    tx, txend,              \* what TX memory and length registers hold; NSR
    driver,                 \* dm9ka_init: how far it is
    isr,                    \* the place in dm9000a_isr, "idle" outside
    lilfreeq, bigfreeq,     \* free buffers
    rcvdq, rcvdq_sem,       \* received packets, and the semaphore SignalPktDemux posts
    demux, handled, held,   \* tk_netmain; the last packet it took, the buffer it has
    pc, selected,           \* senders: place, and whether the index of that place is written
    buf, net_resid,         \* the buffer of a sender; the holder of NET_RESID
    wire,                   \* frames transmitted, as the chip sent them
    frames, sends, faults,  \* counters of the bounds
    late, spurious          \* history: see Arrive and AllocGet

chip == <<index, imr, prs, rx, strange, tx, txend, wire>>
pool == <<lilfreeq, bigfreeq>>
stack == <<rcvdq, rcvdq_sem, demux, handled, held>>
senders == <<pc, selected, buf, net_resid, sends>>
vars == <<chip, driver, isr, pool, stack, senders, frames, faults, late, spurious>>

TxMemory(len, data, req) == [len |-> len, data |-> data, req |-> req]

Init ==
    /\ index = "NCR" /\ imr = FALSE /\ prs = FALSE
    /\ rx = <<>> /\ strange = FALSE
    /\ tx = TxMemory(None, None, FALSE) /\ txend = FALSE
    /\ driver = "down" /\ isr = "idle"
    /\ lilfreeq = LilBufs /\ bigfreeq = BigBufs
    /\ rcvdq = <<>> /\ rcvdq_sem = 0 /\ demux = "pend" /\ handled = 0 /\ held = None
    /\ pc = [t \in Tasks |-> "idle"] /\ selected = [t \in Tasks |-> FALSE]
    /\ buf = [t \in Tasks |-> None] /\ net_resid = None
    /\ wire = <<>>
    /\ frames = 0 /\ sends = 0 /\ faults = 0
    /\ late = FALSE /\ spurious = FALSE

-----------------------------------------------------------------------------
(* The chip *)

\* A frame arrives: small or large, or one the driver will call bad.  late: it comes
\* after the handler's last look at the SRAM and before the handler clears PRS.
Arrive(kind) ==
    /\ driver # "down" /\ frames < MaxFrames
    /\ frames' = frames + 1
    /\ rx' = Append(rx, [id |-> frames + 1, kind |-> kind])
    /\ prs' = TRUE
    /\ late' = (isr = "clear")
    /\ UNCHANGED <<index, imr, strange, tx, txend, wire, driver, isr, pool, stack, senders,
                   faults, spurious>>

GoesWrong ==
    /\ rx # <<>> /\ faults < MaxFaults
    /\ faults' = faults + 1
    /\ strange' = TRUE
    /\ UNCHANGED <<index, imr, prs, rx, tx, txend, wire, driver, isr, pool, stack, senders,
                   frames, late, spurious>>

TxDone ==
    /\ tx.req
    /\ wire' = Append(wire, [len |-> tx.len, data |-> tx.data])
    /\ tx' = TxMemory(tx.len, tx.data, FALSE) /\ txend' = TRUE
    /\ UNCHANGED <<index, imr, prs, rx, strange, driver, isr, pool, stack, senders,
                   frames, faults, late, spurious>>

\* A software reset (NCR) empties the memories.
SoftReset ==
    /\ rx' = <<>> /\ strange' = FALSE
    /\ tx' = TxMemory(tx.len, tx.data, FALSE) /\ txend' = FALSE

-----------------------------------------------------------------------------
(* dm9ka_init: dm9000a_reset enables receiving and the chip's interrupt, and then the
   handler is registered. *)

dm9000a_reset ==
    /\ driver = "down"
    /\ driver' = "reset"
    /\ SoftReset /\ prs' = FALSE /\ imr' = TRUE /\ index' = "2D"
    /\ UNCHANGED <<wire, isr, pool, stack, senders, frames, faults, late, spurious>>

\* It fails only for a number that is no interrupt of the CPU's; DM9000A_INST_IRQ is one.
alt_irq_register ==
    /\ driver = "reset"
    /\ driver' = "up"
    /\ UNCHANGED <<chip, isr, pool, stack, senders, frames, faults, late, spurious>>

-----------------------------------------------------------------------------
(* dm9000a_isr *)

Isr(from, to) == isr = from /\ isr' = to

\* The line is up while an enabled event is latched.
Interrupt ==
    /\ driver = "up" /\ imr /\ prs
    /\ Isr("idle", "mask")
    /\ UNCHANGED <<chip, driver, pool, stack, senders, frames, faults, late, spurious>>

IsrMask ==
    /\ Isr("mask", "ready")
    /\ imr' = FALSE /\ index' = "IMR"
    /\ UNCHANGED <<prs, rx, strange, tx, txend, wire, driver, pool, stack, senders, frames, faults,
                   late, spurious>>

\* The ISR register is read (nothing depends on it) and then the SRAM's ready byte.
IsrReady ==
    /\ \/ Isr("ready", "reset") /\ strange
       \/ Isr("ready", "frame") /\ ~ strange /\ rx # <<>>
       \/ Isr("ready", "clear") /\ ~ strange /\ rx = <<>>
    /\ index' = "MRCMDX"
    /\ UNCHANGED <<imr, prs, rx, strange, tx, txend, wire, driver, pool, stack, senders, frames,
                   faults, late, spurious>>

\* pk_alloc, not interrupted: a large packet, or no small buffer left, needs a large one.
\* No length asked for is beyond bigbufsiz: the longest frame, with ETHHDR_BIAS, fits.
Suitable(kind) == IF kind = "large" \/ lilfreeq = 0 THEN "big" ELSE "lil"

Take(queue) ==
    /\ lilfreeq' = IF queue = "lil" THEN lilfreeq - 1 ELSE lilfreeq
    /\ bigfreeq' = IF queue = "big" THEN bigfreeq - 1 ELSE bigfreeq

Free(queue) == IF queue = "lil" THEN lilfreeq ELSE bigfreeq

\* Mutant: the packet is put before the others.
putqAtHead(q, p) == <<p>> \o q

\* q_add of putq.
putq(q, p) == Append(q, p)

\* Mutant: the buffer is taken before the status of the frame is looked at.
IsrAllocFirst(f, b) == IF Free(b) > 0 THEN Take(b) ELSE UNCHANGED pool

\* Only a good frame takes a buffer.
IsrAlloc(f, b) == IF f.kind # "bad" /\ Free(b) > 0 THEN Take(b) ELSE UNCHANGED pool

\* One frame is read out: queued, or thrown away when it is bad or no buffer is free.
IsrFrame ==
    /\ Isr("frame", "ready")
    /\ index' = "MRCMD"
    /\ rx' = Tail(rx)
    /\ LET f == Head(rx)  b == Suitable(f.kind)
       IN  /\ IsrAlloc(f, b)
           /\ \/ /\ f.kind # "bad" /\ Free(b) > 0
                 /\ rcvdq' = putq(rcvdq, [id |-> f.id, buf |-> b])
                 /\ rcvdq_sem' = rcvdq_sem + 1
              \/ /\ f.kind = "bad" \/ Free(b) = 0
                 /\ UNCHANGED <<rcvdq, rcvdq_sem>>
    /\ UNCHANGED <<imr, prs, strange, tx, txend, wire, driver, demux, handled, held, senders,
                   frames, faults, late, spurious>>

\* "whoa": the chip is reset and its interrupt enabled; the handler is still running.
IsrReset ==
    /\ Isr("reset", "clear")
    /\ SoftReset /\ imr' = TRUE /\ index' = "RCR"
    /\ UNCHANGED <<prs, wire, driver, pool, stack, senders, frames, faults, late, spurious>>

IsrClear ==
    /\ Isr("clear", "unmask")
    /\ prs' = FALSE /\ index' = "ISR"
    /\ UNCHANGED <<imr, rx, strange, tx, txend, wire, driver, pool, stack, senders, frames, faults,
                   late, spurious>>

\* Mutant: the event is cleared after the interrupt is enabled, and the index is left at ISR.
IsrUnmaskFirst ==
    /\ Isr("unmask", "idle")
    /\ imr' = TRUE /\ index' = "ISR"
    /\ UNCHANGED <<prs, rx, strange, tx, txend, wire, driver, pool, stack, senders, frames, faults,
                   late, spurious>>

IsrUnmask ==
    /\ Isr("unmask", "idle")
    /\ imr' = TRUE /\ index' = "IMR"
    /\ UNCHANGED <<prs, rx, strange, tx, txend, wire, driver, pool, stack, senders, frames, faults,
                   late, spurious>>

dm9000a_isr == IsrMask \/ IsrReady \/ IsrFrame \/ IsrReset \/ IsrClear \/ IsrUnmask

-----------------------------------------------------------------------------
(* dm9ka_pkt_send, by a task that holds NET_RESID *)

\* Tasks run outside the handler.
Runs == driver = "up" /\ isr = "idle"

Goto(t, place) == pc' = [pc EXCEPT ![t] = place]

\* Mutant: a sender does not wait for the others.
LockFreeAlways == TRUE

LockFree == net_resid = None

\* LOCK_NET_RESOURCE(NET_RESID), around everything the stack does to send a packet.
Lock(t) ==
    /\ Runs /\ pc[t] = "idle" /\ sends < MaxSends
    /\ LockFree
    /\ net_resid' = t /\ sends' = sends + 1
    /\ Goto(t, "alloc")
    /\ UNCHANGED <<chip, driver, isr, pool, stack, selected, buf, frames, faults, late, spurious>>

\* pk_alloc chooses the queue by the length of lilfreeq ...
AllocCheck(t, kind) ==
    /\ Runs /\ pc[t] = "alloc"
    /\ buf' = [buf EXCEPT ![t] = Suitable(kind)]
    /\ Goto(t, "getq")
    /\ UNCHANGED <<chip, driver, isr, pool, stack, selected, net_resid, sends, frames, faults,
                   late, spurious>>

\* ... and takes from it, unless the handler took the last one in between.  spurious: the
\* allocation fails although a buffer that would do is free.
AllocGet(t) ==
    /\ Runs /\ pc[t] = "getq"
    /\ \/ /\ Free(buf[t]) > 0
          /\ Take(buf[t])
          /\ Goto(t, "imr_off")
          /\ UNCHANGED <<buf, net_resid, spurious>>
       \/ /\ Free(buf[t]) = 0
          /\ buf' = [buf EXCEPT ![t] = None]
          /\ net_resid' = None
          /\ Goto(t, "idle")
          /\ spurious' = (buf[t] = "lil" /\ bigfreeq > 0)
          /\ UNCHANGED pool
    /\ UNCHANGED <<chip, driver, isr, stack, selected, sends, frames, faults, late>>

\* Mutant: the chip's interrupt stays masked.
OrderStaysMasked == <<"imr_off", "fd", "fc", "mwcmd", "tcr", "nsr", "nsr_clear", "done", "imr_on">>

\* Mutant: the transmission is not requested.
OrderNoRequest == <<"imr_off", "fd", "fc", "mwcmd", "nsr", "nsr_clear", "imr_on", "done", "tcr">>

\* TransmitPacket: its accesses in order, and the register of each.
Order == <<"imr_off", "fd", "fc", "mwcmd", "tcr", "nsr", "nsr_clear", "imr_on", "done">>
Accesses == ToSet(Order) \ {"done"}
NextPlace(place) == Order[(CHOOSE i \in DOMAIN Order : Order[i] = place) + 1]

Register ==
    [imr_off |-> "IMR", fd |-> "FD", fc |-> "FC", mwcmd |-> "MWCMD", tcr |-> "TCR",
     nsr |-> "NSR", nsr_clear |-> "NSR", imr_on |-> "IMR"]

\* dm9000a_iow and dm9000a_ior: the index, and then, after a delay, the data.
Select(t) ==
    /\ Runs /\ pc[t] \in Accesses /\ ~ selected[t]
    /\ index' = Register[pc[t]]
    /\ selected' = [selected EXCEPT ![t] = TRUE]
    /\ UNCHANGED <<imr, prs, rx, strange, tx, txend, wire, driver, isr, pool, stack, pc, buf,
                   net_resid, sends, frames, faults, late, spurious>>

\* The chip takes the data for the register that is selected.  The status is read until it
\* says that the frame is sent, and reading clears it.
Access(t) ==
    /\ Runs /\ pc[t] \in Accesses /\ selected[t]
    /\ selected' = [selected EXCEPT ![t] = FALSE]
    /\ imr' = IF index = "IMR" THEN pc[t] = "imr_on" ELSE imr
    /\ tx' = TxMemory(IF index = "FC" THEN t ELSE tx.len,
                       IF index = "MWCMD" THEN t ELSE tx.data, tx.req \/ index = "TCR")
    /\ txend' = (txend /\ index # "NSR")
    /\ Goto(t, IF pc[t] = "nsr" /\ ~ (txend /\ index = "NSR") THEN "nsr" ELSE NextPlace(pc[t]))
    /\ UNCHANGED <<index, prs, rx, strange, wire, driver, isr, pool, stack, buf, net_resid, sends,
                   frames, faults, late, spurious>>

GiveBack(queue) ==
    /\ lilfreeq' = IF queue = "lil" THEN lilfreeq + 1 ELSE lilfreeq
    /\ bigfreeq' = IF queue = "big" THEN bigfreeq + 1 ELSE bigfreeq

\* pk_free and UNLOCK_NET_RESOURCE.
Finish(t) ==
    /\ Runs /\ pc[t] = "done"
    /\ GiveBack(buf[t])
    /\ buf' = [buf EXCEPT ![t] = None]
    /\ net_resid' = None
    /\ Goto(t, "idle")
    /\ UNCHANGED <<chip, driver, isr, stack, selected, sends, frames, faults, late, spurious>>

Send(t) == AllocGet(t) \/ Select(t) \/ Access(t) \/ Finish(t) \/ \E k \in {"small", "large"} : AllocCheck(t, k)

-----------------------------------------------------------------------------
(* tk_netmain and pktdemux *)

\* OSSemPend(rcvdq_sem_ptr, TPS): a post, or a second without one.
DemuxPend ==
    /\ Runs /\ demux = "pend"
    /\ rcvdq_sem' = IF rcvdq_sem > 0 THEN rcvdq_sem - 1 ELSE 0
    /\ demux' = "check"
    /\ UNCHANGED <<chip, driver, isr, pool, rcvdq, handled, held, senders, frames, faults, late, spurious>>

\* Mutant: the count of the semaphore is believed.
PendingTrusting == held = None

\* Mutant: the last packet is left for the next time.
PendingOffByOne == Len(rcvdq) > 1

\* while (rcvdq.q_len), read outside of any lock.
Pending == rcvdq # <<>>

DemuxCheck ==
    /\ Runs /\ demux = "check"
    /\ demux' = IF Pending THEN "deq" ELSE "pend"
    /\ UNCHANGED <<chip, driver, isr, pool, rcvdq, rcvdq_sem, handled, held, senders, frames, faults,
                   late, spurious>>

\* q_deq; "pktdemux: got null pkt" when there is none.
DemuxDeq ==
    /\ Runs /\ demux = "deq"
    /\ \/ /\ rcvdq # <<>>
          /\ handled' = Head(rcvdq).id /\ held' = Head(rcvdq).buf
          /\ rcvdq' = Tail(rcvdq)
          /\ demux' = "process"
       \/ rcvdq = <<>> /\ demux' = "panic" /\ UNCHANGED <<handled, held, rcvdq>>
    /\ UNCHANGED <<chip, driver, isr, pool, rcvdq_sem, senders, frames, faults, late, spurious>>

\* pktdemux is done with the packet: pk_free.
Dispose ==
    /\ Runs /\ demux = "process"
    /\ GiveBack(held)
    /\ held' = None
    /\ demux' = "check"
    /\ UNCHANGED <<chip, driver, isr, rcvdq, rcvdq_sem, handled, senders, frames, faults, late, spurious>>

\* ip_rcv or arprcv, which need NET_RESID; or a type nobody handles, which does not.
DemuxProtocol == net_resid = None /\ Dispose
DemuxUnknown == Dispose

tk_netmain == DemuxPend \/ DemuxCheck \/ DemuxDeq \/ DemuxProtocol

-----------------------------------------------------------------------------
Network == GoesWrong \/ \E k \in {"small", "large", "bad"} : Arrive(k)

Driver == dm9000a_reset \/ alt_irq_register \/ Interrupt \/ dm9000a_isr

Next ==
    \/ Network \/ TxDone \/ Driver \/ tk_netmain \/ DemuxUnknown
    \/ \E t \in Tasks : Lock(t) \/ Send(t)

Spec == Init /\ [][Next]_vars

\* The chip transmits what it is asked to, the processor runs the handler, and every task
\* gets its turn; tk_netmain may always find that a packet needs NET_RESID.
FairSpec ==
    /\ Spec
    /\ WF_vars(TxDone) /\ WF_vars(Driver) /\ WF_vars(tk_netmain)
    /\ \A t \in Tasks : WF_vars(Send(t))

-----------------------------------------------------------------------------
(* Properties *)

TypeOK ==
    /\ index \in {"NCR", "2D", "IMR", "MRCMDX", "MRCMD", "RCR", "ISR"}
                \cup {Register[p] : p \in DOMAIN Register}
    /\ {imr, prs, strange, txend, late, spurious} \subseteq BOOLEAN
    /\ driver \in {"down", "reset", "up"}
    /\ isr \in {"idle", "mask", "ready", "frame", "reset", "clear", "unmask"}
    /\ lilfreeq \in 0 .. LilBufs /\ bigfreeq \in 0 .. BigBufs
    /\ pc \in [Tasks -> {"idle", "alloc", "getq"} \cup ToSet(Order)]
    /\ buf \in [Tasks -> {"lil", "big", None}] /\ held \in {"lil", "big", None}
    /\ net_resid \in Tasks \cup {None}
    /\ demux \in {"pend", "check", "deq", "process", "panic"}

\* The data of a task goes to the register the task selected, although the handler may run
\* between the two accesses and uses the same index register.
Selected == isr = "idle" => \A t \in Tasks : selected[t] => index = Register[pc[t]]

\* Every frame on the wire has the length and the data of one call of dm9ka_pkt_send, and
\* no call sends twice.
OwnFrame ==
    /\ \A i \in DOMAIN wire : wire[i].len = wire[i].data
    /\ Len(wire) <= sends

\* Packets reach the stack in the order of the wire, each at most once.
InOrder ==
    \A i \in DOMAIN rcvdq :
        rcvdq[i].id > IF i = 1 THEN handled ELSE rcvdq[i - 1].id

\* Every buffer is in one place: free, queued, or held by one task.
Owned(queue) ==
    /\ Cardinality({i \in DOMAIN rcvdq : rcvdq[i].buf = queue})
       + Cardinality({t \in Tasks : buf[t] = queue /\ pc[t] # "getq"})
       + (IF held = queue THEN 1 ELSE 0) + Free(queue)
       = (IF queue = "lil" THEN LilBufs ELSE BigBufs)

NoBufferLost == Owned("lil") /\ Owned("big")

\* tk_netmain never takes a packet from an empty queue ("pktdemux: got null pkt"), though it
\* tests the length without a lock and packets outnumber the posts it waits for.
NoPanic == demux # "panic"

\* Every frame in the chip is taken out, whatever the tasks do with the index register
\* and however many come at once; except when its arrival falls between the handler's
\* last look and the write that clears PRS, and no other frame follows.
EveryFrameTaken == (rx # <<>>) ~> (rx = <<>> \/ late)

\* Every packet that is queued is handed to the protocols.
EveryPacketHandled == (rcvdq # <<>>) ~> (rcvdq = <<>>)

\* Every send returns: the wait for the end of the transmission ends, with the chip's
\* interrupt masked all the while.
EverySendReturns == \A t \in Tasks : (pc[t] # "idle") ~> (pc[t] = "idle")

\* "0 if the request cannot be satisfied" (pktalloc.c, pk_alloc).
FailsOnlyWhenNoneLeft == ~ spurious
=============================================================================
