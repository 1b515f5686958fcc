--------------------------- MODULE Dm9000a_proofs ---------------------------
(***************************************************************************)
(* The safety of the Ethernet driver, for any number of senders, buffers,  *)
(* frames and faults.                                                      *)
(***************************************************************************)
EXTENDS Dm9000a, FiniteSetTheorems, TLAPS

Places == {"idle", "alloc", "getq", "imr_off", "fd", "fc", "mwcmd", "tcr", "nsr", "nsr_clear",
           "imr_on", "done"}

\* The places of TransmitPacket where it accesses the chip.
LEMMA AccessPlaces == Accesses = {"imr_off", "fd", "fc", "mwcmd", "tcr", "nsr", "nsr_clear", "imr_on"}
<1>1. DOMAIN Order = 1 .. 9
    BY DEF Order
<1>2. ToSet(Order) = {Order[i] : i \in 1 .. 9}
    BY <1>1 DEF ToSet
<1> QED BY <1>2 DEF Accesses, Order

\* The accesses of TransmitPacket follow each other in the order of the code.
LEMMA NextPlaces ==
    /\ NextPlace("imr_off") = "fd" /\ NextPlace("fd") = "fc" /\ NextPlace("fc") = "mwcmd"
    /\ NextPlace("mwcmd") = "tcr" /\ NextPlace("tcr") = "nsr" /\ NextPlace("nsr") = "nsr_clear"
    /\ NextPlace("nsr_clear") = "imr_on" /\ NextPlace("imr_on") = "done"
<1>1. DOMAIN Order = 1 .. 9
    BY DEF Order
<1>2. \A i \in 1 .. 8 : NextPlace(Order[i]) = Order[i + 1]
  <2> SUFFICES ASSUME NEW i \in 1 .. 8 PROVE NextPlace(Order[i]) = Order[i + 1]
    OBVIOUS
  <2> DEFINE j == CHOOSE k \in DOMAIN Order : Order[k] = Order[i]
  <2>1. j \in 1 .. 9 /\ Order[j] = Order[i]
    BY <1>1
  <2>2. \A m, n \in 1 .. 9 : Order[m] = Order[n] => m = n
    BY DEF Order
  <2>3. j = i
    BY <2>1, <2>2
  <2> QED BY <2>3 DEF NextPlace
<1>3. /\ Order[1] = "imr_off" /\ Order[2] = "fd" /\ Order[3] = "fc" /\ Order[4] = "mwcmd"
      /\ Order[5] = "tcr" /\ Order[6] = "nsr" /\ Order[7] = "nsr_clear" /\ Order[8] = "imr_on"
      /\ Order[9] = "done"
    BY DEF Order
<1>4. /\ NextPlace(Order[1]) = Order[2] /\ NextPlace(Order[2]) = Order[3]
      /\ NextPlace(Order[3]) = Order[4] /\ NextPlace(Order[4]) = Order[5]
      /\ NextPlace(Order[5]) = Order[6] /\ NextPlace(Order[6]) = Order[7]
      /\ NextPlace(Order[7]) = Order[8] /\ NextPlace(Order[8]) = Order[9]
    BY <1>2
<1> QED BY <1>3, <1>4

\* The registers of the accesses.
LEMMA Registers ==
    /\ Register["imr_off"] = "IMR" /\ Register["fd"] = "FD" /\ Register["fc"] = "FC"
    /\ Register["mwcmd"] = "MWCMD" /\ Register["tcr"] = "TCR" /\ Register["nsr"] = "NSR"
    /\ Register["nsr_clear"] = "NSR" /\ Register["imr_on"] = "IMR"
  BY DEF Register

-----------------------------------------------------------------------------
(* Types, and the little control that they depend on. *)

Frames == [id : Nat, kind : {"small", "large", "bad"}]
Packets == [id : Nat, buf : {"lil", "big"}]
TxMemories == [len : Tasks \cup {None}, data : Tasks \cup {None}, req : BOOLEAN]

Indexes == {"NCR", "2D", "IMR", "MRCMDX", "MRCMD", "RCR", "ISR", "FD", "FC", "MWCMD", "TCR", "NSR"}

ChipTypes ==
    /\ imr \in BOOLEAN /\ strange \in BOOLEAN /\ txend \in BOOLEAN
    /\ prs \in BOOLEAN /\ late \in BOOLEAN /\ spurious \in BOOLEAN
    /\ index \in Indexes
    /\ rx \in Seq(Frames) /\ frames \in Nat
    /\ tx \in TxMemories
    /\ driver \in {"down", "reset", "up"}
    /\ isr \in {"idle", "mask", "ready", "frame", "reset", "clear", "unmask"}
    /\ isr # "idle" => driver = "up"
    /\ isr = "frame" => rx # <<>>

StackTypes ==
    /\ lilfreeq \in Nat /\ bigfreeq \in Nat
    /\ rcvdq \in Seq(Packets) /\ handled \in Nat
    /\ demux \in {"pend", "check", "deq", "process", "panic"}
    /\ held \in {"lil", "big", None}
    /\ held # None <=> demux = "process"

SenderTypes ==
    /\ pc \in [Tasks -> Places] /\ selected \in [Tasks -> BOOLEAN]
    /\ buf \in [Tasks -> {"lil", "big", None}]
    /\ \A t \in Tasks : buf[t] = None <=> pc[t] \in {"idle", "alloc"}
    /\ sends \in Nat
    /\ net_resid \in Tasks \cup {None}

Types == ChipTypes /\ StackTypes /\ SenderTypes

\* Taking a frame out of the SRAM, or a packet out of the queue.
LEMMA HeadTail ==
    ASSUME NEW S, NEW q \in Seq(S), q # <<>>
    PROVE  Head(q) \in S /\ Tail(q) \in Seq(S) /\ Head(q) = q[1] /\ 1 \in DOMAIN q
  OBVIOUS

\* Putting a frame, or a packet, at the end.
LEMMA AppendedAt ==
    ASSUME NEW S, NEW q \in Seq(S), NEW e \in S, NEW r, r = Append(q, e)
    PROVE  \A i \in DOMAIN r : \/ i \in DOMAIN q /\ r[i] = q[i]
                               \/ i = Len(q) + 1 /\ r[i] = e
  OBVIOUS

\* The parts of TX memory.
LEMMA TxMemoryParts ==
    ASSUME NEW len, NEW data, NEW req
    PROVE  /\ TxMemory(len, data, req).len = len /\ TxMemory(len, data, req).data = data
           /\ TxMemory(len, data, req).req = req
           /\ len \in Tasks \cup {None} /\ data \in Tasks \cup {None} /\ req \in BOOLEAN =>
                 TxMemory(len, data, req) \in TxMemories
  BY DEF TxMemory, TxMemories

\* No transmission is requested.
LEMMA NoRequest ==
    ASSUME NEW len, NEW data
    PROVE  /\ TxMemory(len, data, FALSE).len = len /\ TxMemory(len, data, FALSE).data = data
           /\ ~ TxMemory(len, data, FALSE).req
  BY DEF TxMemory

\* The initial state.
LEMMA InitTypes == Init => Types
<1> SUFFICES ASSUME Init PROVE Types
    OBVIOUS
<1>1. tx \in TxMemories
    BY TxMemoryParts DEF Init
<1>2. rx \in Seq(Frames) /\ frames \in Nat
    BY DEF Init
<1>2a. ChipTypes
    BY <1>1, <1>2 DEF Init, ChipTypes, Indexes
<1>3. StackTypes
    BY BufsAssumption DEF Init, StackTypes
<1>4. SenderTypes
    BY DEF Init, SenderTypes, Places
<1> QED BY <1>2a, <1>3, <1>4 DEF Types

\* The steps of the chip and the driver keep the types.
LEMMA ChipKeepsTypes ==
    ASSUME Types, Network \/ TxDone \/ Driver PROVE Types'
<1> USE DEF Types, chip, pool, stack, senders, Indexes
<1>1. ASSUME NEW k \in {"small", "large", "bad"}, Arrive(k) PROVE Types'
  <2>1. [id |-> frames + 1, kind |-> k] \in Frames
    BY DEF ChipTypes, Frames
  <2>2. rx' \in Seq(Frames) /\ rx' # <<>>
    BY <1>1, <2>1 DEF Arrive, ChipTypes
  <2>3. ChipTypes'
    BY <1>1, <2>2 DEF Arrive, ChipTypes
  <2> QED BY <1>1, <2>3 DEF Arrive, StackTypes, SenderTypes
<1>2. CASE GoesWrong
    BY <1>2 DEF GoesWrong, ChipTypes, StackTypes, SenderTypes
<1>3. CASE TxDone
  <2>1. tx' \in TxMemories
    BY <1>3, TxMemoryParts DEF TxDone, ChipTypes, TxMemories
  <2>2. txend' = TRUE
    BY <1>3 DEF TxDone
  <2>3. ChipTypes'
    BY <1>3, <2>1, <2>2 DEF TxDone, ChipTypes
  <2> QED BY <1>3, <2>3 DEF TxDone, StackTypes, SenderTypes
<1>4. ASSUME SoftReset
      PROVE  tx' \in TxMemories /\ rx' \in Seq(Frames) /\ strange' \in BOOLEAN /\ txend' \in BOOLEAN
  <2>1. tx.len \in Tasks \cup {None} /\ tx.data \in Tasks \cup {None}
    BY DEF ChipTypes, TxMemories
  <2>2. tx' \in TxMemories
    BY <1>4, <2>1, TxMemoryParts DEF SoftReset
  <2>3. rx' = <<>> /\ strange' = FALSE /\ txend' = FALSE
    BY <1>4 DEF SoftReset
  <2>4. <<>> \in Seq(Frames)
    OBVIOUS
  <2> QED BY <2>2, <2>3, <2>4
<1>5. CASE dm9000a_reset
    BY <1>4, <1>5 DEF dm9000a_reset, ChipTypes, StackTypes, SenderTypes
<1>6. CASE alt_irq_register
    BY <1>6 DEF alt_irq_register, ChipTypes, StackTypes, SenderTypes
<1>7. CASE Interrupt
    BY <1>7 DEF Interrupt, Isr, ChipTypes, StackTypes, SenderTypes
<1>8. CASE IsrMask
    BY <1>8 DEF IsrMask, Isr, ChipTypes, StackTypes, SenderTypes
<1>9. CASE IsrReady
    BY <1>9 DEF IsrReady, Isr, ChipTypes, StackTypes, SenderTypes
<1>10. CASE IsrFrame
  <2> DEFINE f == Head(rx)  b == Suitable(f.kind)
  <2>1. f \in Frames /\ rx' \in Seq(Frames)
    BY <1>10, HeadTail DEF IsrFrame, Isr, ChipTypes
  <2>2. b \in {"lil", "big"}
    BY DEF Suitable
  <2>3. \/ UNCHANGED <<pool, rcvdq>>
        \/ Free(b) > 0 /\ Take(b) /\ rcvdq' = Append(rcvdq, [id |-> f.id, buf |-> b])
    BY <1>10 DEF IsrFrame, IsrAlloc, putq
  <2> HIDE DEF f, b
  <2>4. [id |-> f.id, buf |-> b] \in Packets
    BY <2>1, <2>2 DEF Frames, Packets
  <2>5. lilfreeq' \in Nat /\ bigfreeq' \in Nat
    BY <2>2, <2>3 DEF Free, Take, StackTypes
  <2>6. rcvdq' \in Seq(Packets)
    BY <2>3, <2>4 DEF StackTypes
  <2>7. ChipTypes'
    BY <1>10, <2>1 DEF IsrFrame, Isr, ChipTypes
  <2>8. StackTypes'
    BY <1>10, <2>5, <2>6 DEF IsrFrame, StackTypes
  <2> QED BY <1>10, <2>7, <2>8 DEF IsrFrame, SenderTypes
<1>11. CASE IsrReset
    BY <1>4, <1>11 DEF IsrReset, Isr, ChipTypes, StackTypes, SenderTypes
<1>12. CASE IsrClear
    BY <1>12 DEF IsrClear, Isr, ChipTypes, StackTypes, SenderTypes
<1>13. CASE IsrUnmask
    BY <1>13 DEF IsrUnmask, Isr, ChipTypes, StackTypes, SenderTypes
<1> QED BY <1>1, <1>2, <1>3, <1>5, <1>6, <1>7, <1>8, <1>9, <1>10, <1>11, <1>12, <1>13
        DEF Network, Driver, dm9000a_isr

\* The steps of tk_netmain and of the senders keep the types.
LEMMA TasksKeepTypes ==
    ASSUME Types, tk_netmain \/ DemuxUnknown \/ \E t \in Tasks : Lock(t) \/ Send(t) PROVE Types'
<1> USE DEF Types, chip, pool, stack, senders, Indexes
<1>1. CASE DemuxPend
    BY <1>1 DEF DemuxPend, ChipTypes, StackTypes, SenderTypes
<1>2. CASE DemuxCheck
    BY <1>2 DEF DemuxCheck, ChipTypes, StackTypes, SenderTypes
<1>3. CASE DemuxDeq
  <2>1. CASE rcvdq = <<>>
    BY <1>3, <2>1 DEF DemuxDeq, ChipTypes, StackTypes, SenderTypes
  <2>2. CASE rcvdq # <<>>
    <3>1. Head(rcvdq) \in Packets /\ Tail(rcvdq) \in Seq(Packets)
      BY <2>2, HeadTail DEF StackTypes
    <3>2. handled' \in Nat /\ held' \in {"lil", "big"} /\ rcvdq' \in Seq(Packets)
      BY <1>3, <2>2, <3>1 DEF DemuxDeq, Packets
    <3>3. StackTypes'
      BY <1>3, <2>2, <3>2, TasksAssumption DEF DemuxDeq, StackTypes
    <3> QED BY <1>3, <3>3 DEF DemuxDeq, ChipTypes, SenderTypes
  <2> QED BY <2>1, <2>2
<1>4. CASE Dispose
    BY <1>4 DEF Dispose, GiveBack, ChipTypes, StackTypes, SenderTypes
<1>5. ASSUME NEW t \in Tasks, Lock(t) PROVE Types'
    BY <1>5 DEF Lock, Goto, Places, ChipTypes, StackTypes, SenderTypes
<1>6. ASSUME NEW t \in Tasks, NEW k \in {"small", "large"}, AllocCheck(t, k) PROVE Types'
  <2>1. Suitable(k) \in {"lil", "big"}
    BY DEF Suitable
  <2>2. SenderTypes'
    BY <1>6, <2>1, TasksAssumption DEF AllocCheck, Goto, Places, SenderTypes
  <2> QED BY <1>6, <2>2 DEF AllocCheck, ChipTypes, StackTypes
<1>7. ASSUME NEW t \in Tasks, AllocGet(t) PROVE Types'
  <2>1. SenderTypes'
    BY <1>7, TasksAssumption DEF AllocGet, Goto, Places, SenderTypes
  <2>2. StackTypes'
    BY <1>7 DEF AllocGet, Take, Free, StackTypes
  <2>3. spurious' \in BOOLEAN
    BY <1>7 DEF AllocGet, ChipTypes
  <2> QED BY <1>7, <2>1, <2>2, <2>3 DEF AllocGet, ChipTypes
<1>8. ASSUME NEW t \in Tasks, Select(t) PROVE Types'
  <2>1. index' \in Indexes
    BY <1>8, AccessPlaces, Registers DEF Select
  <2> QED BY <1>8, <2>1 DEF Select, ChipTypes, StackTypes, SenderTypes
<1>9. ASSUME NEW t \in Tasks, Access(t) PROVE Types'
  <2>1. tx' \in TxMemories
    <3> DEFINE len == IF index = "FC" THEN t ELSE tx.len
               data == IF index = "MWCMD" THEN t ELSE tx.data
               req == tx.req \/ index = "TCR"
    <3>1. tx' = TxMemory(len, data, req)
      BY <1>9 DEF Access
    <3>2. len \in Tasks \cup {None} /\ data \in Tasks \cup {None} /\ req \in BOOLEAN
      BY DEF ChipTypes, TxMemories
    <3> HIDE DEF len, data, req
    <3> QED BY <3>1, <3>2, TxMemoryParts
  <2>2. pc[t] \in Places \ {"idle", "alloc", "getq", "done"}
    BY <1>9, AccessPlaces DEF Access, Places
  <2>3. /\ pc' = [pc EXCEPT ![t] = pc'[t]]
        /\ pc'[t] \in Places \ {"idle", "alloc"}
    BY <1>9, <2>2, NextPlaces DEF Access, Goto, SenderTypes, Places
  <2>4. SenderTypes'
    BY <1>9, <2>2, <2>3 DEF Access, SenderTypes
  <2>5. imr' \in BOOLEAN /\ txend' \in BOOLEAN
    BY <1>9 DEF Access, ChipTypes
  <2> QED BY <1>9, <2>1, <2>4, <2>5 DEF Access, ChipTypes, StackTypes
<1>10. ASSUME NEW t \in Tasks, Finish(t) PROVE Types'
    BY <1>10 DEF Finish, Goto, GiveBack, Places, ChipTypes, StackTypes, SenderTypes
<1> QED BY <1>1, <1>2, <1>3, <1>4, <1>5, <1>6, <1>7, <1>8, <1>9, <1>10
        DEF tk_netmain, DemuxProtocol, DemuxUnknown, Send

\* Every step keeps the types.
LEMMA TypesKept == ASSUME Types, [Next]_vars PROVE Types'
<1>1. CASE UNCHANGED vars
    BY <1>1 DEF vars, chip, pool, stack, senders, Types, ChipTypes, StackTypes, SenderTypes
<1> QED BY <1>1, ChipKeepsTypes, TasksKeepTypes DEF Next

-----------------------------------------------------------------------------
(* The index register.  NET_RESID lets one task at a time use the chip, and from the
   first access of TransmitPacket to the last the chip's interrupt is masked, so that
   the handler can only run between the tasks' two accesses to IMR, whose index it
   leaves behind. *)

MaskedPlaces == {"fd", "fc", "mwcmd", "tcr", "nsr", "nsr_clear", "imr_on"}

OneSender ==
    \A t \in Tasks :
        /\ pc[t] # "idle" <=> net_resid = t
        /\ pc[t] # "idle" => driver = "up"
        /\ selected[t] => pc[t] \in {"imr_off"} \cup MaskedPlaces

Masked == \A t \in Tasks : pc[t] \in MaskedPlaces => ~ imr /\ isr = "idle"

Index == Types /\ OneSender /\ Masked /\ Selected

\* At the start no task uses the chip.
LEMMA InitIndex == Init => Index
<1> SUFFICES ASSUME Init PROVE Index
    OBVIOUS
<1>1. \A t \in Tasks : pc[t] = "idle" /\ ~ selected[t] /\ net_resid # t
    BY TasksAssumption DEF Init
<1> QED BY <1>1, InitTypes DEF Index, OneSender, Masked, Selected, MaskedPlaces

\* The steps that touch neither the registers nor the senders.
LEMMA IndexUnchanged ==
    ASSUME OneSender, Masked, Selected, UNCHANGED <<index, imr, driver, isr, pc, selected, net_resid>>
    PROVE  OneSender' /\ Masked' /\ Selected'
  BY DEF OneSender, Masked, Selected

\* The handler.
LEMMA DriverKeepsIndex ==
    ASSUME Index, Driver PROVE OneSender' /\ Masked' /\ Selected'
<1> USE DEF chip, senders, MaskedPlaces
<1>1. CASE dm9000a_reset
  <2>1. \A t \in Tasks : pc[t] = "idle" /\ ~ selected[t]
    BY <1>1 DEF dm9000a_reset, Index, OneSender
  <2>2. UNCHANGED <<pc, selected, net_resid>>
    BY <1>1 DEF dm9000a_reset
  <2> QED BY <2>1, <2>2 DEF Index, OneSender, Masked, Selected
<1>2. CASE alt_irq_register
    BY <1>2 DEF alt_irq_register, Index, OneSender, Masked, Selected
<1>3. CASE Interrupt
    BY <1>3 DEF Interrupt, Isr, Index, OneSender, Masked, Selected
<1>4. ASSUME isr # "idle", isr' # "idle", UNCHANGED <<driver, pc, selected, net_resid>>
      PROVE  OneSender' /\ Masked' /\ Selected'
    BY <1>4 DEF Index, OneSender, Masked, Selected
<1>5. CASE IsrMask \/ IsrReady \/ IsrFrame \/ IsrReset \/ IsrClear
  <2>1. isr # "idle" /\ isr' # "idle"
    BY <1>5 DEF IsrMask, IsrReady, IsrFrame, IsrReset, IsrClear, Isr
  <2>2. UNCHANGED <<driver, pc, selected, net_resid>>
    BY <1>5 DEF IsrMask, IsrReady, IsrFrame, IsrReset, IsrClear
  <2> QED BY <1>4, <2>1, <2>2
<1>6. CASE IsrUnmask
  <2>1. index' = "IMR" /\ isr # "idle" /\ UNCHANGED <<driver, pc, selected, net_resid>>
    BY <1>6 DEF IsrUnmask, Isr
  <2>2. \A t \in Tasks : selected[t] => pc[t] = "imr_off"
    BY <2>1 DEF Index, OneSender, Masked
  <2> QED BY <2>1, <2>2, Registers DEF Index, OneSender, Masked, Selected
<1> QED BY <1>1, <1>2, <1>3, <1>5, <1>6 DEF Driver, dm9000a_isr

\* The senders.
LEMMA SendersKeepIndex ==
    ASSUME Index, NEW t \in Tasks, Lock(t) \/ Send(t) PROVE OneSender' /\ Masked' /\ Selected'
<1> USE DEF chip, senders, MaskedPlaces
<1>0. pc \in [Tasks -> Places] /\ selected \in [Tasks -> BOOLEAN]
    BY DEF Index, Types, SenderTypes
<1>1. CASE Lock(t)
  <2>1. net_resid = None /\ driver = "up" /\ isr = "idle"
    BY <1>1 DEF Lock, LockFree, Runs
  <2>2. \A u \in Tasks : pc[u] = "idle" /\ ~ selected[u]
    BY <2>1, TasksAssumption DEF Index, OneSender
  <2> QED BY <1>0, <1>1, <2>1, <2>2 DEF Lock, Goto, Index, OneSender, Masked, Selected
<1>2. ASSUME NEW k \in {"small", "large"}, AllocCheck(t, k) PROVE OneSender' /\ Masked' /\ Selected'
    BY <1>0, <1>2 DEF AllocCheck, Goto, Index, OneSender, Masked, Selected
<1>3. CASE AllocGet(t)
    BY <1>0, <1>3, TasksAssumption DEF AllocGet, Goto, Index, OneSender, Masked, Selected
<1>4. \A u \in Tasks \ {t} : pc[t] # "idle" => pc[u] = "idle" /\ ~ selected[u]
    BY DEF Index, OneSender
<1>5. CASE Select(t)
    BY <1>0, <1>4, <1>5, AccessPlaces DEF Select, Index, OneSender, Masked, Selected
<1>6. CASE Access(t)
  <2>1. index = Register[pc[t]] /\ isr = "idle" /\ driver = "up"
    BY <1>6 DEF Access, Runs, Index, Selected
  <2>2. pc[t] \in {"imr_off"} \cup MaskedPlaces /\ net_resid = t
    BY <1>6, AccessPlaces DEF Access, Index, OneSender
  <2>3. pc'[t] \in MaskedPlaces \cup {"done"} /\ (pc'[t] = "done" <=> pc[t] = "imr_on")
    BY <1>0, <1>6, <2>2, NextPlaces DEF Access, Goto
  <2>4. pc'[t] # "done" => ~ imr'
    BY <1>6, <2>1, <2>2, <2>3, Registers DEF Access, Index, Masked
  <2>5. \A u \in Tasks \ {t} : pc'[u] = "idle" /\ ~ selected'[u]
    BY <1>0, <1>4, <1>6, <2>2 DEF Access, Goto
  <2>6. ~ selected'[t] /\ UNCHANGED <<isr, driver, net_resid>>
    BY <1>0, <1>6 DEF Access
  <2> QED BY <2>1, <2>2, <2>3, <2>4, <2>5, <2>6 DEF Index, OneSender, Masked, Selected
<1>7. CASE Finish(t)
    BY <1>0, <1>7, TasksAssumption DEF Finish, Goto, Index, OneSender, Masked, Selected
<1> QED BY <1>1, <1>2, <1>3, <1>5, <1>6, <1>7 DEF Send

\* Every step.
LEMMA IndexKept == ASSUME Index, [Next]_vars PROVE Index'
<1> USE DEF vars, chip, senders
<1>1. CASE Network \/ TxDone \/ tk_netmain \/ DemuxUnknown \/ UNCHANGED vars
  <2>1. UNCHANGED <<index, imr, driver, isr, pc, selected, net_resid>>
    BY <1>1 DEF Network, GoesWrong, Arrive, TxDone, tk_netmain, DemuxPend, DemuxCheck, DemuxDeq,
                DemuxProtocol, DemuxUnknown, Dispose
  <2> QED BY <2>1, IndexUnchanged, TypesKept DEF Index
<1> QED BY <1>1, TypesKept, DriverKeepsIndex, SendersKeepIndex DEF Index, Next

\* The data of a task goes to the register the task selected, for any number of tasks.
THEOREM IndexRegisterSafe == Spec => []Selected
<1>1. Init => Index
    BY InitIndex
<1>2. Index /\ [Next]_vars => Index'
    BY IndexKept
<1>3. Index => Selected
    BY DEF Index
<1> QED BY <1>1, <1>2, <1>3, PTL DEF Spec

-----------------------------------------------------------------------------
(* What is transmitted.  A request is pending, or its end is not yet read, only while
   the task that made it waits; so that no other task writes TX memory meanwhile. *)

Before == {"alloc", "getq", "imr_off", "fd", "fc", "mwcmd", "tcr"}

\* A call of dm9ka_pkt_send has not transmitted yet.
Unsent == tx.req \/ \E t \in Tasks : pc[t] \in Before

Transmission ==
    /\ \A t \in Tasks : pc[t] \in {"mwcmd", "tcr", "nsr"} => tx.len = t
    /\ \A t \in Tasks : pc[t] \in {"tcr", "nsr"} => tx.data = t
    /\ tx.req \/ txend => \E t \in Tasks : pc[t] = "nsr"
    /\ ~ (tx.req /\ txend)

WireFrames == [len : Tasks \cup {None}, data : Tasks \cup {None}]
Wires == Seq(WireFrames)

Sent ==
    /\ wire \in Wires
    /\ \A i \in DOMAIN wire : wire[i].len = wire[i].data
    /\ Len(wire) + (IF Unsent THEN 1 ELSE 0) <= sends

Transmit == Index /\ Transmission /\ Sent

\* At the start nothing is transmitted.
LEMMA InitTransmit == Init => Transmit
<1> SUFFICES ASSUME Init PROVE Transmit
    OBVIOUS
<1>1. ~ tx.req /\ ~ txend
    BY NoRequest DEF Init
<1>2. \A t \in Tasks : pc[t] = "idle"
    BY DEF Init
<1>3. Transmission
    BY <1>1, <1>2 DEF Transmission
<1>4. wire = <<>> /\ sends = 0
    BY DEF Init
<1>5. Sent
    BY <1>1, <1>2, <1>4 DEF Sent, Unsent, Before, Wires
<1> QED BY <1>3, <1>5, InitIndex DEF Transmit

\* Steps that leave the transmission alone.
LEMMA TransmitUnchanged ==
    ASSUME Transmit, UNCHANGED <<tx, txend, pc, wire, sends>> PROVE Transmission' /\ Sent'
  BY DEF Transmit, Transmission, Sent, Unsent

\* A software reset drops what was requested, and puts nothing on the wire.
LEMMA ResetKeepsTransmit ==
    ASSUME Transmit, SoftReset, UNCHANGED <<pc, wire, sends>> PROVE Transmission' /\ Sent'
<1>1. tx'.len = tx.len /\ tx'.data = tx.data /\ ~ tx'.req /\ ~ txend'
    BY NoRequest DEF SoftReset
<1>2. Transmission'
    BY <1>1 DEF Transmit, Transmission
<1>3. Unsent' => Unsent
    BY <1>1 DEF Unsent
<1>4. Len(wire) \in Nat /\ sends \in Nat
    BY DEF Transmit, Sent, Wires, Index, Types, SenderTypes
<1>5. Sent'
    BY <1>3, <1>4 DEF Transmit, Sent
<1> QED BY <1>2, <1>5

\* The chip transmits what the waiting task wrote.
LEMMA TxDoneKeepsTransmit ==
    ASSUME Transmit, TxDone PROVE Transmission' /\ Sent'
<1> DEFINE w == [len |-> tx.len, data |-> tx.data]
<1>1. tx.len \in Tasks \cup {None} /\ tx.data \in Tasks \cup {None}
    BY DEF Transmit, Index, Types, ChipTypes, TxMemories
<1>2a. tx' = TxMemory(tx.len, tx.data, FALSE) /\ txend' = TRUE
    BY DEF TxDone
<1>2. tx'.len = tx.len /\ tx'.data = tx.data /\ ~ tx'.req /\ txend'
    BY <1>2a, NoRequest
<1>3. UNCHANGED <<pc, sends>>
    BY DEF TxDone, senders
<1>4. PICK t \in Tasks : pc[t] = "nsr"
    BY DEF TxDone, Transmit, Transmission
<1>5. tx.len = t /\ tx.data = t
    BY <1>4 DEF Transmit, Transmission
<1>6. Transmission'
    BY <1>2, <1>3, <1>4, <1>5 DEF Transmit, Transmission
<1>7. \A u \in Tasks \ {t} : pc[u] = "idle"
    BY <1>4 DEF Transmit, Index, OneSender
<1>8. ~ Unsent'
    BY <1>2, <1>3, <1>4, <1>7 DEF Unsent, Before
<1>9. Unsent
    BY DEF TxDone, Unsent
<1>10. w \in WireFrames /\ w.len = w.data
    BY <1>1, <1>5 DEF WireFrames
<1>11. wire' = Append(wire, w)
    BY DEF TxDone
<1> HIDE DEF w
<1>12. wire' \in Wires /\ Len(wire') = Len(wire) + 1 /\ Len(wire) \in Nat
    BY <1>10, <1>11 DEF Transmit, Sent, Wires
<1>13. \A i \in DOMAIN wire' : wire'[i] = w \/ (i \in DOMAIN wire /\ wire'[i] = wire[i])
    BY <1>10, <1>11, AppendedAt DEF Transmit, Sent, Wires
<1>14. sends \in Nat
    BY DEF Transmit, Index, Types, SenderTypes
<1>15. Sent'
  <2>1. \A i \in DOMAIN wire' : wire'[i].len = wire'[i].data
    BY <1>10, <1>13 DEF Transmit, Sent
  <2>2. Len(wire) + 1 <= sends
    BY <1>9 DEF Transmit, Sent
  <2>3. Len(wire') + 0 <= sends'
    BY <1>3, <1>12, <1>14, <2>2
  <2> QED BY <1>8, <1>12, <2>1, <2>3 DEF Sent
<1> QED BY <1>6, <1>15

\* The senders.
LEMMA SendersKeepTransmit ==
    ASSUME Transmit, NEW t \in Tasks, Lock(t) \/ Send(t) PROVE Transmission' /\ Sent'
<1> USE DEF chip, senders
<1>0. pc \in [Tasks -> Places] /\ Len(wire) \in Nat /\ sends \in Nat
    BY DEF Transmit, Sent, Wires, Index, Types, SenderTypes
<1>1. \A u \in Tasks \ {t} : pc[t] # "idle" => pc[u] = "idle"
    BY DEF Transmit, Index, OneSender
<1>2. \A u \in Tasks \ {t} : pc'[u] = pc[u]
    BY <1>0 DEF Lock, Send, AllocCheck, AllocGet, Select, Access, Finish, Goto
<1>3. UNCHANGED wire
    BY DEF Lock, Send, AllocCheck, AllocGet, Select, Access, Finish
<1>4. CASE Lock(t)
  <2>1. net_resid = None /\ UNCHANGED <<tx, txend>> /\ sends' = sends + 1 /\ pc'[t] = "alloc"
    BY <1>0, <1>4 DEF Lock, LockFree, Goto
  <2>2. \A u \in Tasks : pc[u] = "idle"
    BY <2>1, TasksAssumption DEF Transmit, Index, OneSender
  <2>3. ~ tx.req /\ ~ txend
    BY <2>2 DEF Transmit, Transmission
  <2>4. Transmission'
    BY <1>2, <2>1, <2>2, <2>3 DEF Transmission
  <2>5. ~ Unsent
    BY <2>2, <2>3 DEF Unsent, Before
  <2>6. Len(wire) <= sends
    BY <1>0, <2>5 DEF Transmit, Sent
  <2>7. Len(wire') + (IF Unsent' THEN 1 ELSE 0) <= sends'
    BY <1>0, <1>3, <2>1, <2>6
  <2>8. Sent'
    BY <1>3, <2>7 DEF Transmit, Sent
  <2> QED BY <2>4, <2>8
<1>5. ASSUME UNCHANGED <<tx, txend, sends>>, pc'[t] \in Before => pc[t] \in Before,
             pc'[t] \notin {"mwcmd", "tcr", "nsr"}, pc[t] # "nsr"
      PROVE  Transmission' /\ Sent'
  <2>1. Transmission'
    <3>1. tx.req \/ txend => \E u \in Tasks : pc'[u] = "nsr"
      BY <1>2, <1>5 DEF Transmit, Transmission
    <3> QED BY <1>2, <1>5, <3>1 DEF Transmit, Transmission
  <2>2. Unsent' => Unsent
    BY <1>2, <1>5 DEF Unsent
  <2>3. Sent'
    BY <1>0, <1>3, <1>5, <2>2 DEF Transmit, Sent
  <2> QED BY <2>1, <2>3
<1>6. ASSUME NEW k \in {"small", "large"}, AllocCheck(t, k) PROVE Transmission' /\ Sent'
    BY <1>0, <1>5, <1>6 DEF AllocCheck, Goto, Before
<1>7. CASE AllocGet(t)
    BY <1>0, <1>5, <1>7 DEF AllocGet, Goto, Before
<1>8. CASE Select(t)
    BY <1>8, TransmitUnchanged DEF Select
<1>9. CASE Finish(t)
    BY <1>0, <1>5, <1>9 DEF Finish, Goto, Before
<1>10. CASE Access(t)
  <2>1. index = Register[pc[t]]
    BY <1>10 DEF Access, Runs, Transmit, Index, Selected
  <2>2. pc[t] \in {"imr_off"} \cup MaskedPlaces
    BY <1>10, AccessPlaces DEF Access, MaskedPlaces
  <2>3. /\ tx'.len = IF index = "FC" THEN t ELSE tx.len
        /\ tx'.data = IF index = "MWCMD" THEN t ELSE tx.data
        /\ tx'.req = (tx.req \/ index = "TCR")
        /\ txend' = (txend /\ index # "NSR")
    BY <1>10, TxMemoryParts DEF Access
  <2>4. pc'[t] = IF pc[t] = "nsr" /\ ~ (txend /\ index = "NSR") THEN "nsr" ELSE NextPlace(pc[t])
    BY <1>0, <1>10 DEF Access, Goto
  <2>5. UNCHANGED sends
    BY <1>10 DEF Access
  <2>6. \A u \in Tasks \ {t} : pc[u] = "idle" /\ pc'[u] = "idle"
    BY <1>1, <1>2, <2>2 DEF MaskedPlaces
  <2>7. tx.req \/ txend => pc[t] = "nsr"
    BY <2>6 DEF Transmit, Transmission
  <2>8. pc[t] \in {"mwcmd", "tcr", "nsr"} => tx.len = t
    BY DEF Transmit, Transmission
  <2>9. pc[t] \in {"tcr", "nsr"} => tx.data = t
    BY DEF Transmit, Transmission
  <2>10. /\ pc'[t] \in {"mwcmd", "tcr", "nsr"} => tx'.len = t
         /\ pc'[t] \in {"tcr", "nsr"} => tx'.data = t
    BY <2>1, <2>2, <2>3, <2>4, <2>8, <2>9, NextPlaces, Registers DEF MaskedPlaces
  <2>11. tx'.req \/ txend' => pc'[t] = "nsr"
    BY <2>1, <2>2, <2>3, <2>4, <2>7, NextPlaces, Registers DEF MaskedPlaces, Transmit, Transmission
  <2>12. ~ (tx'.req /\ txend')
    BY <2>1, <2>2, <2>3, <2>7, Registers DEF MaskedPlaces, Transmit, Transmission
  <2>13. Transmission'
    BY <2>6, <2>10, <2>11, <2>12 DEF Transmission
  <2>14. tx'.req \/ pc'[t] \in Before => tx.req \/ pc[t] \in Before
    BY <2>1, <2>2, <2>3, <2>4, NextPlaces, Registers DEF MaskedPlaces, Before
  <2>15. Unsent' => Unsent
    BY <2>6, <2>14 DEF Unsent, Before
  <2>16. Sent'
    BY <1>0, <1>3, <2>5, <2>15 DEF Transmit, Sent
  <2> QED BY <2>13, <2>16
<1> QED BY <1>4, <1>6, <1>7, <1>8, <1>9, <1>10 DEF Send

\* Every step.
LEMMA TransmitKept == ASSUME Transmit, [Next]_vars PROVE Transmit'
<1> USE DEF vars, chip, senders
<1>1. CASE UNCHANGED <<tx, txend, pc, wire, sends>>
    BY <1>1, TransmitUnchanged, IndexKept DEF Transmit
<1>2. CASE SoftReset /\ UNCHANGED <<pc, wire, sends>>
    BY <1>2, ResetKeepsTransmit, IndexKept DEF Transmit
<1>3. CASE TxDone \/ \E t \in Tasks : Lock(t) \/ Send(t)
    BY <1>3, TxDoneKeepsTransmit, SendersKeepTransmit, IndexKept DEF Transmit
<1>4. CASE Network \/ tk_netmain \/ DemuxUnknown \/ UNCHANGED vars
    BY <1>1, <1>4 DEF Network, GoesWrong, Arrive, tk_netmain, DemuxPend, DemuxCheck, DemuxDeq,
                DemuxProtocol, DemuxUnknown, Dispose
<1>5. CASE Driver
    BY <1>1, <1>2, <1>5 DEF Driver, dm9000a_isr, dm9000a_reset, alt_irq_register, Interrupt, IsrMask,
                IsrReady, IsrFrame, IsrReset, IsrClear, IsrUnmask
<1> QED BY <1>3, <1>4, <1>5 DEF Next

\* Every frame on the wire has the length and the data of one call, and there are never
\* more frames than calls, for any number of tasks.
THEOREM FramesAreWhole == Spec => []OwnFrame
<1>1. Init => Transmit
    BY InitTransmit
<1>2. Transmit /\ [Next]_vars => Transmit'
    BY TransmitKept
<1>3. Transmit => OwnFrame
  <2> SUFFICES ASSUME Transmit PROVE OwnFrame
    OBVIOUS
  <2>1. Len(wire) \in Nat /\ sends \in Nat
    BY DEF Transmit, Sent, Wires, Index, Types, SenderTypes
  <2> QED BY <2>1 DEF Transmit, Sent, OwnFrame
<1> QED BY <1>1, <1>2, <1>3, PTL DEF Spec

-----------------------------------------------------------------------------
(* The queue of received packets.  Only tk_netmain takes from it, so what it saw before
   it dequeues is still true then. *)

Sure == demux # "panic" /\ (demux = "deq" => rcvdq # <<>>)

\* What is in the chip came after what is queued, and that after what was handled.
Ordered ==
    /\ handled <= frames
    /\ \A i \in DOMAIN rx : handled < rx[i].id /\ rx[i].id <= frames
    /\ \A i, j \in DOMAIN rx : i < j => rx[i].id < rx[j].id
    /\ \A i \in DOMAIN rcvdq : handled < rcvdq[i].id /\ rcvdq[i].id <= frames
    /\ \A i, j \in DOMAIN rcvdq : i < j => rcvdq[i].id < rcvdq[j].id
    /\ \A i \in DOMAIN rcvdq, j \in DOMAIN rx : rcvdq[i].id < rx[j].id

Queue == Types /\ Sure /\ Ordered

\* What is left when the first is taken.
LEMMA TailAt ==
    ASSUME NEW S, NEW q \in Seq(S), q # <<>>, NEW r, r = Tail(q)
    PROVE  \A i \in DOMAIN r : i \in Nat /\ i + 1 \in DOMAIN q /\ r[i] = q[i + 1] /\ 1 < i + 1
  OBVIOUS

\* The numbers of the frames and packets are numbers.
LEMMA Ids ==
    ASSUME Types
    PROVE  /\ \A i \in DOMAIN rx : rx[i] \in Frames /\ rx[i].id \in Nat /\ i \in Nat /\ i <= Len(rx)
           /\ \A i \in DOMAIN rcvdq : rcvdq[i] \in Packets /\ rcvdq[i].id \in Nat /\ i \in Nat /\ i <= Len(rcvdq)
           /\ rx \in Seq(Frames) /\ rcvdq \in Seq(Packets) /\ handled \in Nat /\ frames \in Nat
           /\ Len(rx) \in Nat /\ Len(rcvdq) \in Nat
<1>1. rx \in Seq(Frames) /\ rcvdq \in Seq(Packets) /\ handled \in Nat /\ frames \in Nat
    BY DEF Types, ChipTypes, StackTypes
<1>2. \A i \in DOMAIN rx : rx[i] \in Frames /\ i \in Nat /\ i <= Len(rx)
    BY <1>1
<1>3. \A i \in DOMAIN rcvdq : rcvdq[i] \in Packets /\ i \in Nat /\ i <= Len(rcvdq)
    BY <1>1
<1>4. (\A f \in Frames : f.id \in Nat) /\ (\A p \in Packets : p.id \in Nat)
    BY DEF Frames, Packets
<1>5. Len(rx) \in Nat /\ Len(rcvdq) \in Nat
    BY <1>1
<1> QED BY <1>1, <1>2, <1>3, <1>4, <1>5

\* At the start nothing is queued.
LEMMA InitQueue == Init => Queue
<1> SUFFICES ASSUME Init PROVE Queue
    OBVIOUS
<1>1. rx = <<>> /\ rcvdq = <<>> /\ handled = 0 /\ frames = 0 /\ demux = "pend"
    BY DEF Init
<1>2. Ordered
    BY <1>1 DEF Ordered
<1> QED BY <1>1, <1>2, InitTypes DEF Queue, Sure

\* A frame that arrives has a number above all the others.
LEMMA ArriveKeepsQueue ==
    ASSUME Queue, NEW k \in {"small", "large", "bad"}, Arrive(k) PROVE Sure' /\ Ordered'
<1> DEFINE f == [id |-> frames + 1, kind |-> k]
<1>1. f \in Frames /\ f.id = frames + 1
    BY Ids DEF Queue, Frames
<1>2. rx' = Append(rx, f) /\ frames' = frames + 1 /\ UNCHANGED <<rcvdq, handled, demux>>
    BY DEF Arrive, stack
<1> HIDE DEF f
<1>3. \A i \in DOMAIN rx' : \/ i \in DOMAIN rx /\ rx'[i] = rx[i]
                            \/ i = Len(rx) + 1 /\ rx'[i] = f
  <2>1. rx \in Seq(Frames) /\ f \in Frames
    BY <1>1, Ids DEF Queue
  <2>2. rx' = Append(rx, f)
    BY <1>2
  <2> QED BY <2>1, <2>2, AppendedAt
<1>4. \A i \in DOMAIN rx' : handled < rx'[i].id /\ rx'[i].id <= frames + 1
    BY <1>1, <1>3, Ids DEF Queue, Ordered
<1>5. \A i, j \in DOMAIN rx' : i < j => rx'[i].id < rx'[j].id
  <2> SUFFICES ASSUME NEW i \in DOMAIN rx', NEW j \in DOMAIN rx', i < j PROVE rx'[i].id < rx'[j].id
    OBVIOUS
  <2>1. i \in DOMAIN rx /\ rx'[i] = rx[i]
    BY <1>3, Ids DEF Queue
  <2>2. CASE j \in DOMAIN rx /\ rx'[j] = rx[j]
    BY <2>1, <2>2 DEF Queue, Ordered
  <2>3. CASE rx'[j] = f
    BY <1>1, <2>1, <2>3, Ids DEF Queue, Ordered
  <2> QED BY <1>3, <2>2, <2>3
<1>6. \A i \in DOMAIN rcvdq, j \in DOMAIN rx' : rcvdq[i].id < rx'[j].id
    BY <1>1, <1>3, Ids DEF Queue, Ordered
<1>7. /\ handled <= frames + 1
      /\ \A i \in DOMAIN rcvdq : handled < rcvdq[i].id /\ rcvdq[i].id <= frames + 1
    BY Ids DEF Queue, Ordered
<1>8. Ordered'
    BY <1>2, <1>4, <1>5, <1>6, <1>7 DEF Queue, Ordered
<1> QED BY <1>2, <1>8 DEF Queue, Sure

\* The chip's memory is emptied.
LEMMA ResetKeepsQueue ==
    ASSUME Queue, SoftReset, UNCHANGED <<rcvdq, handled, demux, frames>> PROVE Sure' /\ Ordered'
<1>1. rx' = <<>>
    BY DEF SoftReset
<1> QED BY <1>1 DEF Queue, Sure, Ordered

\* The first frame leaves the chip, and is the last packet of the queue or is dropped.
LEMMA IsrFrameKeepsQueue ==
    ASSUME Queue, IsrFrame PROVE Sure' /\ Ordered'
<1> DEFINE f == Head(rx)  p == [id |-> f.id, buf |-> Suitable(f.kind)]
<1>1. rx # <<>>
    BY DEF IsrFrame, Isr, Queue, Types, ChipTypes
<1>2. rx' = Tail(rx) /\ UNCHANGED <<handled, demux, frames>>
    BY DEF IsrFrame
<1>3. rcvdq' = rcvdq \/ rcvdq' = Append(rcvdq, p)
    BY DEF IsrFrame, putq
<1>4. f = rx[1] /\ 1 \in DOMAIN rx /\ f \in Frames
    BY <1>1, HeadTail, Ids DEF Queue
<1>5. p \in Packets /\ p.id = rx[1].id
    BY <1>4 DEF Packets, Frames, Suitable
<1> HIDE DEF f, p
<1>6. \A i \in DOMAIN rx' : i \in Nat /\ i + 1 \in DOMAIN rx /\ rx'[i] = rx[i + 1] /\ 1 < i + 1
    BY <1>1, <1>2, TailAt, Ids DEF Queue
<1>7. \A i \in DOMAIN rcvdq' : \/ i \in DOMAIN rcvdq /\ rcvdq'[i] = rcvdq[i]
                               \/ i = Len(rcvdq) + 1 /\ rcvdq'[i] = p
  <2>1. rcvdq \in Seq(Packets) /\ p \in Packets
    BY <1>5, Ids DEF Queue
  <2>2. CASE rcvdq' = Append(rcvdq, p)
    BY <2>1, <2>2, AppendedAt
  <2> QED BY <1>3, <2>2
<1>8. \A i \in DOMAIN rx' : handled < rx'[i].id /\ rx'[i].id <= frames
    BY <1>6 DEF Queue, Ordered
<1>9. \A i, j \in DOMAIN rx' : i < j => rx'[i].id < rx'[j].id
    BY <1>6 DEF Queue, Ordered
<1>10. \A i \in DOMAIN rcvdq' : handled < rcvdq'[i].id /\ rcvdq'[i].id <= frames
    BY <1>4, <1>5, <1>7 DEF Queue, Ordered
<1>11. \A i, j \in DOMAIN rcvdq' : i < j => rcvdq'[i].id < rcvdq'[j].id
  <2> SUFFICES ASSUME NEW i \in DOMAIN rcvdq', NEW j \in DOMAIN rcvdq', i < j
               PROVE  rcvdq'[i].id < rcvdq'[j].id
    OBVIOUS
  <2>1. i \in DOMAIN rcvdq /\ rcvdq'[i] = rcvdq[i]
    BY <1>7, Ids DEF Queue
  <2> QED BY <1>4, <1>5, <1>7, <2>1 DEF Queue, Ordered
<1>12. \A i \in DOMAIN rcvdq', j \in DOMAIN rx' : rcvdq'[i].id < rx'[j].id
  <2> SUFFICES ASSUME NEW i \in DOMAIN rcvdq', NEW j \in DOMAIN rx' PROVE rcvdq'[i].id < rx'[j].id
    OBVIOUS
  <2>1. j + 1 \in DOMAIN rx /\ rx'[j] = rx[j + 1] /\ 1 < j + 1
    BY <1>6
  <2>2. rx[1].id < rx[j + 1].id
    BY <1>4, <2>1 DEF Queue, Ordered
  <2> QED BY <1>5, <1>7, <2>1, <2>2 DEF Queue, Ordered
<1>13. Ordered'
    BY <1>2, <1>8, <1>9, <1>10, <1>11, <1>12 DEF Queue, Ordered
<1>14. rcvdq # <<>> => rcvdq' # <<>>
    BY <1>3, <1>5, Ids DEF Queue
<1> QED BY <1>2, <1>13, <1>14 DEF Queue, Sure

\* tk_netmain takes the first packet.
LEMMA DemuxDeqKeepsQueue ==
    ASSUME Queue, DemuxDeq PROVE Sure' /\ Ordered'
<1>1. rcvdq # <<>>
    BY DEF DemuxDeq, Queue, Sure
<1>2. /\ handled' = Head(rcvdq).id /\ rcvdq' = Tail(rcvdq) /\ demux' = "process"
      /\ UNCHANGED <<rx, frames>>
    BY <1>1 DEF DemuxDeq, chip
<1>3. handled' = rcvdq[1].id /\ 1 \in DOMAIN rcvdq
    BY <1>1, <1>2, HeadTail, Ids DEF Queue
<1>4. \A i \in DOMAIN rcvdq' :
          i \in Nat /\ i + 1 \in DOMAIN rcvdq /\ rcvdq'[i] = rcvdq[i + 1] /\ 1 < i + 1
    BY <1>1, <1>2, TailAt, Ids DEF Queue
<1>5. handled' <= frames /\ \A i \in DOMAIN rx : handled' < rx[i].id /\ rx[i].id <= frames
    BY <1>3 DEF Queue, Ordered
<1>6. \A i \in DOMAIN rcvdq' : handled' < rcvdq'[i].id /\ rcvdq'[i].id <= frames
    BY <1>3, <1>4 DEF Queue, Ordered
<1>7. \A i, j \in DOMAIN rcvdq' : i < j => rcvdq'[i].id < rcvdq'[j].id
    BY <1>4 DEF Queue, Ordered
<1>8. \A i \in DOMAIN rcvdq', j \in DOMAIN rx : rcvdq'[i].id < rx[j].id
    BY <1>4 DEF Queue, Ordered
<1>9. Ordered'
    BY <1>2, <1>5, <1>6, <1>7, <1>8 DEF Queue, Ordered
<1> QED BY <1>2, <1>9 DEF Sure

\* Every step.
LEMMA QueueKept == ASSUME Queue, [Next]_vars PROVE Queue'
<1> USE DEF vars, chip, stack
<1>1. ASSUME UNCHANGED <<rx, rcvdq, handled, frames>> PROVE Ordered'
    BY <1>1 DEF Queue, Ordered
<1>2. ASSUME UNCHANGED <<rcvdq, demux>> PROVE Sure'
    BY <1>2 DEF Queue, Sure
<1>3. CASE Network
    BY <1>1, <1>2, <1>3, ArriveKeepsQueue, TypesKept DEF Network, GoesWrong, Queue
<1>4. CASE TxDone \/ UNCHANGED vars \/ \E t \in Tasks : Lock(t) \/ Send(t)
  <2>1. UNCHANGED <<rx, rcvdq, handled, frames, demux>>
    BY <1>4 DEF TxDone, Lock, Send, AllocCheck, AllocGet, Select, Access, Finish
  <2> QED BY <1>1, <1>2, <2>1, TypesKept DEF Queue
<1>5. CASE Driver
  <2>1. \/ UNCHANGED <<rx, rcvdq, handled, frames, demux>>
        \/ SoftReset /\ UNCHANGED <<rcvdq, handled, demux, frames>>
        \/ IsrFrame
    BY <1>5 DEF Driver, dm9000a_isr, dm9000a_reset, alt_irq_register, Interrupt, IsrMask,
                IsrReady, IsrReset, IsrClear, IsrUnmask
  <2> QED BY <1>1, <1>2, <2>1, ResetKeepsQueue, IsrFrameKeepsQueue, TypesKept DEF Queue
<1>6. CASE DemuxDeq
    BY <1>6, DemuxDeqKeepsQueue, TypesKept DEF Queue
<1>7. CASE DemuxPend \/ DemuxCheck \/ Dispose
  <2>1. UNCHANGED <<rx, rcvdq, handled, frames>>
    BY <1>7 DEF DemuxPend, DemuxCheck, Dispose
  <2>2. Sure'
    BY <1>7 DEF DemuxPend, DemuxCheck, Pending, Dispose, Queue, Sure
  <2> QED BY <1>1, <2>1, <2>2, TypesKept DEF Queue
<1> QED BY <1>3, <1>4, <1>5, <1>6, <1>7 DEF Next, tk_netmain, DemuxProtocol, DemuxUnknown

\* Every step keeps the order, from the start.
LEMMA QueueAlways == Spec => []Queue
<1>1. Init => Queue
    BY InitQueue
<1>2. Queue /\ [Next]_vars => Queue'
    BY QueueKept
<1> QED BY <1>1, <1>2, PTL DEF Spec

\* tk_netmain never takes a packet from an empty queue.
THEOREM NeverNullPacket == Spec => []NoPanic
<1>1. Queue => NoPanic
    BY DEF Queue, Sure, NoPanic
<1> QED BY <1>1, QueueAlways, PTL

\* Packets reach the stack in the order of the wire, each at most once.
THEOREM PacketsInOrder == Spec => []InOrder
<1>1. Queue => InOrder
  <2> SUFFICES ASSUME Queue, NEW i \in DOMAIN rcvdq
               PROVE  rcvdq[i].id > IF i = 1 THEN handled ELSE rcvdq[i - 1].id
    BY DEF InOrder
  <2>1. handled < rcvdq[i].id /\ handled \in Nat /\ rcvdq[i].id \in Nat
    BY Ids DEF Queue, Ordered
  <2>2. CASE i # 1
    <3>1. i - 1 \in DOMAIN rcvdq /\ i - 1 < i
      BY <2>2, Ids DEF Queue
    <3>2. rcvdq[i - 1].id < rcvdq[i].id /\ rcvdq[i - 1].id \in Nat
      BY <3>1, Ids DEF Queue, Ordered
    <3> QED BY <2>1, <2>2, <3>2
  <2> QED BY <2>1, <2>2
<1> QED BY <1>1, QueueAlways, PTL

-----------------------------------------------------------------------------
(* The buffers.  They are counted: a step moves one from a place to another. *)

InQueue(q, b) == {i \in DOMAIN q : q[i].buf = b}
Holders(b) == {t \in Tasks : buf[t] = b /\ pc[t] # "getq"}
One(p) == IF p THEN 1 ELSE 0
Total(b) == IF b = "lil" THEN LilBufs ELSE BigBufs

\* The counts, as Owned adds them up.
LEMMA OwnedCounts ==
    ASSUME NEW b
    PROVE  Owned(b) <=> Cardinality(InQueue(rcvdq, b)) + Cardinality(Holders(b))
                        + One(held = b) + Free(b) = Total(b)
  BY DEF Owned, InQueue, Holders, One, Total

\* The same, after a step.
LEMMA OwnedCountsAfter ==
    ASSUME NEW b
    PROVE  Owned(b)' <=> Cardinality(InQueue(rcvdq', b)) + Cardinality(Holders(b)')
                         + One(held' = b) + Free(b)' = Total(b)
  BY DEF Owned, InQueue, Holders, One, Total

\* The queue holds finitely many buffers.
LEMMA InQueueFinite ==
    ASSUME NEW q \in Seq(Packets), NEW b
    PROVE  IsFiniteSet(InQueue(q, b)) /\ Cardinality(InQueue(q, b)) \in Nat
<1>1. DOMAIN q = 1 .. Len(q) /\ Len(q) \in Int
    OBVIOUS
<1>2. IsFiniteSet(1 .. Len(q))
    BY <1>1, FS_Interval
<1>3. InQueue(q, b) \in SUBSET (1 .. Len(q))
    BY <1>1 DEF InQueue
<1>4. IsFiniteSet(InQueue(q, b))
    BY <1>2, <1>3, FS_Subset
<1> QED BY <1>4, FS_CardinalityType

\* Finitely many tasks hold a buffer.
LEMMA HoldersFinite ==
    ASSUME NEW b
    PROVE  IsFiniteSet(Holders(b)) /\ Cardinality(Holders(b)) \in Nat
<1>1. Holders(b) \in SUBSET Tasks
    BY DEF Holders
<1>2. IsFiniteSet(Holders(b))
    BY <1>1, TasksAssumption, FS_Subset
<1> QED BY <1>2, FS_CardinalityType

\* putq adds its packet to the count.
LEMMA CountAppend ==
    ASSUME NEW q \in Seq(Packets), NEW p \in Packets, NEW b
    PROVE  Cardinality(InQueue(Append(q, p), b)) = Cardinality(InQueue(q, b)) + One(p.buf = b)
<1> DEFINE r == Append(q, p)
<1>1. DOMAIN r = DOMAIN q \cup {Len(q) + 1} /\ Len(q) + 1 \notin DOMAIN q
    OBVIOUS
<1>2. r[Len(q) + 1] = p /\ \A i \in DOMAIN q : r[i] = q[i]
    OBVIOUS
<1> HIDE DEF r
<1>3. CASE p.buf = b
  <2>1. InQueue(r, b) = InQueue(q, b) \cup {Len(q) + 1} /\ Len(q) + 1 \notin InQueue(q, b)
    BY <1>1, <1>2, <1>3 DEF InQueue
  <2>2. Cardinality(InQueue(r, b)) = Cardinality(InQueue(q, b)) + 1
    BY <2>1, InQueueFinite, FS_AddElement
  <2> QED BY <1>3, <2>2 DEF One, r
<1>4. CASE p.buf # b
  <2>1. InQueue(r, b) = InQueue(q, b)
    BY <1>1, <1>2, <1>4 DEF InQueue
  <2> QED BY <1>4, <2>1, InQueueFinite DEF One, r
<1> QED BY <1>3, <1>4

\* q_deq takes the first one from the count; the others move up by one.
LEMMA CountTail ==
    ASSUME NEW q \in Seq(Packets), q # <<>>, NEW b
    PROVE  Cardinality(InQueue(q, b)) = Cardinality(InQueue(Tail(q), b)) + One(Head(q).buf = b)
<1> DEFINE r == Tail(q)  A == InQueue(r, b)  B == InQueue(q, b) \ {1}
           f == [i \in A |-> i + 1]
<1>1. r \in Seq(Packets) /\ Head(q) = q[1] /\ 1 \in DOMAIN q
    BY HeadTail
<1>2. \A i \in DOMAIN r : i \in Nat /\ i + 1 \in DOMAIN q /\ r[i] = q[i + 1] /\ 1 < i + 1
    BY TailAt
<1>3. \A j \in DOMAIN q : j # 1 => j - 1 \in DOMAIN r /\ j = (j - 1) + 1
    OBVIOUS
<1> HIDE DEF r
<1>4. \A i \in A : i \in Nat /\ i + 1 \in B
    BY <1>2 DEF InQueue
<1>5. \A j \in B : j - 1 \in A /\ j = (j - 1) + 1
    BY <1>2, <1>3 DEF InQueue
<1>6. IsFiniteSet(A) /\ Cardinality(A) \in Nat /\ IsFiniteSet(InQueue(q, b)) /\ Cardinality(InQueue(q, b)) \in Nat
    BY <1>1, InQueueFinite
<1> HIDE DEF A, B
<1>7. f \in [A -> B] /\ \A i \in A : f[i] = i + 1
    BY <1>4
<1> HIDE DEF f
<1>8. f \in Injection(A, B)
    BY <1>4, <1>7 DEF Injection, IsInjective
<1>9. f \in Surjection(A, B)
    BY <1>5, <1>7 DEF Surjection
<1>10. Cardinality(B) = Cardinality(A)
    BY <1>6, <1>8, <1>9, FS_Bijection DEF ExistsBijection, Bijection
<1>11. Cardinality(B) = IF 1 \in InQueue(q, b) THEN Cardinality(InQueue(q, b)) - 1
                        ELSE Cardinality(InQueue(q, b))
    BY <1>6, FS_RemoveElement DEF B
<1>12. 1 \in InQueue(q, b) <=> Head(q).buf = b
    BY <1>1 DEF InQueue
<1> QED BY <1>6, <1>10, <1>11, <1>12 DEF One, A, r

Buffers == Queue /\ NoBufferLost

\* At the start all buffers are free.
LEMMA InitBuffers == Init => Buffers
<1> SUFFICES ASSUME Init PROVE Buffers
    OBVIOUS
<1>1. ASSUME NEW b \in {"lil", "big"} PROVE Owned(b)
  <2>1. InQueue(rcvdq, b) = {}
    BY DEF Init, InQueue
  <2>2. Holders(b) = {}
    BY TasksAssumption DEF Init, Holders
  <2>3. One(held = b) = 0
    BY TasksAssumption DEF Init, One
  <2>4. Free(b) = Total(b) /\ Total(b) \in Nat
    BY BufsAssumption DEF Init, Free, Total
  <2> QED BY <2>1, <2>2, <2>3, <2>4, FS_EmptySet, OwnedCounts
<1> QED BY <1>1, InitQueue DEF Buffers, NoBufferLost

\* What the counts of one kind of buffer are.
LEMMA CountTypes ==
    ASSUME Queue, NEW b \in {"lil", "big"}
    PROVE  /\ Cardinality(InQueue(rcvdq, b)) \in Nat /\ Cardinality(Holders(b)) \in Nat
           /\ One(held = b) \in Nat /\ Free(b) \in Nat /\ Total(b) \in Nat
<1>1. rcvdq \in Seq(Packets)
    BY Ids DEF Queue
<1>2. Free(b) \in Nat /\ Total(b) \in Nat
    BY BufsAssumption DEF Queue, Types, StackTypes, Free, Total
<1> QED BY <1>1, <1>2, InQueueFinite, HoldersFinite DEF One

\* The same, after a step.
LEMMA CountTypesAfter ==
    ASSUME Queue', NEW b \in {"lil", "big"}
    PROVE  /\ Cardinality(InQueue(rcvdq', b)) \in Nat /\ Cardinality(Holders(b)') \in Nat
           /\ One(held' = b) \in Nat /\ Free(b)' \in Nat
<1>1. rcvdq' \in Seq(Packets)
    BY DEF Queue, Types, StackTypes
<1>2. Free(b)' \in Nat
    BY DEF Queue, Types, StackTypes, Free
<1>3. Holders(b)' \in SUBSET Tasks
    BY DEF Holders
<1>4. IsFiniteSet(Holders(b)')
    BY <1>3, TasksAssumption, FS_Subset
<1> QED BY <1>1, <1>2, <1>4, InQueueFinite, FS_CardinalityType DEF One

\* A step that moves a buffer keeps the sum.
LEMMA Moved ==
    ASSUME Buffers, Queue', NEW c \in {"lil", "big"},
           NEW q \in Int, NEW h \in Int, NEW o \in Int, NEW f \in Int, q + h + o + f = 0,
           Cardinality(InQueue(rcvdq', c)) = Cardinality(InQueue(rcvdq, c)) + q,
           Cardinality(Holders(c)') = Cardinality(Holders(c)) + h,
           One(held' = c) = One(held = c) + o,
           Free(c)' = Free(c) + f
    PROVE  Owned(c)'
<1>1. Owned(c) /\ Queue
    BY DEF Buffers, NoBufferLost
<1>2. Cardinality(InQueue(rcvdq, c)) + Cardinality(Holders(c)) + One(held = c) + Free(c) = Total(c)
    BY <1>1, OwnedCounts
<1>3. /\ Cardinality(InQueue(rcvdq, c)) \in Nat /\ Cardinality(Holders(c)) \in Nat
      /\ One(held = c) \in Nat /\ Free(c) \in Nat /\ Total(c) \in Nat
    BY <1>1, CountTypes
<1> DEFINE a == Cardinality(InQueue(rcvdq, c))  b == Cardinality(Holders(c))
           d == One(held = c)  e == Free(c)  T == Total(c)
<1>4. a + b + d + e = T /\ a \in Nat /\ b \in Nat /\ d \in Nat /\ e \in Nat
    BY <1>2, <1>3
<1>5. Cardinality(InQueue(rcvdq', c)) + Cardinality(Holders(c)') + One(held' = c) + Free(c)'
      = (a + q) + (b + h) + (d + o) + (e + f)
    OBVIOUS
<1> HIDE DEF a, b, d, e, T
<1>6. (a + q) + (b + h) + (d + o) + (e + f) = T
    BY <1>4
<1>7. T = Total(c)
    BY DEF T
<1> QED BY <1>5, <1>6, <1>7, OwnedCountsAfter

\* Taking and giving back a buffer.
LEMMA TakeCounts ==
    ASSUME Queue, NEW b \in {"lil", "big"}, NEW c \in {"lil", "big"}
    PROVE  /\ Take(b) => Free(c) = Free(c)' + One(b = c)
           /\ GiveBack(b) => Free(c)' = Free(c) + One(b = c)
           /\ UNCHANGED pool => Free(c)' = Free(c)
  BY DEF Queue, Types, StackTypes, Take, GiveBack, Free, One, pool

\* A received packet: the buffer goes from the free ones to the queue.
LEMMA IsrFrameKeepsBuffers ==
    ASSUME Buffers, Queue', IsrFrame, NEW c \in {"lil", "big"} PROVE Owned(c)'
<1> DEFINE f == Head(rx)  b == Suitable(f.kind)  p == [id |-> f.id, buf |-> b]
<1>0. rx # <<>>
    BY DEF IsrFrame, Isr, Buffers, Queue, Types, ChipTypes
<1>1. f \in Frames
    BY <1>0, HeadTail, Ids DEF Buffers, Queue
<1>2. b \in {"lil", "big"} /\ p \in Packets /\ p.buf = b
    BY <1>1 DEF Packets, Frames, Suitable
<1>3. \/ UNCHANGED <<pool, rcvdq>>
      \/ Take(b) /\ rcvdq' = Append(rcvdq, p)
    BY DEF IsrFrame, IsrAlloc, putq
<1>4. UNCHANGED <<held, pc, buf>>
    BY DEF IsrFrame, senders
<1> HIDE DEF f, b, p
<1>5. One(b = c) \in Nat
    BY DEF One
<1>6. /\ Cardinality(Holders(c)') = Cardinality(Holders(c)) + 0 /\ One(held' = c) = One(held = c) + 0
      /\ Cardinality(InQueue(rcvdq, c)) \in Nat /\ Free(c) \in Nat
  <2>1. Holders(c)' = Holders(c) /\ One(held' = c) = One(held = c)
    BY <1>4 DEF Holders
  <2> QED BY <2>1, CountTypes DEF Buffers
<1>7. CASE UNCHANGED <<pool, rcvdq>>
  <2>1. Free(c)' = Free(c) + 0 /\ Cardinality(InQueue(rcvdq', c)) = Cardinality(InQueue(rcvdq, c)) + 0
    BY <1>2, <1>6, <1>7, TakeCounts DEF Buffers
  <2> QED BY <1>6, <2>1, Moved
<1>8. CASE Take(b) /\ rcvdq' = Append(rcvdq, p)
  <2> DEFINE d == One(b = c)
  <2>1. Free(c) = Free(c)' + d
    BY <1>2, <1>8, TakeCounts DEF Buffers
  <2>2. Cardinality(InQueue(rcvdq', c)) = Cardinality(InQueue(rcvdq, c)) + d
    BY <1>2, <1>8, CountAppend, Ids DEF Buffers, Queue
  <2>3. Free(c)' \in Nat
    BY CountTypesAfter
  <2> HIDE DEF d
  <2>4. d \in Int /\ 0 - d \in Int /\ d + 0 + 0 + (0 - d) = 0
    BY <1>5 DEF d
  <2>5. Free(c)' = Free(c) + (0 - d)
    BY <1>6, <2>1, <2>3, <2>4
  <2> QED BY <1>6, <2>2, <2>4, <2>5, Moved
<1> QED BY <1>3, <1>7, <1>8

\* tk_netmain takes a packet from the queue, and disposes of it.
LEMMA DemuxKeepsBuffers ==
    ASSUME Buffers, Queue', DemuxDeq \/ Dispose, NEW c \in {"lil", "big"} PROVE Owned(c)'
<1>0. c # None
    BY TasksAssumption
<1>1. UNCHANGED <<pc, buf>>
    BY DEF DemuxDeq, Dispose, senders
<1>2. Cardinality(Holders(c)') = Cardinality(Holders(c)) + 0
  <2>1. Holders(c)' = Holders(c)
    BY <1>1 DEF Holders
  <2> QED BY <2>1, HoldersFinite
<1>3. /\ Cardinality(InQueue(rcvdq, c)) \in Nat /\ One(held = c) \in Nat /\ Free(c) \in Nat
      /\ Cardinality(InQueue(rcvdq', c)) \in Nat /\ One(held' = c) \in Nat /\ Free(c)' \in Nat
    BY CountTypes, CountTypesAfter DEF Buffers
<1>4. CASE DemuxDeq
  <2>1. rcvdq # <<>> /\ held = None
    BY <1>4 DEF DemuxDeq, Buffers, Queue, Sure, Types, StackTypes
  <2>2. held' = Head(rcvdq).buf /\ rcvdq' = Tail(rcvdq) /\ UNCHANGED pool
    BY <1>4, <2>1 DEF DemuxDeq
  <2> DEFINE d == One(held' = c)
  <2>3. Cardinality(InQueue(rcvdq, c)) = Cardinality(InQueue(rcvdq', c)) + d
    BY <2>1, <2>2, CountTail, Ids DEF Buffers, Queue
  <2>4. One(held = c) = 0
    BY <1>0, <2>1 DEF One
  <2>5. Free(c)' = Free(c)
    BY <2>2, TakeCounts DEF Buffers
  <2>6. d \in Nat /\ One(held' = c) = d
    BY <1>3
  <2> HIDE DEF d
  <2>7. 0 - d \in Int /\ d \in Int /\ (0 - d) + 0 + d + 0 = 0
    BY <2>6
  <2>8. /\ Cardinality(InQueue(rcvdq', c)) = Cardinality(InQueue(rcvdq, c)) + (0 - d)
        /\ One(held' = c) = One(held = c) + d /\ Free(c)' = Free(c) + 0
    BY <1>3, <2>3, <2>4, <2>5, <2>6
  <2> QED BY <1>2, <2>7, <2>8, Moved
<1>5. CASE Dispose
  <2>1. held \in {"lil", "big"}
    BY <1>5 DEF Dispose, Buffers, Queue, Types, StackTypes
  <2>2. GiveBack(held) /\ held' = None /\ UNCHANGED rcvdq
    BY <1>5 DEF Dispose
  <2> DEFINE d == One(held = c)
  <2>3. Free(c)' = Free(c) + d
    BY <2>1, <2>2, TakeCounts DEF Buffers
  <2>4. One(held' = c) = 0
    BY <1>0, <2>2 DEF One
  <2>5. d \in Nat /\ One(held = c) = d
    BY <1>3
  <2>6. Cardinality(InQueue(rcvdq', c)) = Cardinality(InQueue(rcvdq, c))
    BY <2>2
  <2> HIDE DEF d
  <2>7. 0 - d \in Int /\ d \in Int /\ 0 + 0 + (0 - d) + d = 0
    BY <2>5
  <2>8. /\ Cardinality(InQueue(rcvdq', c)) = Cardinality(InQueue(rcvdq, c)) + 0
        /\ One(held' = c) = One(held = c) + (0 - d) /\ Free(c)' = Free(c) + d
    BY <1>3, <2>3, <2>4, <2>5, <2>6
  <2> QED BY <1>2, <2>7, <2>8, Moved
<1> QED BY <1>4, <1>5

\* A step that leaves every buffer where it is.
LEMMA NothingMoved ==
    ASSUME Buffers, NEW c \in {"lil", "big"}, UNCHANGED <<rcvdq, held, pool>>, Holders(c)' = Holders(c)
    PROVE  Owned(c)'
<1>1. Free(c)' = Free(c)
    BY DEF Free, pool
<1>2. Owned(c)
    BY DEF Buffers, NoBufferLost
<1> QED BY <1>1, <1>2, OwnedCounts, OwnedCountsAfter

\* The senders: pk_alloc and pk_free.
LEMMA SendersKeepBuffers ==
    ASSUME Buffers, Queue', NEW t \in Tasks, Lock(t) \/ Send(t), NEW c \in {"lil", "big"}
    PROVE  Owned(c)'
<1>0. c # None
    BY TasksAssumption
<1>1. UNCHANGED <<rcvdq, held>>
    BY DEF Lock, Send, AllocCheck, AllocGet, Select, Access, Finish, stack
<1>2. /\ pc \in [Tasks -> Places] /\ buf \in [Tasks -> {"lil", "big", None}]
      /\ \A u \in Tasks : buf[u] = None <=> pc[u] \in {"idle", "alloc"}
    BY DEF Buffers, Queue, Types, SenderTypes
<1>3. \A u \in Tasks \ {t} : pc'[u] = pc[u] /\ buf'[u] = buf[u]
    BY <1>2 DEF Lock, Send, AllocCheck, AllocGet, Select, Access, Finish, Goto, senders
<1>4. ASSUME UNCHANGED pool, t \in Holders(c) <=> buf'[t] = c /\ pc'[t] # "getq" PROVE Owned(c)'
  <2>1. Holders(c)' = Holders(c)
    BY <1>3, <1>4 DEF Holders
  <2> QED BY <1>1, <1>4, <2>1, NothingMoved
<1>5. CASE Lock(t)
  <2>1. pc[t] = "idle" /\ UNCHANGED <<buf, pool>>
    BY <1>5 DEF Lock
  <2> QED BY <1>0, <1>2, <1>4, <2>1 DEF Holders
<1>6. ASSUME NEW k \in {"small", "large"}, AllocCheck(t, k) PROVE Owned(c)'
  <2>1. pc[t] = "alloc" /\ pc'[t] = "getq" /\ UNCHANGED pool
    BY <1>2, <1>6 DEF AllocCheck, Goto
  <2> QED BY <1>0, <1>2, <1>4, <2>1 DEF Holders
<1>7. CASE Select(t)
  <2>1. UNCHANGED <<buf, pc, pool>>
    BY <1>7 DEF Select
  <2> QED BY <1>4, <2>1 DEF Holders
<1>8. CASE Access(t)
  <2>1. pc[t] \in {"imr_off"} \cup MaskedPlaces
    BY <1>8, AccessPlaces DEF Access, MaskedPlaces
  <2>2. pc'[t] \in MaskedPlaces \cup {"done"}
    BY <1>2, <1>8, <2>1, NextPlaces DEF Access, Goto, MaskedPlaces
  <2>3. UNCHANGED <<buf, pool>>
    BY <1>8 DEF Access
  <2> QED BY <1>4, <2>1, <2>2, <2>3 DEF Holders, MaskedPlaces
<1>9. /\ One(held' = c) = One(held = c) + 0
      /\ Cardinality(InQueue(rcvdq', c)) = Cardinality(InQueue(rcvdq, c)) + 0
      /\ Cardinality(Holders(c)) \in Nat /\ Free(c) \in Nat /\ Free(c)' \in Nat
      /\ IsFiniteSet(Holders(c))
    BY <1>1, CountTypes, CountTypesAfter, HoldersFinite DEF Buffers
<1>10. CASE AllocGet(t)
  <2>1. pc[t] = "getq" /\ t \notin Holders(c) /\ buf[t] \in {"lil", "big"}
    BY <1>2, <1>10 DEF AllocGet, Holders
  <2>2. CASE Free(buf[t]) = 0
    <3>1. UNCHANGED pool /\ buf'[t] = None
      BY <1>2, <1>10, <2>2 DEF AllocGet
    <3> QED BY <1>0, <1>4, <2>1, <3>1
  <2>3. CASE Free(buf[t]) > 0
    <3> DEFINE d == One(buf[t] = c)
    <3>1. Take(buf[t]) /\ pc'[t] = "imr_off" /\ UNCHANGED buf
      BY <1>2, <1>10, <2>3 DEF AllocGet, Goto
    <3>2. Free(c) = Free(c)' + d
      BY <2>1, <3>1, TakeCounts DEF Buffers
    <3>3. Cardinality(Holders(c)') = Cardinality(Holders(c)) + d
      <4>1. CASE buf[t] = c
        <5>1. Holders(c)' = Holders(c) \cup {t}
          BY <1>3, <3>1, <4>1 DEF Holders
        <5> QED BY <1>9, <2>1, <4>1, <5>1, FS_AddElement DEF One
      <4>2. CASE buf[t] # c
        <5>1. Holders(c)' = Holders(c)
          BY <1>3, <3>1, <4>2 DEF Holders
        <5> QED BY <1>9, <4>2, <5>1 DEF One
      <4> QED BY <4>1, <4>2
    <3>4. d \in Nat
      BY DEF One
    <3> HIDE DEF d
    <3>5. d \in Int /\ 0 - d \in Int /\ 0 + d + 0 + (0 - d) = 0
      BY <3>4
    <3>6. Free(c)' = Free(c) + (0 - d)
      BY <1>9, <3>2, <3>4
    <3> QED BY <1>9, <3>3, <3>5, <3>6, Moved
  <2>4. Free(buf[t]) \in Nat
    BY <2>1, CountTypes DEF Buffers
  <2> QED BY <2>2, <2>3, <2>4
<1>11. CASE Finish(t)
  <2> DEFINE d == One(buf[t] = c)
  <2>1. pc[t] = "done" /\ GiveBack(buf[t]) /\ buf'[t] = None /\ buf[t] \in {"lil", "big"}
    BY <1>2, <1>11 DEF Finish
  <2>2. Free(c)' = Free(c) + d
    BY <2>1, TakeCounts DEF Buffers
  <2>3. Cardinality(Holders(c)) = Cardinality(Holders(c)') + d
    <3>1. Holders(c)' = Holders(c) \ {t} /\ (t \in Holders(c) <=> buf[t] = c)
      BY <1>0, <1>3, <2>1 DEF Holders
    <3>2. Cardinality(Holders(c)') =
              IF t \in Holders(c) THEN Cardinality(Holders(c)) - 1 ELSE Cardinality(Holders(c))
      BY <1>9, <3>1, FS_RemoveElement
    <3>3. d = IF t \in Holders(c) THEN 1 ELSE 0
      BY <3>1 DEF One
    <3> QED BY <1>9, <3>2, <3>3
  <2>4. d \in Nat /\ Cardinality(Holders(c)') \in Nat
    BY CountTypesAfter DEF One
  <2> HIDE DEF d
  <2>5. d \in Int /\ 0 - d \in Int /\ 0 + (0 - d) + 0 + d = 0
    BY <2>4
  <2>6. Cardinality(Holders(c)') = Cardinality(Holders(c)) + (0 - d)
    BY <1>9, <2>3, <2>4
  <2> QED BY <1>9, <2>2, <2>5, <2>6, Moved
<1> QED BY <1>5, <1>6, <1>7, <1>8, <1>10, <1>11 DEF Send

\* Every step.
LEMMA BuffersKept == ASSUME Buffers, [Next]_vars PROVE Buffers'
<1> USE DEF vars, stack, senders
<1>1. Queue'
    BY QueueKept DEF Buffers
<1>2. SUFFICES ASSUME NEW c \in {"lil", "big"} PROVE Owned(c)'
    BY <1>1 DEF Buffers, NoBufferLost
<1>3. ASSUME UNCHANGED <<rcvdq, held, pool, pc, buf>> PROVE Owned(c)'
  <2>1. Holders(c)' = Holders(c)
    BY <1>3 DEF Holders
  <2> QED BY <1>3, <2>1, NothingMoved
<1>4. CASE IsrFrame
    BY <1>1, <1>4, IsrFrameKeepsBuffers
<1>5. CASE DemuxDeq \/ Dispose
    BY <1>1, <1>5, DemuxKeepsBuffers
<1>6. CASE \E t \in Tasks : Lock(t) \/ Send(t)
    BY <1>1, <1>6, SendersKeepBuffers
<1>7. CASE Network \/ TxDone \/ UNCHANGED vars \/ DemuxPend \/ DemuxCheck
  <2>1. UNCHANGED <<rcvdq, held, pool, pc, buf>>
    BY <1>7 DEF Network, GoesWrong, Arrive, TxDone, DemuxPend, DemuxCheck
  <2> QED BY <1>3, <2>1
<1>8. CASE Driver
  <2>1. UNCHANGED <<rcvdq, held, pool, pc, buf>> \/ IsrFrame
    BY <1>8 DEF Driver, dm9000a_isr, dm9000a_reset, alt_irq_register, Interrupt, IsrMask,
                IsrReady, IsrReset, IsrClear, IsrUnmask
  <2> QED BY <1>3, <1>4, <2>1
<1> QED BY <1>5, <1>6, <1>7, <1>8 DEF Next, tk_netmain, DemuxProtocol, DemuxUnknown

\* Every state of the driver.
LEMMA BuffersAlways == Spec => []Buffers
<1>1. Init => Buffers
    BY InitBuffers
<1>2. Buffers /\ [Next]_vars => Buffers'
    BY BuffersKept
<1> QED BY <1>1, <1>2, PTL DEF Spec

\* No buffer is lost, and none is in two places, for any number of buffers and tasks.
THEOREM BuffersAccounted == Spec => []NoBufferLost
<1>1. Buffers => NoBufferLost
    BY DEF Buffers
<1> QED BY <1>1, BuffersAlways, PTL

\* The state keeps its types, and no queue of free buffers grows beyond its buffers.
THEOREM TypesHold == Spec => []TypeOK
<1>1. Buffers => TypeOK
  <2> SUFFICES ASSUME Buffers PROVE TypeOK
    OBVIOUS
  <2>1. ChipTypes /\ StackTypes /\ SenderTypes
    BY DEF Buffers, Queue, Types
  <2>2. \A b \in {"lil", "big"} : Free(b) <= Total(b)
    BY OwnedCounts, CountTypes DEF Buffers, NoBufferLost
  <2>3. lilfreeq \in 0 .. LilBufs /\ bigfreeq \in 0 .. BigBufs
    BY <2>1, <2>2, BufsAssumption DEF StackTypes, Free, Total
  <2>4. index \in {"NCR", "2D", "IMR", "MRCMDX", "MRCMD", "RCR", "ISR"}
                  \cup {Register[p] : p \in DOMAIN Register}
    BY <2>1 DEF ChipTypes, Indexes, Register
  <2>5. Places = {"idle", "alloc", "getq"} \cup ToSet(Order)
    <3>1. ToSet(Order) = {Order[i] : i \in 1 .. 9}
      BY DEF ToSet, Order
    <3> QED BY <3>1 DEF Places, Order
  <2>6. {imr, prs, strange, txend, late, spurious} \subseteq BOOLEAN
    BY <2>1 DEF ChipTypes
  <2> QED BY <2>1, <2>3, <2>4, <2>5, <2>6 DEF TypeOK, ChipTypes, StackTypes, SenderTypes
<1> QED BY <1>1, BuffersAlways, PTL
=============================================================================
