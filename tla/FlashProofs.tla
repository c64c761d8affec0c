----------------------------- MODULE FlashProofs -----------------------------
(***************************************************************************)
(* Proofs about the driver and the device together, for any number of      *)
(* processes, patient or not, and any calls.                               *)
(***************************************************************************)
EXTENDS Flash, DeviceProofs, SequenceTheorems

(* A call in progress: the loop variables of r04flash_read and             *)
(* r04flash_write stay inside the caller's buffer.                         *)
CallOK(p) ==
    /\ fpc[p] = "idle" => req[p] = NoCall /\ pos[p] = 0
    /\ fpc[p] # "idle" => req[p] \in Calls(p)
    /\ pos[p] <= req[p].count
    /\ fpc[p] \notin {"idle", "loop"} => pos[p] < req[p].count
    /\ fpc[p] = "fill" => p \in Writers
    /\ fpc[p] = "copy" => p \in Readers
    /\ p \in Readers => pos[p] <= Len(userbuf[p])
    /\ p \in Readers /\ fpc[p] = "check" => pos[p] + Chunk(p).size <= Len(userbuf[p])

CallsOK == \A p \in Procs : CallOK(p)

FlashInv == DeviceInv /\ DriverTypeOK /\ CallsOK

-----------------------------------------------------------------------------
(* A process is in a call it may make, or in none. *)
LEMMA RequestTypes ==
    ASSUME DriverTypeOK, NEW p \in Procs
    PROVE  req[p] \in [addr : Nat, count : Nat, data : Seq(Values)]
<1>1. NoCall \in [addr : Nat, count : Nat, data : Seq(Values)]
  BY EmptySeq DEF NoCall
<1>. QED  BY <1>1, FlashAssumption DEF DriverTypeOK

(* A chunk fits the rest of the call, whatever the maximum; it need not    *)
(* fit the window.                                                         *)
LEMMA ChunkFits ==
    ASSUME DriverTypeOK, CallsOK, NEW p \in Procs, pos[p] < req[p].count
    PROVE  /\ Chunk(p).size \in Nat
           /\ pos[p] + Chunk(p).size <= req[p].count
           /\ Chunk(p).addr \in Nat
<1>1. /\ req[p].addr \in Nat /\ req[p].count \in Nat
      /\ pos[p] \in Nat /\ MaxSize[Side(p)] \in Nat
  BY RequestTypes, FlashAssumption DEF DriverTypeOK, Side, Threads
<1>. QED  BY <1>1 DEF Chunk, Left

(* What the host may do to the device: it writes registers and wr_data and *)
(* takes the MSI.                                                          *)
LEMMA HostSteps ==
    ASSUME DeviceInv,
           UNCHANGED <<epc, loaded, cmd, copied, storage, rd_data, msgs, lockVars>>,
           ctrl' \in [Threads -> BOOLEAN], status' \in [Threads -> SUBSET Flags],
           desc' \in [Threads -> [addr : Nat, size : Nat]],
           wr_data' \in [0..WinSize - 1 -> Values], msi' \in BOOLEAN
    PROVE  DeviceInv'
<1>1. LockTypeOK'
  BY TypeStep DEF DeviceInv, DeviceTypeOK
<1>. QED  BY <1>1 DEF DeviceInv, DeviceTypeOK, CopiesInsideStorage

(* What leaves the device alone keeps its invariant. *)
LEMMA DeviceUnchanged ==
    ASSUME DeviceInv, UNCHANGED deviceVars
    PROVE  DeviceInv' /\ UNCHANGED lockVars
<1>1. UNCHANGED lockVars
  BY DEF deviceVars
<1>. QED
  BY <1>1, HostSteps
     DEF deviceVars, csrVars, engineVars, dataVars, wireVars, DeviceInv, DeviceTypeOK

(* The invariant holds after probe. *)
LEMMA FlashInitInv == FlashInit => FlashInv
<1> SUFFICES ASSUME FlashInit PROVE FlashInv
  OBVIOUS
<1>1. DeviceInv
  BY DeviceInitInv DEF FlashInit
<1>2. DriverTypeOK
  BY EmptySeq DEF FlashInit, DriverTypeOK, TestPC
<1>3. CallsOK
  BY EmptySeq DEF FlashInit, CallsOK, CallOK, NoCall
<1>. QED  BY <1>1, <1>2, <1>3 DEF FlashInv

-----------------------------------------------------------------------------
(* Ending a call, with the mutex released or not. *)
LEMMA ReturnStep ==
    ASSUME FlashInv, NEW p \in Procs, NEW n \in Int, NEW here, Return(p, here, n),
           UNCHANGED <<deviceVars, done, irqVars>>,
           mutex' \in [Threads -> Procs \cup {Nobody}]
    PROVE  UNCHANGED deviceVars /\ DriverTypeOK' /\ CallsOK'
<1>1. \A q \in Procs : pos[q] \in Nat /\ req[q].count \in Nat
  BY RequestTypes DEF FlashInv, DriverTypeOK
<1>2. DriverTypeOK'
  BY EmptySeq DEF FlashInv, DriverTypeOK, Return, At, irqVars
<1>3. CallsOK'
  BY <1>1, EmptySeq
     DEF FlashInv, DriverTypeOK, CallsOK, CallOK, Return, At, Chunk, Left, Calls, NoCall
<1>. QED  BY <1>2, <1>3

(* Ending a call with an error: the mutex is free again. *)
LEMMA ReturnErrorStep ==
    ASSUME FlashInv, NEW p \in Procs, NEW code \in Int, NEW here, ReturnError(p, here, code),
           UNCHANGED <<deviceVars, done, irqVars>>
    PROVE  UNCHANGED deviceVars /\ DriverTypeOK' /\ CallsOK'
<1>1. mutex' \in [Threads -> Procs \cup {Nobody}]
  BY DEF FlashInv, DriverTypeOK, ReturnError, Side, Threads
<1>2. Return(p, here, IF p \in Readers THEN 0 ELSE code)
  BY DEF ReturnError
<1>3. (IF p \in Readers THEN 0 ELSE code) \in Int
  OBVIOUS
<1>. QED  BY <1>1, <1>2, <1>3, ReturnStep

(* The calls that end here and now. *)
LEMMA EndingSteps ==
    ASSUME FlashInv, NEW p \in Procs,
           ReturnAll(p) \/ LockInterrupted(p) \/ WaitCutShort(p) \/ BadUserBuffer(p)
             \/ CheckError(p)
    PROVE  UNCHANGED deviceVars /\ DriverTypeOK' /\ CallsOK'
<1>1. CASE ReturnAll(p) \/ LockInterrupted(p)
  <2>1. mutex' = mutex /\ UNCHANGED <<deviceVars, done, irqVars>>
    BY <1>1 DEF ReturnAll, LockInterrupted
  <2>2. \E n \in Int : Return(p, "loop", n)
    BY <1>1 DEF ReturnAll, LockInterrupted, EINTR, FlashInv, DriverTypeOK
  <2>3. mutex' \in [Threads -> Procs \cup {Nobody}]
    BY <2>1 DEF FlashInv, DriverTypeOK
  <2>. QED  BY <2>1, <2>2, <2>3, ReturnStep
<1>2. CASE WaitCutShort(p) \/ BadUserBuffer(p) \/ CheckError(p)
  <2>1. UNCHANGED <<deviceVars, done, irqVars>>
    BY <1>2 DEF WaitCutShort, BadUserBuffer, CheckError
  <2>2. EFAULT \in Int /\ ETIMEDOUT \in Int /\ ADDRINVAL \in Int /\ SIZEINVAL \in Int
    BY DEF EFAULT, ETIMEDOUT, ADDRINVAL, SIZEINVAL
  <2>3. \E here : \E code \in Int : ReturnError(p, here, code)
    BY <1>2, <2>2 DEF WaitCutShort, BadUserBuffer, CheckError
  <2>. QED  BY <2>1, <2>3, ReturnErrorStep
<1>. QED  BY <1>1, <1>2

(* The other steps of a call that leave the device alone. *)
LEMMA LocalSteps ==
    ASSUME FlashInv, NEW p \in Procs, Call(p) \/ Completed(p) \/ NextChunk(p)
    PROVE  UNCHANGED deviceVars /\ DriverTypeOK' /\ CallsOK'
<1> USE DEF FlashInv, DriverTypeOK, CallsOK, CallOK, At, Procs
<1>a. Side(p) \in Threads
  BY DEF Side, Threads
<1>b. /\ req[p].addr \in Nat /\ req[p].count \in Nat
      /\ \A q \in Procs : pos[q] \in Nat /\ req[q].count \in Nat
  BY RequestTypes
<1>1. CASE Call(p)
  <2>1. PICK c \in Calls(p) : req' = [req EXCEPT ![p] = c]
    BY <1>1 DEF Call
  <2>2. c \in ReadCalls \cup WriteCalls /\ c.count \in Nat
    BY FlashAssumption DEF Calls
  <2>3. DriverTypeOK'
    BY <1>1, <2>1, <2>2 DEF Call, irqVars
  <2>4. CallsOK'
    BY <1>1, <1>b, <2>1, <2>2 DEF Call, Calls, Chunk, Left
  <2>. QED  BY <1>1, <2>3, <2>4 DEF Call
<1>2. CASE Completed(p)
  <2>1. DriverTypeOK'
    BY <1>2, <1>a DEF Completed, irqVars
  <2>2. CallsOK'
    BY <1>2, <1>b DEF Completed, Calls, Chunk, Left
  <2>. QED  BY <1>2, <2>1, <2>2 DEF Completed
<1>3. CASE NextChunk(p)
  <2>1. Chunk(p).size \in Nat /\ pos[p] + Chunk(p).size <= req[p].count
    BY <1>3, ChunkFits DEF NextChunk
  <2>2. DriverTypeOK'
    BY <1>3, <1>a, <1>b, <2>1 DEF NextChunk, irqVars
  <2>3. CallsOK'
    <3>1. /\ pos[p] + Chunk(p).size \in Nat
          /\ p \in Readers => pos[p] + Chunk(p).size <= Len(userbuf[p])
      BY <1>3, <1>b, <2>1 DEF NextChunk
    <3>. QED  BY <1>3, <1>b, <2>1, <3>1 DEF NextChunk, Calls, Chunk, Left
  <2>. QED  BY <1>3, <2>2, <2>3 DEF NextChunk
<1>. QED  BY <1>1, <1>2, <1>3

(* A chunk is a sequence of bytes of its size. *)
LEMMA ChunkSequence ==
    ASSUME NEW n \in Nat, NEW c \in [1..n -> Values]
    PROVE  c \in Seq(Values) /\ Len(c) = n
<1>1. c \in Seq(Values)
  BY SeqDef, Zenon
<1>. QED  BY <1>1, LenProperties

(* What memcpy_fromio finds, inside the window and behind it, are bytes.   *)
LEMMA WindowBytes ==
    ASSUME DeviceInv, NEW n \in Nat, NEW beyond \in [2 * WinSize..n - 1 -> Values],
           NEW i \in 1..n
    PROVE  WindowByte(i - 1, beyond) \in Values
<1>1. CASE i - 1 < WinSize
  BY <1>1, DeviceAssumption DEF WindowByte, DeviceInv, DeviceTypeOK
<1>2. CASE ~(i - 1 < WinSize) /\ i - 1 < 2 * WinSize
  BY <1>2, DeviceAssumption DEF WindowByte, DeviceInv, DeviceTypeOK
<1>3. CASE ~(i - 1 < WinSize) /\ ~(i - 1 < 2 * WinSize)
  <2>1. i - 1 \in 2 * WinSize..n - 1
    BY <1>3, DeviceAssumption
  <2>. QED  BY <1>3, <2>1 DEF WindowByte
<1>. QED  BY <1>1, <1>2, <1>3

(* copy_to_user puts the chunk behind the earlier ones in the buffer. *)
LEMMA CopyOutStep ==
    ASSUME FlashInv, NEW p \in Procs, CopyOut(p)
    PROVE  UNCHANGED deviceVars /\ DriverTypeOK' /\ CallsOK'
<1>0. PICK beyond \in [2 * WinSize..Chunk(p).size - 1 -> Values] :
         userbuf' = [userbuf EXCEPT ![p] =
             SubSeq(@, 1, pos[p]) \o [i \in 1..Chunk(p).size |-> WindowByte(i - 1, beyond)]]
  BY DEF CopyOut
<1> DEFINE size == Chunk(p).size
           chunk == [i \in 1..size |-> WindowByte(i - 1, beyond)]
           front == SubSeq(userbuf[p], 1, pos[p])
<1>1. /\ size \in Nat /\ pos[p] \in Nat
      /\ \A q \in Procs : pos[q] \in Nat /\ req[q].count \in Nat
  BY ChunkFits, RequestTypes DEF CopyOut, At, FlashInv, DriverTypeOK, CallsOK, CallOK
<1>2. \A i \in 1..size : WindowByte(i - 1, beyond) \in Values
  BY <1>1, WindowBytes DEF FlashInv
<1>3. chunk \in Seq(Values) /\ Len(chunk) = size
  <2>1. size \in Nat /\ chunk \in [1..size -> Values]
    BY <1>1, <1>2
  <2> HIDE DEF size, chunk
  <2>. QED  BY <2>1, ChunkSequence
<1>4. userbuf[p] \in Seq(Values)
  BY DEF FlashInv, DriverTypeOK
<1>5. front \in Seq(Values) /\ Len(front) = pos[p]
  <2>1. pos[p] <= Len(userbuf[p])
    BY DEF FlashInv, CallsOK, CallOK, CopyOut, At
  <2>2. \A i \in 1..pos[p] : userbuf[p][i] \in Values
    BY <1>1, <1>4, <2>1, ElementOfSeq
  <2>. QED  BY <1>1, <2>2, SubSeqProperties
<1> HIDE DEF size, chunk, front
<1>6. front \o chunk \in Seq(Values) /\ Len(front \o chunk) = pos[p] + size
  BY <1>3, <1>5, ConcatProperties
<1>7. /\ userbuf' = [userbuf EXCEPT ![p] = front \o chunk]
      /\ fpc[p] = "copy" /\ fpc' = [fpc EXCEPT ![p] = "check"]
      /\ UNCHANGED <<deviceVars, req, pos, result, mutex, done, irqVars>>
  BY <1>0 DEF CopyOut, At, DriverTypeOK, FlashInv, front, chunk, size
<1>8. DriverTypeOK'
  BY <1>6, <1>7 DEF FlashInv, DriverTypeOK, irqVars
<1>9. CallsOK'
  <2> SUFFICES ASSUME NEW q \in Procs PROVE CallOK(q)'
    BY DEF CallsOK
  <2>1. CASE q = p
    <3>1. userbuf'[p] = front \o chunk
      BY <1>7 DEF FlashInv, DriverTypeOK
    <3>2. Chunk(p)' = Chunk(p)
      BY <1>7 DEF Chunk, Left
    <3>. QED
      BY <2>1, <1>1, <1>6, <1>7, <3>1, <3>2
         DEF FlashInv, DriverTypeOK, CallsOK, CallOK, Calls, size
  <2>2. CASE q # p
    BY <2>2, <1>7 DEF FlashInv, DriverTypeOK, CallsOK, CallOK, Calls, Chunk, Left
  <2>. QED  BY <2>1, <2>2
<1>. QED  BY <1>7, <1>8, <1>9

(* The steps of a call that write registers or the window. *)
LEMMA CommandSteps ==
    ASSUME FlashInv, NEW p \in Procs,
           LockChunk(p) \/ SetSize(p) \/ SetAddr(p) \/ Fill(p) \/ Start(p)
    PROVE  DeviceInv' /\ UNCHANGED lockVars /\ DriverTypeOK' /\ CallsOK'
<1> USE DEF FlashInv, At, Procs
<1>a. Side(p) \in Threads
  BY DEF Side, Threads
<1>b. /\ req[p].addr \in Nat /\ req[p].count \in Nat
      /\ \A q \in Procs : pos[q] \in Nat /\ req[q].count \in Nat
  BY RequestTypes DEF DriverTypeOK
<1>c. pos[p] < req[p].count
  BY <1>b DEF LockChunk, SetSize, SetAddr, Fill, Start, Left, CallsOK, CallOK
<1>d. Chunk(p).size \in Nat /\ pos[p] + Chunk(p).size <= req[p].count /\ Chunk(p).addr \in Nat
  BY <1>c, ChunkFits
<1>1. UNCHANGED <<epc, loaded, cmd, copied, storage, rd_data, msgs, msi, status, lockVars>>
  BY DEF LockChunk, SetSize, SetAddr, Fill, Start, deviceVars, csrVars, engineVars,
         dataVars, wireVars
<1>2. DriverTypeOK'
  <2>1. CASE LockChunk(p)
    BY <2>1, <1>a DEF LockChunk, DriverTypeOK, irqVars
  <2>2. CASE SetSize(p) \/ SetAddr(p) \/ Fill(p) \/ Start(p)
    BY <2>2 DEF SetSize, SetAddr, Fill, Start, DriverTypeOK, irqVars
  <2>. QED  BY <2>1, <2>2
<1>3. CallsOK'
  BY <1>b, <1>c DEF LockChunk, SetSize, SetAddr, Fill, Start, DriverTypeOK, CallsOK, CallOK,
                    Calls, Chunk, Left
<1>4. ctrl' \in [Threads -> BOOLEAN]
  BY <1>a DEF LockChunk, SetSize, SetAddr, Fill, Start, deviceVars, csrVars, DeviceInv, DeviceTypeOK
<1>5. desc' \in [Threads -> [addr : Nat, size : Nat]]
  <2>1. desc \in [Threads -> [addr : Nat, size : Nat]]
    BY DEF DeviceInv, DeviceTypeOK
  <2>2. CASE SetSize(p)
    BY <2>1, <2>2, <1>a, <1>d DEF SetSize
  <2>3. CASE SetAddr(p)
    BY <2>1, <2>3, <1>a, <1>d DEF SetAddr
  <2>4. CASE LockChunk(p) \/ Fill(p) \/ Start(p)
    BY <2>1, <2>4 DEF LockChunk, Fill, Start, deviceVars, csrVars
  <2>. QED  BY <2>2, <2>3, <2>4
<1>6. wr_data' \in [0..WinSize - 1 -> Values]
  <2>1. wr_data \in [0..WinSize - 1 -> Values]
    BY DEF DeviceInv, DeviceTypeOK
  <2>2. CASE Fill(p)
    <3>1. req[p] \in WriteCalls
      BY <2>2, FlashAssumption DEF Fill, CallsOK, CallOK, Calls
    <3>2. req[p].data \in Seq(Values) /\ Len(req[p].data) = req[p].count
      BY <3>1, FlashAssumption
    <3>3. ASSUME NEW i \in 0..WinSize - 1, i < Chunk(p).size
          PROVE  req[p].data[pos[p] + i + 1] \in Values
      <4>1. pos[p] + i + 1 \in 1..Len(req[p].data)
        BY <3>2, <3>3, <1>b, <1>d, DeviceAssumption
      <4>. QED  BY <3>2, <4>1, ElementOfSeq
    <3>. QED  BY <2>1, <2>2, <3>3 DEF Fill
  <2>3. CASE LockChunk(p) \/ SetSize(p) \/ SetAddr(p) \/ Start(p)
    BY <2>1, <2>3 DEF LockChunk, SetSize, SetAddr, Start, deviceVars, dataVars
  <2>. QED  BY <2>2, <2>3
<1>7. status' \in [Threads -> SUBSET Flags] /\ msi' \in BOOLEAN
  BY <1>1 DEF DeviceInv, DeviceTypeOK
<1>8. DeviceInv'
  BY <1>1, <1>4, <1>5, <1>6, <1>7, HostSteps
<1>. QED  BY <1>1, <1>2, <1>3, <1>8

(* The interrupt handler. *)
LEMMA HandlerSteps ==
    ASSUME FlashInv, r04flash_irq
    PROVE  DeviceInv' /\ UNCHANGED lockVars /\ DriverTypeOK' /\ CallsOK'
<1> USE DEF FlashInv, DriverTypeOK, Handler, TestPC, UnsetPC, CompletePC, AfterPC, Threads
<1>1. UNCHANGED procVars => CallsOK'
  BY DEF procVars, CallsOK, CallOK, Calls, Chunk, Left
<1>2. CASE HandlerEnter
  <2>1. DeviceInv'
    BY <1>2, HostSteps DEF HandlerEnter, csrVars, engineVars, dataVars, DeviceInv, DeviceTypeOK
  <2>. QED  BY <1>1, <1>2, <2>1 DEF HandlerEnter, procVars
<1>3. ASSUME NEW d \in Threads, HandlerTest(d) \/ HandlerLoad(d) \/ HandlerComplete(d)
      PROVE  DeviceInv' /\ UNCHANGED lockVars /\ DriverTypeOK' /\ CallsOK'
  <2>1. UNCHANGED deviceVars /\ UNCHANGED procVars
    BY <1>3 DEF HandlerTest, HandlerLoad, HandlerComplete
  <2>2. DriverTypeOK'
    <3>1. CASE HandlerTest(d)
      BY <3>1 DEF HandlerTest, procVars
    <3>2. CASE HandlerLoad(d)
      <4>1. status[d] \in SUBSET Flags
        BY DEF DeviceInv, DeviceTypeOK
      <4>. QED  BY <3>2, <4>1 DEF HandlerLoad, procVars
    <3>3. CASE HandlerComplete(d)
      BY <3>3 DEF HandlerComplete, procVars
    <3>. QED  BY <1>3, <3>1, <3>2, <3>3
  <2>. QED  BY <1>1, <2>1, <2>2, DeviceUnchanged
<1>4. ASSUME NEW d \in Threads, HandlerStore(d)
      PROVE  DeviceInv' /\ UNCHANGED lockVars /\ DriverTypeOK' /\ CallsOK'
  <2>1. UNCHANGED <<epc, loaded, cmd, copied, storage, rd_data, wr_data, msgs, msi, ctrl, desc, lockVars>>
    BY <1>4 DEF HandlerStore, engineVars, dataVars, wireVars
  <2>2. status' \in [Threads -> SUBSET Flags]
    <3>1. status \in [Threads -> SUBSET Flags]
      BY DEF DeviceInv, DeviceTypeOK
    <3>2. PICK s \in hloaded : status' = [status EXCEPT ![d] = s \ {"comp"}]
      BY <1>4 DEF HandlerStore
    <3>3. s \ {"comp"} \in SUBSET Flags
      BY <3>2
    <3>. QED  BY <3>1, <3>2, <3>3
  <2>3. DeviceInv'
    BY <2>1, <2>2, HostSteps DEF DeviceInv, DeviceTypeOK
  <2>4. DriverTypeOK'
    BY <1>4 DEF HandlerStore, procVars
  <2>. QED  BY <1>1, <1>4, <2>1, <2>3, <2>4 DEF HandlerStore
<1>. QED  BY <1>2, <1>3, <1>4 DEF r04flash_irq

-----------------------------------------------------------------------------
(* FlashInv is inductive, and every step is a step of the lock or leaves   *)
(* it alone.                                                               *)
LEMMA FlashSteps ==
    ASSUME FlashInv, [FlashNext]_vars
    PROVE  FlashInv' /\ [LockNext]_lockVars
<1>1. ASSUME UNCHANGED deviceVars, DriverTypeOK', CallsOK'
      PROVE  FlashInv' /\ [LockNext]_lockVars
  BY <1>1, DeviceUnchanged DEF FlashInv
<1>2. ASSUME UNCHANGED <<procVars, done, irqVars>>
      PROVE  DriverTypeOK' /\ CallsOK'
  BY <1>2 DEF FlashInv, DriverTypeOK, CallsOK, CallOK, procVars, irqVars, Calls, Chunk, Left
<1>3. CASE UNCHANGED vars
  BY <1>1, <1>2, <1>3 DEF vars
<1>4. ASSUME NEW p \in Procs, Call(p) \/ CallStep(p)
      PROVE  FlashInv' /\ [LockNext]_lockVars
  <2>1. CASE Call(p) \/ Completed(p) \/ NextChunk(p)
    BY <1>1, <2>1, LocalSteps
  <2>2. CASE \/ ReturnAll(p) \/ LockInterrupted(p) \/ WaitCutShort(p) \/ BadUserBuffer(p)
             \/ CheckError(p)
    BY <1>1, <2>2, EndingSteps
  <2>3. CASE CopyOut(p)
    BY <1>1, <2>3, CopyOutStep
  <2>4. CASE LockChunk(p) \/ SetSize(p) \/ SetAddr(p) \/ Fill(p) \/ Start(p)
    BY <2>4, CommandSteps DEF FlashInv
  <2>. QED  BY <1>4, <2>1, <2>2, <2>3, <2>4 DEF CallStep
<1>5. CASE r04flash_irq
  BY <1>5, HandlerSteps DEF FlashInv
<1>6. CASE DeviceStep
  BY <1>2, <1>6, DeviceSteps DEF DeviceStep, FlashInv
<1>. QED  BY <1>3, <1>4, <1>5, <1>6 DEF FlashNext

(* So it holds in every reachable state. *)
LEMMA FlashInvariant == FlashSpec => []FlashInv
<1>1. FlashInv /\ [FlashNext]_vars => FlashInv'
  BY FlashSteps
<1>. QED  BY <1>1, FlashInitInv, PTL DEF FlashSpec

(* Type correctness of the driver and the device, whatever maximum chunk   *)
(* ioctl has set.  That a chunk fits the driver's buffers is not part of   *)
(* it, and not true: see DriverLifecycleProofs.                            *)
THEOREM FlashTypes == FlashSpec => []FlashTypeOK
<1>1. FlashInv => FlashTypeOK
  BY DEF FlashInv, DeviceInv, FlashTypeOK
<1>. QED  BY <1>1, FlashInvariant, PTL

(* Whatever descriptors the hosts write, and however they are torn, the    *)
(* engines lock and copy only ranges inside the storage.                   *)
THEOREM FlashCopiesInside == FlashSpec => []CopiesInsideStorage
<1>1. FlashInv => CopiesInsideStorage
  BY DEF FlashInv, DeviceInv
<1>. QED  BY <1>1, FlashInvariant, PTL

(* The two engines use the address lock as AddressLock specifies it, so    *)
(* what is proved of the lock holds in the whole system.                   *)
LEMMA FlashUsesLock == FlashSpec => LockSpec
<1>1. FlashInit => LockInit
  BY DEF FlashInit, DeviceInit
<1>2. FlashInv /\ [FlashNext]_vars => [LockNext]_lockVars
  BY FlashSteps
<1>. QED  BY <1>1, <1>2, FlashInvariant, PTL DEF FlashSpec, LockSpec

(* The engines never poll for each other. *)
THEOREM FlashNoMutualWait == FlashSpec => []NoMutualWait
  BY FlashUsesLock, LockNoMutualWait, PTL

-----------------------------------------------------------------------------
(***************************************************************************)
(* What an engine copies is what it has locked: it asks for the lock with  *)
(* its private copy of the command, keeps that copy until it has unlocked, *)
(* and has copied nothing before the lock is its own.                      *)
(***************************************************************************)
EngineLock(e) ==
    /\ phase[e] # "idle" => want[e] = cmd[e] /\ epc[e] \in {"copy", "unlock", "set_comp"}
    /\ phase[e] = "waiting" => epc[e] = "copy"
    /\ phase[e] # "holding" /\ epc[e] = "copy" => copied[e] = 0
    /\ epc[e] \notin {"copy", "unlock", "set_comp", "send"} => copied[e] = 0

EnginesLock == \A e \in Threads : EngineLock(e)

(* A step of one engine. *)
LEMMA EngineLockStep ==
    ASSUME DeviceInv, EnginesLock, NEW e \in Threads, EngineStep(e)
    PROVE  EnginesLock'
<1> USE DEF DeviceInv, DeviceTypeOK, LockTypeOK, EnginesLock, EngineLock, Goto,
            csrVars, dataVars, wireVars, lockVars
<1>1. ASSUME NEW d, NEW here, LoadStatus(e, d, here) PROVE EnginesLock'
  BY <1>1 DEF LoadStatus
<1>2. ASSUME NEW d, NEW unset, NEW set, NEW here, NEW next, StoreStatus(e, d, unset, set, here, next),
             here \notin {"copy", "unlock", "set_comp", "send"}, next # "copy"
      PROVE  EnginesLock'
  BY <1>2 DEF StoreStatus
<1>4. CASE SetComp(e)
  <2>1. CASE LoadStatus(e, e, "set_comp")
    BY <2>1, <1>1
  <2>2. CASE StoreStatus(e, e, {}, {"comp"}, "set_comp",
                         IF phase[e] = "holding" THEN "unlock" ELSE "send")
    BY <2>2 DEF StoreStatus
  <2>. QED  BY <1>4, <2>1, <2>2 DEF SetComp
<1>5. CASE SeeStart(e) \/ UnsetStart(e)
  BY <1>5 DEF SeeStart, UnsetStart
<1>6. CASE FetchAddr(e) \/ FetchSize(e)
  BY <1>6 DEF FetchAddr, FetchSize
<1>7. CASE LockStorage(e)
  BY <1>7 DEF LockStorage, Acquire, Enqueue, Grant
<1>8. CASE AwaitLock(e)
  BY <1>8 DEF AwaitLock, AwaitGrant, engineVars
<1>9. CASE CopyByte(e)
  BY <1>9 DEF CopyByte
<1>10. CASE CopyDone(e)
  BY <1>10 DEF CopyDone
<1>11. CASE UnlockStorage(e)
  BY <1>11 DEF UnlockStorage, Release
<1>12. CASE SendInterrupt(e)
  BY <1>12 DEF SendInterrupt
<1> HIDE DEF DeviceInv, DeviceTypeOK, LockTypeOK, EnginesLock, EngineLock, Goto,
             csrVars, dataVars, wireVars, lockVars
<1>3. CASE UnsetComp(e) \/ UnsetAddrError(e) \/ UnsetSizeError(e) \/ SetAddrError(e)
  <2>1. CASE UnsetComp(e)
    BY <2>1, <1>1, <1>2 DEF UnsetComp, UnsetFlag
  <2>2. CASE UnsetAddrError(e)
    BY <2>2, <1>1, <1>2 DEF UnsetAddrError, UnsetFlag
  <2>3. CASE UnsetSizeError(e)
    BY <2>3, <1>1, <1>2 DEF UnsetSizeError, UnsetFlag
  <2>4. CASE SetAddrError(e)
    BY <2>4, <1>1, <1>2 DEF SetAddrError
  <2>. QED  BY <1>3, <2>1, <2>2, <2>3, <2>4
<1>. QED  BY <1>3, <1>4, <1>5, <1>6, <1>7, <1>8, <1>9, <1>10, <1>11, <1>12 DEF EngineStep

(* The host never touches an engine's command or its lock. *)
LEMMA EnginesLockStep ==
    ASSUME FlashInv, EnginesLock, [FlashNext]_vars
    PROVE  EnginesLock'
<1>1. ASSUME UNCHANGED <<epc, cmd, copied, lockVars>> PROVE EnginesLock'
  BY <1>1 DEF EnginesLock, EngineLock, lockVars
<1>2. CASE UNCHANGED vars
  BY <1>1, <1>2 DEF vars, deviceVars, engineVars
<1>3. ASSUME NEW p \in Procs, Call(p) \/ CallStep(p) PROVE EnginesLock'
  BY <1>1, <1>3
     DEF Call, CallStep, ReturnAll, LockInterrupted, LockChunk, SetSize, SetAddr, Fill, Start,
         Completed, WaitCutShort, BadUserBuffer, CopyOut, CheckError, NextChunk,
         deviceVars, engineVars
<1>4. CASE r04flash_irq
  BY <1>1, <1>4
     DEF r04flash_irq, HandlerEnter, HandlerTest, HandlerLoad, HandlerStore, HandlerComplete,
         deviceVars, engineVars
<1>5. CASE DeviceStep
  <2>1. CASE chr_read
    BY <1>1, <2>1 DEF chr_read, engineVars
  <2>. QED  BY <1>5, <2>1, EngineLockStep DEF DeviceStep, DeviceNext, FlashInv
<1>. QED  BY <1>2, <1>3, <1>4, <1>5 DEF FlashNext

(* For any calls, engines inside memcpy copy disjoint ranges up to the     *)
(* first reinstalled request.                                              *)
THEOREM FlashCopiesDisjoint == FlashSpec => []CopiesDisjoint
<1>1. FlashInit => EnginesLock
  BY DEF FlashInit, DeviceInit, LockInit, EnginesLock, EngineLock
<1>2. FlashInv /\ EnginesLock /\ [FlashNext]_vars => EnginesLock'
  BY EnginesLockStep
<1>3. FlashInv /\ EnginesLock /\ DisjointUntilReinstall => CopiesDisjoint
  <2> SUFFICES ASSUME FlashInv, EnginesLock, DisjointUntilReinstall, ~reinstalled,
                      Copying("rd"), Copying("wr")
               PROVE  RL!Disjoint(cmd["rd"], cmd["wr"])
    BY DEF CopiesDisjoint
  <2>1. \A e \in Threads : Copying(e) => phase[e] = "holding" /\ want[e] = cmd[e]
    BY DEF EnginesLock, EngineLock, Copying, FlashInv, DeviceInv, DeviceTypeOK
  <2>. QED  BY <2>1 DEF DisjointUntilReinstall, HoldersDisjoint, Threads
<1>. QED
  BY <1>1, <1>2, <1>3, FlashInvariant, FlashUsesLock, LockDisjointUntilReinstall, PTL DEF FlashSpec

-----------------------------------------------------------------------------
(* InterruptDue needs only the types: the engine that stores a comp bit is *)
(* past accept until it sends, a message becomes an MSI, and an MSI the    *)
(* handler's full round.                                                   *)
LEMMA DueInEngine ==
    ASSUME FlashInv, InterruptDue, NEW e \in Threads, EngineStep(e), UNCHANGED hpc
    PROVE  InterruptDue'
<1> USE DEF FlashInv, DeviceInv, DeviceTypeOK, InterruptDue, Goto,
            csrVars, engineVars, dataVars, wireVars
<1>1. CASE SeeStart(e)
  BY <1>1 DEF SeeStart
<1>2. ASSUME NEW d, NEW here, LoadStatus(e, d, here) PROVE InterruptDue'
  BY <1>2 DEF LoadStatus
<1>3. ASSUME epc'[e] \notin {"poll", "accept"} PROVE InterruptDue'
  BY <1>3
<1>4. ASSUME NEW d, NEW unset, NEW set, NEW here, NEW next, next \notin {"poll", "accept"},
             StoreStatus(e, d, unset, set, here, next)
      PROVE  epc'[e] \notin {"poll", "accept"}
  BY <1>4 DEF StoreStatus
<1>5. CASE UnsetComp(e) \/ UnsetAddrError(e) \/ UnsetSizeError(e) \/ SetAddrError(e) \/ SetComp(e)
  <2>a. \A next \in {"unset_addr_error", "unset_size_error", "fetch_addr", "set_comp"} :
           next \notin {"poll", "accept"}
    OBVIOUS
  <2>1. CASE UnsetComp(e)
    BY <2>1, <2>a, <1>2, <1>3, <1>4 DEF UnsetComp, UnsetFlag
  <2>2. CASE UnsetAddrError(e)
    BY <2>2, <2>a, <1>2, <1>3, <1>4 DEF UnsetAddrError, UnsetFlag
  <2>3. CASE UnsetSizeError(e)
    BY <2>3, <2>a, <1>2, <1>3, <1>4 DEF UnsetSizeError, UnsetFlag
  <2>4. CASE SetAddrError(e)
    BY <2>4, <2>a, <1>2, <1>3, <1>4 DEF SetAddrError
  <2>5. CASE SetComp(e)
    <3>1. (IF phase[e] = "holding" THEN "unlock" ELSE "send") \notin {"poll", "accept"}
      OBVIOUS
    <3>. QED  BY <2>5, <3>1, <1>2, <1>3, <1>4 DEF SetComp
  <2>. QED  BY <1>5, <2>1, <2>2, <2>3, <2>4, <2>5
<1>6. CASE AwaitLock(e) \/ CopyByte(e)
  BY <1>6 DEF AwaitLock, CopyByte
<1>7. CASE \/ UnsetStart(e) \/ FetchAddr(e) \/ FetchSize(e) \/ LockStorage(e)
           \/ CopyDone(e) \/ UnlockStorage(e)
  BY <1>3, <1>7 DEF UnsetStart, FetchAddr, FetchSize, LockStorage, CopyDone, UnlockStorage
<1>8. CASE SendInterrupt(e)
  BY <1>8, DeviceAssumption DEF SendInterrupt
<1>. QED  BY <1>1, <1>5, <1>6, <1>7, <1>8 DEF EngineStep

(* A step of the handler: it leaves only bits it has still to look at. *)
LEMMA DueInHandler ==
    ASSUME FlashInv, InterruptDue, r04flash_irq
    PROVE  InterruptDue'
<1> USE DEF FlashInv, DeviceInv, DeviceTypeOK, InterruptDue, WillTake, Handler,
            TestPC, UnsetPC, CompletePC, AfterPC, Threads
<1>1. CASE HandlerEnter
  BY <1>1 DEF HandlerEnter
<1>2. ASSUME NEW d \in Threads, HandlerTest(d) PROVE InterruptDue'
  BY <1>2 DEF HandlerTest, deviceVars, csrVars, engineVars, wireVars
<1>3. ASSUME NEW d \in Threads, HandlerLoad(d) \/ HandlerComplete(d) PROVE InterruptDue'
  BY <1>3 DEF HandlerLoad, HandlerComplete, deviceVars, csrVars, engineVars, wireVars
<1>4. ASSUME NEW d \in Threads, HandlerStore(d) PROVE InterruptDue'
  BY <1>4 DEF HandlerStore, engineVars, wireVars
<1>. QED  BY <1>1, <1>2, <1>3, <1>4 DEF r04flash_irq

(* A step of a call touches neither comp bits nor interrupts. *)
LEMMA DueInCall ==
    ASSUME InterruptDue, NEW p \in Procs, Call(p) \/ CallStep(p)
    PROVE  InterruptDue'
<1>1. UNCHANGED <<status, epc, msgs, msi, hpc>>
  BY DEF Call, CallStep, ReturnAll, LockInterrupted, LockChunk, SetSize, SetAddr, Fill, Start,
         Completed, WaitCutShort, BadUserBuffer, CopyOut, CheckError, NextChunk,
         deviceVars, csrVars, engineVars, wireVars, irqVars
<1>. QED  BY <1>1 DEF InterruptDue

(* A set comp bit is never forgotten, however interrupts are merged.       *)
THEOREM FlashInterruptDue == FlashSpec => []InterruptDue
<1>1. FlashInit => InterruptDue
  BY DEF FlashInit, DeviceInit, InterruptDue
<1>2. FlashInv /\ InterruptDue /\ [FlashNext]_vars => InterruptDue'
  <2> SUFFICES ASSUME FlashInv, InterruptDue, [FlashNext]_vars PROVE InterruptDue'
    OBVIOUS
  <2>1. CASE UNCHANGED vars
    BY <2>1 DEF vars, InterruptDue, deviceVars, csrVars, engineVars, wireVars, irqVars
  <2>2. CASE DeviceStep
    <3>1. UNCHANGED hpc
      BY <2>2 DEF DeviceStep, irqVars
    <3>2. CASE chr_read
      BY <3>1, <3>2 DEF chr_read, InterruptDue, csrVars, engineVars
    <3>3. ASSUME NEW e \in Threads, EngineStep(e) PROVE InterruptDue'
      BY <3>1, <3>3, DueInEngine
    <3>. QED  BY <2>2, <3>2, <3>3 DEF DeviceStep, DeviceNext
  <2>. QED  BY <2>1, <2>2, DueInHandler, DueInCall DEF FlashNext
<1>. QED  BY <1>1, <1>2, FlashInvariant, PTL DEF FlashSpec
=============================================================================
