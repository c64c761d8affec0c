--------------------------------- MODULE Flash ---------------------------------
(***************************************************************************)
(* The driver of the flash (pcie/r04flash.c) on top of the device: the     *)
(* processes inside r04flash_read and r04flash_write, the interrupt        *)
(* handler r04flash_irq, and the two completions between them.             *)
(*                                                                         *)
(* A read or write call moves its bytes in chunks of at most the maximum   *)
(* of its direction; each chunk takes the mutex of the direction, writes   *)
(* the descriptor, sets the start bit and waits for the completion.        *)
(***************************************************************************)
EXTENDS Device, Sequences

CONSTANTS Readers, Writers,   \* processes that call read and write
          ReadCalls,          \* what they ask: [addr, count, data], data empty
          WriteCalls,         \*   for reads and count bytes for writes
          MaxSize,            \* rd_max_size and wr_max_size, per side
          Impatient           \* processes whose calls can be cut short by a
                              \*   signal, a timeout or a bad user buffer

Procs == Readers \cup Writers
Nobody == "nobody"

Calls(p) == IF p \in Readers THEN ReadCalls ELSE WriteCalls

(* The sysfs attributes keep the maximum in 1..WIN_SIZE, but ioctl stores   *)
(* any number: it may be zero, or larger than the windows and the buffers. *)
ASSUME FlashAssumption ==
    /\ MaxSize \in [Threads -> Nat]
    /\ Impatient \subseteq Procs
    /\ Readers \cap Writers = {}
    /\ Nobody \notin Procs
    /\ ReadCalls \subseteq [addr : Nat, count : Nat, data : Seq(Values)]
    /\ WriteCalls \subseteq [addr : Nat, count : Nat, data : Seq(Values)]
    /\ \A c \in WriteCalls : Len(c.data) = c.count

VARIABLES fpc,      \* where each process is in its call
          req,      \* the arguments of the call
          pos,      \* bytes moved so far: addr, count, buf and ret follow it
          userbuf,  \* the caller's buffer of a read
          result,   \* what the last call returned
          mutex,    \* holder of read_lock and of write_lock
          done,     \* counters of read_complete and write_complete
          hpc,      \* where the interrupt handler is
          hloaded   \* the status byte the handler has loaded

procVars == <<fpc, req, pos, userbuf, result, mutex>>
irqVars == <<hpc, hloaded>>
vars == <<deviceVars, procVars, done, irqVars>>

(* The register set and the mutex a process uses. *)
Side(p) == IF p \in Readers THEN "rd" ELSE "wr"

NoCall == [addr |-> 0, count |-> 0, data |-> <<>>]

(* Return codes: -EINTR, -EFAULT, -ETIMEDOUT and the driver's R04_ADDRINVAL.*)
EINTR == -4
EFAULT == -14
ETIMEDOUT == -110
ADDRINVAL == -1056969215
SIZEINVAL == -1056969214

FlashInit ==
    /\ DeviceInit
    /\ fpc = [p \in Procs |-> "idle"]
    /\ req = [p \in Procs |-> NoCall]
    /\ pos = [p \in Procs |-> 0]
    /\ userbuf = [p \in Procs |-> <<>>]
    /\ result = [p \in Procs |-> 0]
    /\ mutex = [d \in Threads |-> Nobody]
    /\ done = [d \in Threads |-> 0]
    /\ hpc = "idle"
    /\ hloaded = {}

-----------------------------------------------------------------------------
(* Calls. *)

Left(p) == req[p].count - pos[p]

(* The descriptor of the chunk the process is at. *)
Chunk(p) == [addr |-> req[p].addr + pos[p],
             size |-> IF Left(p) < MaxSize[Side(p)] THEN Left(p) ELSE MaxSize[Side(p)]]

At(p, here, next) == fpc[p] = here /\ fpc' = [fpc EXCEPT ![p] = next]

Call(p) ==
    /\ At(p, "idle", "loop")
    /\ \E c \in Calls(p) : req' = [req EXCEPT ![p] = c]
    /\ result' = [result EXCEPT ![p] = 0]
    /\ UNCHANGED <<deviceVars, pos, userbuf, mutex, done, irqVars>>

(* The call ends with the value n; its locals are gone. *)
Return(p, here, n) ==
    /\ At(p, here, "idle")
    /\ req' = [req EXCEPT ![p] = NoCall]
    /\ pos' = [pos EXCEPT ![p] = 0]
    /\ userbuf' = [userbuf EXCEPT ![p] = <<>>]
    /\ result' = [result EXCEPT ![p] = n]

(* count has reached zero: the call returns the bytes it moved. *)
ReturnAll(p) ==
    /\ Left(p) = 0
    /\ Return(p, "loop", pos[p])
    /\ UNCHANGED <<deviceVars, mutex, done, irqVars>>

(* A signal ends the wait for a mutex that another process holds. *)
LockInterrupted(p) ==
    /\ p \in Impatient
    /\ Left(p) > 0
    /\ mutex[Side(p)] # Nobody
    /\ Return(p, "loop", EINTR)
    /\ UNCHANGED <<deviceVars, mutex, done, irqVars>>

(* The mutex and reinit_completion.  Whoever waits for the mutex does       *)
(* nothing else, so a completion that falls between the two is the same as *)
(* one before them.                                                        *)
LockChunk(p) ==
    /\ At(p, "loop", "set_size")
    /\ Left(p) > 0
    /\ mutex[Side(p)] = Nobody
    /\ mutex' = [mutex EXCEPT ![Side(p)] = p]
    /\ done' = [done EXCEPT ![Side(p)] = 0]
    /\ UNCHANGED <<deviceVars, req, pos, userbuf, result, irqVars>>

SetSize(p) ==
    /\ At(p, "set_size", "set_addr")
    /\ desc' = [desc EXCEPT ![Side(p)].size = Chunk(p).size]
    /\ UNCHANGED <<ctrl, status, engineVars, dataVars, wireVars, lockVars,
                   req, pos, userbuf, result, mutex, done, irqVars>>

SetAddr(p) ==
    /\ At(p, "set_addr", IF p \in Writers THEN "fill" ELSE "start")
    /\ desc' = [desc EXCEPT ![Side(p)].addr = Chunk(p).addr]
    /\ UNCHANGED <<ctrl, status, engineVars, dataVars, wireVars, lockVars,
                   req, pos, userbuf, result, mutex, done, irqVars>>

(* Mutant: buf is not advanced after a chunk. *)
FillFromStart(p) ==
    /\ At(p, "fill", "start")
    /\ wr_data' = [i \in 0..WinSize - 1 |->
                     IF i < Chunk(p).size THEN req[p].data[i + 1] ELSE wr_data[i]]
    /\ UNCHANGED <<csrVars, engineVars, storage, rd_data, wireVars, lockVars,
                   req, pos, userbuf, result, mutex, done, irqVars>>

(* copy_from_user and memcpy_toio of the next bytes of the caller.  What a  *)
(* chunk larger than the window puts behind wr_data is not modelled.       *)
Fill(p) ==
    /\ At(p, "fill", "start")
    /\ wr_data' = [i \in 0..WinSize - 1 |->
                     IF i < Chunk(p).size THEN req[p].data[pos[p] + i + 1] ELSE wr_data[i]]
    /\ UNCHANGED <<csrVars, engineVars, storage, rd_data, wireVars, lockVars,
                   req, pos, userbuf, result, mutex, done, irqVars>>

Start(p) ==
    /\ At(p, "start", "wait")
    /\ ctrl' = [ctrl EXCEPT ![Side(p)] = TRUE]
    /\ UNCHANGED <<status, desc, engineVars, dataVars, wireVars, lockVars,
                   req, pos, userbuf, result, mutex, done, irqVars>>

(* wait_for_completion takes one completion. *)
Completed(p) ==
    /\ At(p, "wait", IF p \in Readers THEN "copy" ELSE "check")
    /\ done[Side(p)] > 0
    /\ done' = [done EXCEPT ![Side(p)] = @ - 1]
    /\ UNCHANGED <<deviceVars, req, pos, userbuf, result, mutex, irqVars>>

(* Leaving with an error code: r04flash_write returns it, r04flash_read    *)
(* returns err, which mutex_lock_interruptible has set to zero.            *)
ReturnError(p, here, code) ==
    /\ Return(p, here, IF p \in Readers THEN 0 ELSE code)
    /\ mutex' = [mutex EXCEPT ![Side(p)] = Nobody]

(* Mutant: the wait has no timeout. *)
WaitForEver(p) ==
    /\ p \in Impatient
    /\ done[Side(p)] < 0
    /\ ReturnError(p, "wait", ETIMEDOUT) \/ ReturnError(p, "wait", EFAULT)
    /\ UNCHANGED <<deviceVars, done, irqVars>>

(* The timeout, or a signal, ends a wait that has no completion to take. *)
WaitCutShort(p) ==
    /\ p \in Impatient
    /\ done[Side(p)] = 0
    /\ ReturnError(p, "wait", ETIMEDOUT) \/ ReturnError(p, "wait", EFAULT)
    /\ UNCHANGED <<deviceVars, done, irqVars>>

(* The caller's buffer is bad: before the start of a write, or after the   *)
(* completion of a read.                                                   *)
BadUserBuffer(p) ==
    /\ p \in Impatient
    /\ ReturnError(p, IF p \in Readers THEN "copy" ELSE "fill", EFAULT)
    /\ UNCHANGED <<deviceVars, done, irqVars>>

(* Byte i of what memcpy_fromio reads from rd_data on: behind it lie       *)
(* wr_data (struct pcie_bar2) and then bytes that are not the device's.    *)
WindowByte(i, beyond) ==
    IF i < WinSize THEN rd_data[i]
    ELSE IF i < 2 * WinSize THEN wr_data[i - WinSize] ELSE beyond[i]

(* memcpy_fromio and copy_to_user, before the error flags are looked at. *)
CopyOut(p) ==
    /\ At(p, "copy", "check")
    /\ \E beyond \in [2 * WinSize..Chunk(p).size - 1 -> Values] :
         userbuf' = [userbuf EXCEPT ![p] =
             SubSeq(@, 1, pos[p]) \o [i \in 1..Chunk(p).size |-> WindowByte(i - 1, beyond)]]
    /\ UNCHANGED <<deviceVars, req, pos, result, mutex, done, irqVars>>

CheckError(p) ==
    /\ \/ /\ "addr_error" \in status[Side(p)]
          /\ ReturnError(p, "check", ADDRINVAL)
       \/ /\ "addr_error" \notin status[Side(p)]
          /\ "size_error" \in status[Side(p)]
          /\ ReturnError(p, "check", SIZEINVAL)
    /\ UNCHANGED <<deviceVars, done, irqVars>>

NextChunk(p) ==
    /\ At(p, "check", "loop")
    /\ status[Side(p)] \cap {"addr_error", "size_error"} = {}
    /\ pos' = [pos EXCEPT ![p] = @ + Chunk(p).size]
    /\ mutex' = [mutex EXCEPT ![Side(p)] = Nobody]
    /\ UNCHANGED <<deviceVars, req, userbuf, result, done, irqVars>>

(* A process inside its call. *)
CallStep(p) ==
    \/ ReturnAll(p) \/ LockInterrupted(p) \/ LockChunk(p) \/ SetSize(p) \/ SetAddr(p)
    \/ Fill(p) \/ Start(p) \/ Completed(p) \/ WaitCutShort(p) \/ BadUserBuffer(p)
    \/ CopyOut(p) \/ CheckError(p) \/ NextChunk(p)

-----------------------------------------------------------------------------
(* r04flash_irq looks at the read side, then at the write side.  Taking a  *)
(* completion is a load and a store of the status byte, then complete().   *)

Handler(here, next) == hpc = here /\ hpc' = next

HandlerEnter ==
    /\ Handler("idle", "test_rd")
    /\ msi
    /\ msi' = FALSE
    /\ UNCHANGED <<csrVars, engineVars, dataVars, msgs, lockVars, procVars, done, hloaded>>

TestPC(d) == IF d = "rd" THEN "test_rd" ELSE "test_wr"
UnsetPC(d) == IF d = "rd" THEN "unset_rd" ELSE "unset_wr"
CompletePC(d) == IF d = "rd" THEN "complete_rd" ELSE "complete_wr"
AfterPC(d) == IF d = "rd" THEN "test_wr" ELSE "idle"

(* Mutant: the handler completes both sides without looking at the bits. *)
HandlerNoTest(d) ==
    /\ Handler(TestPC(d), UnsetPC(d))
    /\ UNCHANGED <<deviceVars, procVars, done, hloaded>>

HandlerTest(d) ==
    /\ Handler(TestPC(d), IF "comp" \in status[d] THEN UnsetPC(d) ELSE AfterPC(d))
    /\ UNCHANGED <<deviceVars, procVars, done, hloaded>>

HandlerLoad(d) ==
    /\ hpc = UnsetPC(d)
    /\ hloaded = {}
    /\ hloaded' = {status[d]}
    /\ UNCHANGED <<deviceVars, procVars, done, hpc>>

(* Mutant: the bit is left set. *)
HandlerKeepsComp(d) ==
    /\ Handler(UnsetPC(d), CompletePC(d))
    /\ hloaded # {}
    /\ hloaded' = {}
    /\ UNCHANGED <<deviceVars, procVars, done>>

HandlerStore(d) ==
    /\ Handler(UnsetPC(d), CompletePC(d))
    /\ \E s \in hloaded : status' = [status EXCEPT ![d] = s \ {"comp"}]
    /\ hloaded' = {}
    /\ UNCHANGED <<ctrl, desc, engineVars, dataVars, wireVars, lockVars, procVars, done>>

(* Mutant: the handler serves one side per interrupt. *)
HandlerCompleteOnly(d) ==
    /\ Handler(CompletePC(d), "idle")
    /\ done' = [done EXCEPT ![d] = @ + 1]
    /\ UNCHANGED <<deviceVars, procVars, hloaded>>

HandlerComplete(d) ==
    /\ Handler(CompletePC(d), AfterPC(d))
    /\ done' = [done EXCEPT ![d] = @ + 1]
    /\ UNCHANGED <<deviceVars, procVars, hloaded>>

r04flash_irq ==
    \/ HandlerEnter
    \/ \E d \in Threads :
         HandlerTest(d) \/ HandlerLoad(d) \/ HandlerStore(d) \/ HandlerComplete(d)

-----------------------------------------------------------------------------
DeviceStep == DeviceNext /\ UNCHANGED <<procVars, done, irqVars>>

FlashNext ==
    \/ \E p \in Procs : Call(p) \/ CallStep(p)
    \/ r04flash_irq
    \/ DeviceStep

FlashSpec == FlashInit /\ [][FlashNext]_vars

(* Processes inside a call and the handler are scheduled; nothing makes a  *)
(* process start a call.                                                   *)
FlashFairness ==
    /\ DeviceFairness
    /\ WF_vars(r04flash_irq)
    /\ \A p \in Procs : WF_vars(CallStep(p))

FairFlashSpec == FlashSpec /\ FlashFairness
-----------------------------------------------------------------------------
DriverTypeOK ==
    /\ fpc \in [Procs -> {"idle", "loop", "set_size", "set_addr", "fill", "start",
                       "wait", "copy", "check"}]
    /\ req \in [Procs -> ReadCalls \cup WriteCalls \cup {NoCall}]
    /\ pos \in [Procs -> Nat]
    /\ userbuf \in [Procs -> Seq(Values)]
    /\ result \in [Procs -> Int]
    /\ mutex \in [Threads -> Procs \cup {Nobody}]
    /\ done \in [Threads -> Nat]
    /\ hpc \in {"idle"} \cup {TestPC(d) : d \in Threads} \cup {UnsetPC(d) : d \in Threads}
                \cup {CompletePC(d) : d \in Threads}
    /\ hloaded \in SUBSET SUBSET Flags

(* Every variable holds a value the code can give it, whatever the maximum *)
(* chunk.  This says nothing of the driver's bounce buffers: see           *)
(* ChunkFitsBuffers in DriverLifecycle for when a chunk fits them.         *)
FlashTypeOK == DeviceTypeOK /\ DriverTypeOK

(* An engine inside its memcpy. *)
Copying(e) == epc[e] = "copy" /\ copied[e] > 0

(* While both engines are inside memcpy, the ranges of the storage they    *)
(* copy share no byte, up to the first reinstalled request: what an engine *)
(* copies is what it has locked, though the host may replace its descriptor*)
(* at any time, and it has not begun before the lock was its own.          *)
CopiesDisjoint ==
    ~reinstalled /\ Copying("rd") /\ Copying("wr") => RL!Disjoint(cmd["rd"], cmd["wr"])

(* Where the handler is when it will still look at status byte d.          *)
WillTake(d) ==
    IF d = "rd" THEN {"test_rd", "unset_rd"}
                ELSE {"test_rd", "unset_rd", "complete_rd", "test_wr", "unset_wr"}

(* A set comp bit is never forgotten, however interrupts are merged by the *)
(* socket, by QEMU and by the MSI: some engine will still send, or a       *)
(* message, an MSI or the running handler will bring the host to look.     *)
InterruptDue ==
    \A d \in Threads : "comp" \in status[d] =>
        \/ \E e \in Threads : epc[e] \notin {"poll", "accept"}
        \/ msgs > 0 \/ msi
        \/ hpc \in WillTake(d)

(* Engine d has nothing more to do for the last command but to unlock and  *)
(* to send: rd_data is complete, wr_data and the descriptor are free.      *)
Reported(d) ==
    /\ ~ctrl[d]
    /\ epc[d] \in {"poll", "send"} \/ (d = "wr" /\ epc[d] = "unlock")

(* The places where the completion of the command on side d can be. *)
CompletionAt(d) ==
    (IF Reported(d) THEN {} ELSE {"device"})
        \cup (IF "comp" \in status[d] THEN {"flag"} ELSE {})
        \cup (IF hpc = CompletePC(d) THEN {"handler"} ELSE {})
        \cup (IF done[d] > 0 THEN {"counter"} ELSE {})

(* While patient hosts use valid addresses, a waiting process has exactly  *)
(* one completion to come, that of its own command: none is lost to the    *)
(* unlocked updates of the status bytes and none is left over.             *)
OneCompletionOwed ==
    \A p \in Procs : fpc[p] = "wait" =>
        done[Side(p)] <= 1 /\ \E where \in CompletionAt(Side(p)) : CompletionAt(Side(p)) = {where}

(* The engine is out of the way whenever a process works on the descriptor *)
(* or on the window of its side, or looks at the error flags.              *)
HostOwnsSide ==
    \A p \in Procs :
        fpc[p] \in {"set_size", "set_addr", "fill", "start", "copy", "check"} => Reported(Side(p))

(* Every call returns. *)
CallsReturn == \A p \in Procs : (fpc[p] # "idle") ~> (fpc[p] = "idle")

(* A call that asks for bytes outside the storage. *)
OutOfRange(c) == c.count > 0 /\ c.addr + c.count > DiskSize

(* bars.h:104-105: when the error register is not empty the host returns an*)
(* error code.  r04flash_read returns zero, the end of the file, instead.  *)
ReadErrorReported ==
    [][\A p \in Readers : OutOfRange(req[p]) /\ fpc'[p] = "idle" => result'[p] < 0]_vars

(* bars.h:80 and 112-113: an invalid address of a write is reported in     *)
(* wr_err and the host returns the code.  The device reports it in         *)
(* rd_status, so the write seems to have succeeded.                        *)
WriteErrorReported ==
    [][\A p \in Writers : OutOfRange(req[p]) /\ fpc'[p] = "idle" => result'[p] < 0]_vars

-----------------------------------------------------------------------------
(* What the host has got of its chunk, seen from the device: the bytes the *)
(* engine has copied for a valid descriptor.                               *)
CopiedOfChunk(p) ==
    LET d == Side(p) IN
    IF fpc[p] \notin {"wait", "copy", "check"} \/ ~Valid(Chunk(p)) THEN 0
    ELSE IF ctrl[d] \/ epc[d] = "accept" THEN 0
    ELSE IF epc[d] = "poll" THEN Chunk(p).size
    ELSE copied[d]

GotOfChunk(p) ==
    IF fpc[p] = "check" THEN SubSeq(userbuf[p], pos[p] + 1, pos[p] + CopiedOfChunk(p))
                        ELSE [i \in 1..CopiedOfChunk(p) |-> rd_data[i - 1]]

Store == INSTANCE BlockStore WITH
    Clients <- Procs, Size <- DiskSize, AllCalls <- ReadCalls \cup WriteCalls,
    Failures <- {0, ADDRINVAL},
    mem <- storage,
    busy <- [p \in Procs |-> fpc[p] # "idle"],
    call <- req,
    moved <- [p \in Procs |-> pos[p] + CopiedOfChunk(p)],
    got <- [p \in Readers |-> SubSeq(userbuf[p], 1, pos[p]) \o GotOfChunk(p)],
    answer <- result

(* Patient hosts that write to valid addresses see a block store: each     *)
(* byte of a call is read or written in one step of the call, a call that  *)
(* returns its count has moved all of them, and only calls that reach      *)
(* outside the storage return anything else.                               *)
ImplementsBlockStore == Store!Spec
=============================================================================
