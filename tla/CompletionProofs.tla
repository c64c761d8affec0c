--------------------------- MODULE CompletionProofs ---------------------------
(***************************************************************************)
(* One completion for each command, and an engine that is away while the   *)
(* host works on its side: proofs for hosts whose calls are not cut short  *)
(* and whose writes never come to an address past the storage.             *)
(***************************************************************************)
EXTENDS FlashProofs

(* The maximum chunk of both sides is one that sysfs accepts. *)
ChunksFit == \A d \in Threads : MaxSize[d] \in 1..WinSize

(* No call is cut short, and no ioctl has set a maximum of its own.  A     *)
(* chunk of a write does not begin at the end of the storage or behind it, *)
(* unless an earlier chunk has been rejected: the device reports such an   *)
(* address in the status byte of the reads.                                *)
PatientHosts ==
    /\ Impatient = {}
    /\ ChunksFit
    /\ \A c \in WriteCalls : \A k \in Nat :
         /\ k * MaxSize["wr"] < c.count
         /\ k > 0 => c.addr + k * MaxSize["wr"] <= DiskSize
         => c.addr + k * MaxSize["wr"] < DiskSize

(* The process is inside a chunk. *)
InChunk(p) == fpc[p] \notin {"idle", "loop"}

(* The mutex of a side is held by the process that is in a chunk there. *)
OneHolder ==
    /\ \A p \in Procs : InChunk(p) <=> mutex[Side(p)] = p
    /\ \A d \in Threads : mutex[d] # Nobody => Side(mutex[d]) = d

(* The holder of side d waits for its completion. *)
Waiting(d) == mutex[d] # Nobody /\ fpc[mutex[d]] = "wait"

(* The completion of side d is in one place when the holder waits and in   *)
(* none otherwise.                                                         *)
OneCompletion(d) ==
    /\ Waiting(d) <=>
         ~Reported(d) \/ "comp" \in status[d] \/ hpc = CompletePC(d) \/ done[d] > 0
    /\ ~Reported(d) => "comp" \notin status[d] /\ hpc # CompletePC(d) /\ done[d] = 0
    /\ "comp" \in status[d] => hpc # CompletePC(d) /\ done[d] = 0
    /\ hpc = CompletePC(d) => done[d] = 0
    /\ hpc = UnsetPC(d) => "comp" \in status[d]
    /\ done[d] <= 1

(* Where an engine may have loaded its status byte. *)
StatusPCs == {"unset_comp", "unset_addr_error", "unset_size_error", "set_error", "set_comp"}

(* Nobody changes status byte d between a load and the store that follows: *)
(* what the engine or the handler has loaded is what the byte holds.       *)
StatusPrivate(d) ==
    /\ loaded[d] \subseteq {status[d]}
    /\ loaded[d] # {} => epc[d] \in StatusPCs
    /\ hpc = UnsetPC(d) => hloaded \subseteq {status[d]}
    /\ hpc \notin {UnsetPC("rd"), UnsetPC("wr")} => hloaded = {}

(* What engine d is at does not depend on the host. *)
EngineOrder(d) ==
    /\ ctrl[d] => epc[d] \in {"poll", "accept", "send"} \/ (d = "wr" /\ epc[d] = "unlock")
    /\ d = "rd" /\ phase[d] # "idle" => epc[d] \in {"copy", "unlock"}
    /\ epc[d] \notin {"copy", "unlock", "set_comp", "send"} => copied[d] = 0
    /\ "size_error" \notin status[d]

(* The descriptor is that of the chunk the process is at. *)
DescriptorOf(p) ==
    LET d == Side(p) IN
    /\ fpc[p] \in {"set_addr", "fill", "start", "wait"} => desc[d].size = Chunk(p).size
    /\ fpc[p] \in {"fill", "start", "wait"} => desc[d].addr = Chunk(p).addr

(* The engine has taken the start bit of the chunk the process is at. *)
Issued(p) == fpc[p] \in {"wait", "copy", "check"} /\ ~ctrl[Side(p)]

(* What the engine does with it: it serves the chunk, all of it when it is *)
(* valid, and sets addr_error just when it is not.                         *)
ServedAsAsked(p) ==
    LET d == Side(p) IN
    Issued(p) =>
      /\ epc[d] = "fetch_size" => cmd[d].addr = Chunk(p).addr
      /\ ~Reported(d) /\ epc[d] \in {"set_error", "lock", "copy", "unlock", "set_comp"}
           => cmd[d] = Chunk(p)
      /\ epc[d] = "set_error" => ~Valid(Chunk(p))
      /\ epc[d] \in {"lock", "copy"} => Valid(Chunk(p))
      /\ epc[d] \in {"unset_size_error", "fetch_addr", "fetch_size", "set_error", "lock", "copy"}
           => "addr_error" \notin status[d]
      /\ epc[d] \in {"poll", "unlock", "set_comp", "send"}
           => ("addr_error" \in status[d] <=> ~Valid(Chunk(p)))
      /\ epc[d] \in {"unlock", "set_comp", "send"} /\ Valid(Chunk(p))
           => copied[d] = Chunk(p).size

(* wr_data holds the bytes of the chunk that is being written. *)
WindowOf(p) ==
    p \in Writers /\ fpc[p] \in {"start", "wait"} =>
      \A i \in 0..WinSize - 1 :
        i < Chunk(p).size => wr_data[i] = req[p].data[pos[p] + i + 1]

(* What has been moved was inside the storage, and a write has moved whole *)
(* chunks.                                                                 *)
ChunkInside(p) ==
    /\ pos[p] > 0 => req[p].addr + pos[p] <= DiskSize
    /\ p \in Writers /\ pos[p] < req[p].count
         => \E k \in Nat : pos[p] = k * MaxSize["wr"]

SideInv(d) == OneCompletion(d) /\ StatusPrivate(d) /\ EngineOrder(d)
ServiceInv(p) == DescriptorOf(p) /\ ServedAsAsked(p) /\ WindowOf(p) /\ ChunkInside(p)

CompletionInv ==
    /\ FlashInv
    /\ ChunksFit
    /\ OneHolder
    /\ \A d \in Threads : SideInv(d)
    /\ \A p \in Procs : ServiceInv(p)

-----------------------------------------------------------------------------
(* The invariant holds after probe. *)
LEMMA CompletionInit ==
    ASSUME PatientHosts
    PROVE  FlashInit => CompletionInv
<1> SUFFICES ASSUME FlashInit PROVE CompletionInv
  OBVIOUS
<1> USE DEF FlashInit, DeviceInit, LockInit
<1>1. FlashInv
  BY FlashInitInv
<1>2. OneHolder
  BY FlashAssumption DEF OneHolder, InChunk, Side, Threads
<1>3. ASSUME NEW d \in Threads PROVE SideInv(d)
  <2>1. Reported(d) /\ ~Waiting(d)
    BY DEF Reported, Waiting
  <2>2. hpc \notin {UnsetPC(d), CompletePC(d)}
    BY DEF UnsetPC, CompletePC
  <2>. QED  BY <2>1, <2>2 DEF SideInv, OneCompletion, StatusPrivate, EngineOrder, StatusPCs
<1>4. ASSUME NEW p \in Procs PROVE ServiceInv(p)
  <2>1. MaxSize["wr"] \in Nat
    BY FlashAssumption, DeviceAssumption DEF Threads
  <2>2. ChunkInside(p)
    BY <2>1 DEF ChunkInside, NoCall
  <2>. QED  BY <2>2 DEF ServiceInv, DescriptorOf, ServedAsAsked, Issued, WindowOf
<1>. QED  BY <1>1, <1>2, <1>3, <1>4 DEF CompletionInv, PatientHosts

-----------------------------------------------------------------------------
(* A chunk is at least one byte and fits the window. *)
LEMMA ChunkFitsWindow ==
    ASSUME CompletionInv, NEW p \in Procs, pos[p] < req[p].count
    PROVE  Chunk(p).size \in 1..WinSize /\ pos[p] + Chunk(p).size <= req[p].count
<1>1. /\ req[p].addr \in Nat /\ req[p].count \in Nat /\ pos[p] \in Nat
      /\ MaxSize[Side(p)] \in 1..WinSize /\ WinSize \in Nat
  BY RequestTypes, DeviceAssumption
     DEF CompletionInv, ChunksFit, FlashInv, DriverTypeOK, Side, Threads
<1>. QED  BY <1>1 DEF Chunk, Left

-----------------------------------------------------------------------------
(* While engine d has a command to serve, exactly the process waits that   *)
(* is in a chunk on this side.                                             *)
LEMMA ServedProcess ==
    ASSUME CompletionInv, NEW d \in Threads, ~Reported(d)
    PROVE  \E p \in Procs :
             /\ mutex[d] = p /\ Side(p) = d /\ fpc[p] = "wait"
             /\ \A q \in Procs : InChunk(q) /\ Side(q) = d => q = p
<1>1. Waiting(d)
  BY DEF CompletionInv, SideInv, OneCompletion
<1>2. mutex[d] \in Procs /\ Side(mutex[d]) = d
  BY <1>1 DEF Waiting, CompletionInv, FlashInv, DriverTypeOK, OneHolder
<1>. QED  BY <1>1, <1>2 DEF Waiting, CompletionInv, OneHolder

(* A process that is in a chunk while nobody waits finds the engine away.  *)
LEMMA QuietSide ==
    ASSUME CompletionInv, NEW p \in Procs, InChunk(p), fpc[p] # "wait"
    PROVE  /\ Reported(Side(p)) /\ "comp" \notin status[Side(p)]
           /\ hpc \notin {UnsetPC(Side(p)), CompletePC(Side(p))} /\ done[Side(p)] = 0
           /\ mutex[Side(p)] = p
<1>1. mutex[Side(p)] = p /\ Side(p) \in Threads
  BY DEF CompletionInv, OneHolder, Side, Threads
<1>2. ~Waiting(Side(p))
  BY <1>1 DEF Waiting
<1>. QED
  BY <1>1, <1>2 DEF CompletionInv, FlashInv, DriverTypeOK, SideInv, OneCompletion

(* The chunk of a write does not begin behind the storage. *)
LEMMA WriteBeginsInside ==
    ASSUME PatientHosts, CompletionInv, NEW p \in Writers, pos[p] < req[p].count
    PROVE  Chunk(p).addr < DiskSize
<1>1. p \in Procs
  BY DEF Procs
<1>2. req[p].count \in Nat /\ req[p].addr \in Nat /\ pos[p] \in Nat
  BY <1>1, RequestTypes DEF CompletionInv, FlashInv, DriverTypeOK
<1>3. req[p] \in WriteCalls
  <2>1. fpc[p] # "idle"
    BY <1>1, <1>2 DEF CompletionInv, FlashInv, CallsOK, CallOK, NoCall
  <2>. QED
    BY <1>1, <2>1, FlashAssumption DEF CompletionInv, FlashInv, CallsOK, CallOK, Calls
<1>4. ChunkInside(p)
  BY <1>1 DEF CompletionInv, ServiceInv
<1>5. PICK k \in Nat : pos[p] = k * MaxSize["wr"]
  BY <1>4 DEF ChunkInside
<1>6. k > 0 => pos[p] > 0
  BY <1>5, DeviceAssumption DEF CompletionInv, ChunksFit, Threads
<1>7. k > 0 => req[p].addr + pos[p] <= DiskSize
  BY <1>4, <1>6 DEF ChunkInside
<1>8. req[p].addr + pos[p] < DiskSize
  BY <1>2, <1>3, <1>5, <1>7 DEF PatientHosts
<1>. QED  BY <1>8 DEF Chunk

(* So an engine reports an invalid address in its own status byte. *)
LEMMA ReportsOnItsSide ==
    ASSUME PatientHosts, CompletionInv, NEW e \in Threads, epc[e] = "set_error"
    PROVE  ErrorRegister(e) = e
<1>1. ~Reported(e) /\ ~ctrl[e]
  BY DEF CompletionInv, SideInv, EngineOrder, Reported
<1>2. PICK p \in Procs : Side(p) = e /\ fpc[p] = "wait"
  BY <1>1, ServedProcess
<1>3. cmd[e] = Chunk(p)
  BY <1>1, <1>2 DEF CompletionInv, ServiceInv, ServedAsAsked, Issued
<1>4. CASE e = "wr"
  <2>1. p \in Writers
    BY <1>2, <1>4 DEF Side, Procs
  <2>2. pos[p] < req[p].count
    BY <1>2 DEF CompletionInv, FlashInv, CallsOK, CallOK
  <2>3. cmd[e].addr < DiskSize
    BY <1>3, <2>1, <2>2, WriteBeginsInside
  <2>4. cmd[e].addr \in Nat
    BY DEF CompletionInv, FlashInv, DeviceInv, DeviceTypeOK
  <2>. QED  BY <2>3, <2>4, DeviceAssumption DEF ErrorRegister
<1>. QED  BY <1>4 DEF ErrorRegister, Threads

-----------------------------------------------------------------------------
(* What the invariant of a side depends on. *)
LEMMA SideFrame ==
    ASSUME NEW d \in Threads, SideInv(d), Waiting(d)' <=> Waiting(d),
           ctrl'[d] = ctrl[d], status'[d] = status[d], epc'[d] = epc[d],
           loaded'[d] = loaded[d], copied'[d] = copied[d], phase'[d] = phase[d],
           done'[d] = done[d], UNCHANGED irqVars
    PROVE  SideInv(d)'
  BY DEF SideInv, OneCompletion, StatusPrivate, EngineOrder, Reported, irqVars

(* What the invariant of a process depends on. *)
LEMMA ServiceFrame ==
    ASSUME NEW p \in Procs, ServiceInv(p), NEW d, d = Side(p),
           ctrl'[d] = ctrl[d], status'[d] = status[d], desc'[d] = desc[d],
           epc'[d] = epc[d], cmd'[d] = cmd[d], copied'[d] = copied[d],
           fpc'[p] = fpc[p], req'[p] = req[p], pos'[p] = pos[p],
           p \in Writers => wr_data' = wr_data
    PROVE  ServiceInv(p)'
<1>1. Chunk(p)' = Chunk(p)
  BY DEF Chunk, Left
<1>. QED
  BY <1>1 DEF ServiceInv, DescriptorOf, ServedAsAsked, Issued, WindowOf, ChunkInside,
              Reported, Side, Valid

(* A process outside a chunk only has to stay inside the storage. *)
LEMMA OutsideChunk ==
    ASSUME NEW p \in Procs, ~InChunk(p)', ChunkInside(p)'
    PROVE  ServiceInv(p)'
  BY DEF ServiceInv, DescriptorOf, ServedAsAsked, Issued, WindowOf, InChunk

(* The steps of an engine concern its side only. *)
LEMMA EngineFrame ==
    ASSUME PatientHosts, CompletionInv, NEW e \in Threads, EngineStep(e),
           NEW d \in Threads, d # e
    PROVE  /\ ctrl'[d] = ctrl[d] /\ status'[d] = status[d] /\ epc'[d] = epc[d]
           /\ loaded'[d] = loaded[d] /\ cmd'[d] = cmd[d] /\ copied'[d] = copied[d]
           /\ phase'[d] = phase[d]
<1> USE DEF CompletionInv, FlashInv, DeviceInv, DeviceTypeOK, LockTypeOK, Goto,
            csrVars, lockVars
<1>1. CASE SetAddrError(e)
  <2>1. epc[e] = "set_error"
    BY <1>1 DEF SetAddrError, LoadStatus, StoreStatus
  <2>2. ErrorRegister(e) = e
    BY <2>1, ReportsOnItsSide
  <2>. QED  BY <1>1, <2>2 DEF SetAddrError, LoadStatus, StoreStatus
<1>2. CASE UnsetComp(e) \/ UnsetAddrError(e) \/ UnsetSizeError(e) \/ SetComp(e)
  BY <1>2 DEF UnsetComp, UnsetAddrError, UnsetSizeError, UnsetFlag, SetComp, LoadStatus,
              StoreStatus
<1>3. CASE LockStorage(e) \/ AwaitLock(e) \/ UnlockStorage(e)
  BY <1>3 DEF LockStorage, AwaitLock, UnlockStorage, Acquire, Enqueue, Grant, AwaitGrant,
              Release, engineVars
<1>4. CASE \/ SeeStart(e) \/ UnsetStart(e) \/ FetchAddr(e) \/ FetchSize(e) \/ CopyByte(e)
           \/ CopyDone(e) \/ SendInterrupt(e)
  BY <1>4 DEF SeeStart, UnsetStart, FetchAddr, FetchSize, CopyByte, CopyDone, SendInterrupt
<1>. QED  BY <1>1, <1>2, <1>3, <1>4 DEF EngineStep

(* No engine writes a descriptor or wr_data. *)
LEMMA EngineReadsOnly ==
    ASSUME NEW e \in Threads, EngineStep(e)
    PROVE  UNCHANGED <<desc, wr_data>>
  BY DEF EngineStep, SeeStart, UnsetStart, UnsetComp, UnsetAddrError, UnsetSizeError,
         UnsetFlag, SetAddrError, SetComp, LoadStatus, StoreStatus, FetchAddr, FetchSize,
         LockStorage, AwaitLock, CopyByte, CopyDone, UnlockStorage, SendInterrupt,
         csrVars, dataVars

(* An engine that stores its status byte changes the flags it means to and *)
(* no other.                                                               *)
LEMMA StoreOwn ==
    ASSUME CompletionInv, NEW e \in Threads, NEW unset, NEW set, NEW here, NEW next,
           StoreStatus(e, e, unset, set, here, next)
    PROVE  /\ status'[e] = (status[e] \ unset) \cup set
           /\ loaded'[e] = {} /\ epc[e] = here /\ epc'[e] = next
           /\ ctrl' = ctrl /\ cmd' = cmd /\ copied' = copied /\ phase' = phase
  BY DEF StoreStatus, Goto, lockVars, CompletionInv, FlashInv, DeviceInv, DeviceTypeOK,
         SideInv, StatusPrivate

(* Before the store it has loaded the byte. *)
LEMMA LoadOwn ==
    ASSUME CompletionInv, NEW e \in Threads, NEW here \in StatusPCs, LoadStatus(e, e, here),
           UNCHANGED <<procVars, done, irqVars>>
    PROVE  SideInv(e)' /\ UNCHANGED <<ctrl, status, desc, epc, cmd, copied>>
<1>1. /\ UNCHANGED <<ctrl, status, desc, epc, cmd, copied, phase, done, hpc, hloaded, fpc, mutex>>
      /\ loaded'[e] = {status[e]} /\ epc[e] = here
  BY DEF LoadStatus, csrVars, lockVars, irqVars, procVars, CompletionInv, FlashInv, DeviceInv,
         DeviceTypeOK
<1>. QED
  BY <1>1 DEF CompletionInv, SideInv, OneCompletion, StatusPrivate, EngineOrder, Waiting,
              Reported

(* The invariant of the engine's own side, step by step. *)
LEMMA EngineSide ==
    ASSUME PatientHosts, CompletionInv, NEW e \in Threads, EngineStep(e),
           UNCHANGED <<procVars, done, irqVars>>
    PROVE  SideInv(e)'
<1> USE DEF Goto
<1>a. /\ SideInv(e) /\ DeviceTypeOK /\ DriverTypeOK
      /\ ctrl \in [Threads -> BOOLEAN] /\ epc \in [Threads -> EnginePCs]
      /\ phase \in [Threads -> {"idle", "waiting", "holding"}]
      /\ copied \in [Threads -> 0..WinSize] /\ loaded[e] \subseteq {status[e]}
  BY DEF CompletionInv, FlashInv, DeviceInv, DeviceTypeOK, LockTypeOK, SideInv, StatusPrivate
<1>b. UNCHANGED <<done, hpc, hloaded>> /\ (Waiting(e)' <=> Waiting(e))
  BY DEF procVars, irqVars, Waiting
<1>c. ASSUME NEW here \in StatusPCs, LoadStatus(e, e, here)
      PROVE  SideInv(e)'
  BY <1>c, LoadOwn
<1>1. CASE SeeStart(e)
  <2>1. /\ epc[e] = "poll" /\ epc'[e] = "accept" /\ ctrl[e]
        /\ UNCHANGED <<ctrl, status, loaded, copied, phase>>
    BY <1>1, <1>a DEF SeeStart, csrVars, lockVars
  <2>. QED
    BY <1>a, <1>b, <2>1 DEF SideInv, OneCompletion, StatusPrivate, EngineOrder, Reported,
                            StatusPCs
<1>2. CASE UnsetStart(e)
  <2>1. /\ epc[e] = "accept" /\ epc'[e] = "unset_comp" /\ ~ctrl'[e]
        /\ UNCHANGED <<status, loaded, copied, phase>>
    BY <1>2, <1>a DEF UnsetStart, lockVars
  <2>. QED
    BY <1>a, <1>b, <2>1 DEF SideInv, OneCompletion, StatusPrivate, EngineOrder, Reported,
                            StatusPCs
<1>3. ASSUME NEW unset, NEW set \in SUBSET {"addr_error"}, NEW here \in StatusPCs \ {"set_comp"},
             NEW next \in {"unset_addr_error", "unset_size_error", "fetch_addr", "set_comp"},
             StoreStatus(e, e, unset, set, here, next)
      PROVE  SideInv(e)'
  <2>1. /\ status'[e] = (status[e] \ unset) \cup set
        /\ loaded'[e] = {} /\ epc[e] = here /\ epc'[e] = next
        /\ UNCHANGED <<ctrl, copied, phase>>
    BY <1>3, StoreOwn
  <2>2. ~Reported(e) /\ ~Reported(e)' /\ ~ctrl[e] /\ copied[e] = 0
    BY <1>a, <1>3, <2>1 DEF Reported, SideInv, EngineOrder, StatusPCs
  <2>. QED
    BY <1>a, <1>b, <2>1, <2>2 DEF SideInv, OneCompletion, StatusPrivate, EngineOrder,
                                  StatusPCs, UnsetPC
<1>4. CASE UnsetComp(e) \/ UnsetAddrError(e) \/ UnsetSizeError(e)
  BY <1>c, <1>3, <1>4 DEF UnsetComp, UnsetAddrError, UnsetSizeError, UnsetFlag, StatusPCs
<1>5. CASE SetAddrError(e)
  <2>1. ErrorRegister(e) = e
    BY <1>5, ReportsOnItsSide DEF SetAddrError, LoadStatus, StoreStatus
  <2>. QED  BY <1>c, <1>3, <1>5, <2>1 DEF SetAddrError, StatusPCs
<1>6. CASE FetchAddr(e) \/ FetchSize(e)
  <2>1. /\ epc[e] \in {"fetch_addr", "fetch_size"}
        /\ epc'[e] \in {"fetch_size", "lock", "set_error"}
        /\ UNCHANGED <<ctrl, status, loaded, copied, phase>>
    BY <1>6, <1>a DEF FetchAddr, FetchSize, csrVars, lockVars
  <2>. QED
    BY <1>a, <1>b, <2>1 DEF SideInv, OneCompletion, StatusPrivate, EngineOrder, Reported,
                            StatusPCs
<1>7. CASE LockStorage(e)
  <2>1. /\ epc[e] = "lock" /\ epc'[e] = "copy"
        /\ UNCHANGED <<ctrl, status, loaded, copied>>
    BY <1>7, <1>a DEF LockStorage, csrVars
  <2>. QED
    BY <1>a, <1>b, <2>1 DEF SideInv, OneCompletion, StatusPrivate, EngineOrder, Reported,
                            StatusPCs
<1>8. CASE AwaitLock(e)
  <2>1. phase[e] = "waiting" /\ UNCHANGED <<ctrl, status, loaded, copied, epc>>
    BY <1>8 DEF AwaitLock, AwaitGrant, csrVars, engineVars
  <2>. QED
    BY <1>a, <1>b, <2>1 DEF SideInv, OneCompletion, StatusPrivate, EngineOrder, Reported,
                            StatusPCs
<1>9. CASE CopyByte(e)
  <2>1. epc[e] = "copy" /\ UNCHANGED <<ctrl, status, loaded, epc, phase>>
    BY <1>9 DEF CopyByte, csrVars, lockVars
  <2>. QED
    BY <1>a, <1>b, <2>1 DEF SideInv, OneCompletion, StatusPrivate, EngineOrder, Reported,
                            StatusPCs
<1>10. CASE CopyDone(e)
  <2>1. /\ epc[e] = "copy" /\ epc'[e] = IF e = "rd" THEN "unlock" ELSE "set_comp"
        /\ UNCHANGED <<ctrl, status, loaded, copied, phase>>
    BY <1>10, <1>a DEF CopyDone, csrVars, lockVars
  <2>. QED
    BY <1>a, <1>b, <2>1 DEF SideInv, OneCompletion, StatusPrivate, EngineOrder, Reported,
                            StatusPCs, Threads
<1>11. CASE UnlockStorage(e)
  <2>1. /\ epc[e] = "unlock" /\ epc'[e] = IF e = "rd" THEN "set_comp" ELSE "send"
        /\ phase'[e] = "idle"
        /\ UNCHANGED <<ctrl, status, loaded, copied>>
    BY <1>11, <1>a DEF UnlockStorage, Release, csrVars
  <2>. QED
    BY <1>a, <1>b, <2>1 DEF SideInv, OneCompletion, StatusPrivate, EngineOrder, Reported,
                            StatusPCs, Threads
<1>12. CASE SetComp(e)
  <2> DEFINE next == IF phase[e] = "holding" THEN "unlock" ELSE "send"
  <2>1. CASE LoadStatus(e, e, "set_comp")
    BY <2>1, <1>c DEF StatusPCs
  <2>2. CASE StoreStatus(e, e, {}, {"comp"}, "set_comp", next)
    <3>1. /\ status'[e] = status[e] \cup {"comp"} /\ loaded'[e] = {}
          /\ epc[e] = "set_comp" /\ epc'[e] = next
          /\ UNCHANGED <<ctrl, copied, phase>>
      BY <2>2, StoreOwn
    <3>2. ~Reported(e) /\ ~ctrl[e] /\ (e = "rd" => phase[e] = "idle")
      BY <1>a, <3>1 DEF Reported, SideInv, EngineOrder
    <3>3. Reported(e)'
      BY <3>1, <3>2 DEF Reported, Threads
    <3>4. hpc # CompletePC(e) /\ hpc # UnsetPC(e) /\ done[e] = 0 /\ Waiting(e)
      BY <1>a, <3>2 DEF SideInv, OneCompletion
    <3>. QED
      BY <1>a, <1>b, <3>1, <3>2, <3>3, <3>4
         DEF SideInv, OneCompletion, StatusPrivate, EngineOrder, Threads, UnsetPC, CompletePC
  <2>. QED  BY <1>12, <2>1, <2>2 DEF SetComp
<1>13. CASE SendInterrupt(e)
  <2>1. /\ epc[e] = "send" /\ epc'[e] = "poll" /\ copied'[e] = 0
        /\ UNCHANGED <<ctrl, status, loaded, phase>>
    BY <1>13, <1>a DEF SendInterrupt, csrVars, lockVars
  <2>. QED
    BY <1>a, <1>b, <2>1 DEF SideInv, OneCompletion, StatusPrivate, EngineOrder, Reported,
                            StatusPCs
<1>. QED
  BY <1>1, <1>2, <1>4, <1>5, <1>6, <1>7, <1>8, <1>9, <1>10, <1>11, <1>12, <1>13 DEF EngineStep

(* What the engine does with the chunk of a process on its side. *)
LEMMA EngineService ==
    ASSUME PatientHosts, CompletionInv, NEW e \in Threads, EngineStep(e),
           UNCHANGED <<procVars, done, irqVars>>, NEW p \in Procs, Side(p) = e
    PROVE  ServedAsAsked(p)'
<1> SUFFICES ASSUME Issued(p)' PROVE ServedAsAsked(p)'
  BY DEF ServedAsAsked
<1> USE DEF Goto
<1>a. /\ SideInv(e) /\ DescriptorOf(p) /\ ServedAsAsked(p)
      /\ ctrl \in [Threads -> BOOLEAN] /\ epc \in [Threads -> EnginePCs]
      /\ desc \in [Threads -> [addr : Nat, size : Nat]]
      /\ cmd \in [Threads -> [addr : Nat, size : 0..WinSize]]
      /\ copied \in [Threads -> 0..WinSize]
  BY DEF CompletionInv, FlashInv, DeviceInv, DeviceTypeOK, ServiceInv
<1>b. /\ UNCHANGED <<fpc, req, pos, desc>>
      /\ Chunk(p)' = Chunk(p) /\ (Valid(Chunk(p))' <=> Valid(Chunk(p)))
  BY EngineReadsOnly DEF procVars, Chunk, Left, Valid
<1>c. fpc[p] \in {"wait", "copy", "check"} /\ ~ctrl'[e]
  BY <1>b DEF Issued
<1>d. ~Reported(e) => fpc[p] = "wait"
  BY <1>c, ServedProcess DEF InChunk
<1>e. Chunk(p) = [addr |-> Chunk(p).addr, size |-> Chunk(p).size]
  BY DEF Chunk
<1>f. Chunk(p).size \in 1..WinSize
  <2>1. pos[p] < req[p].count
    BY <1>c DEF CompletionInv, FlashInv, CallsOK, CallOK
  <2>. QED  BY <2>1, ChunkFitsWindow
<1>g. ASSUME UNCHANGED <<ctrl, status, desc, epc, cmd, copied>>
      PROVE  ServedAsAsked(p)'
  BY <1>a, <1>b, <1>g DEF ServedAsAsked, Issued, Reported
<1>h. ASSUME NEW here \in StatusPCs, LoadStatus(e, e, here)
      PROVE  ServedAsAsked(p)'
  BY <1>g, <1>h, LoadOwn
<1> USE DEF ServedAsAsked
<1>1. CASE SeeStart(e)
  BY <1>1, <1>c DEF SeeStart, csrVars
<1>2. CASE UnsetStart(e)
  <2>1. epc'[e] = "unset_comp"
    BY <1>2, <1>a DEF UnsetStart
  <2>. QED  BY <2>1
<1>3. ASSUME NEW unset, NEW set, NEW here, NEW next, StoreStatus(e, e, unset, set, here, next)
      PROVE  /\ epc[e] = here /\ epc'[e] = next
             /\ status'[e] = (status[e] \ unset) \cup set
             /\ cmd' = cmd /\ copied' = copied /\ Issued(p)
  BY <1>3, <1>c, StoreOwn DEF Issued
<1>4. CASE UnsetComp(e) \/ UnsetAddrError(e) \/ UnsetSizeError(e)
  <2>1. CASE \E here \in StatusPCs : LoadStatus(e, e, here)
    BY <2>1, <1>h
  <2>2. CASE StoreStatus(e, e, {"comp"}, {}, "unset_comp", "unset_addr_error")
    BY <2>2, <1>3
  <2>3. CASE StoreStatus(e, e, {"addr_error"}, {}, "unset_addr_error", "unset_size_error")
    BY <2>3, <1>3
  <2>4. CASE StoreStatus(e, e, {"size_error"}, {}, "unset_size_error", "fetch_addr")
    BY <2>4, <1>3, <1>a
  <2>. QED
    BY <1>4, <2>1, <2>2, <2>3, <2>4
       DEF UnsetComp, UnsetAddrError, UnsetSizeError, UnsetFlag, StatusPCs
<1>5. CASE FetchAddr(e)
  <2>1. /\ epc[e] = "fetch_addr" /\ epc'[e] = "fetch_size"
        /\ cmd'[e].addr = desc[e].addr /\ UNCHANGED <<ctrl, status>>
    BY <1>5, <1>a DEF FetchAddr, csrVars
  <2>2. fpc[p] = "wait" /\ Issued(p)
    BY <1>c, <1>d, <2>1 DEF Reported, Issued
  <2>. QED  BY <1>a, <1>b, <2>1, <2>2 DEF DescriptorOf
<1>6. CASE FetchSize(e)
  <2> DEFINE c == [cmd[e] EXCEPT !.size = Clamp(desc[e].size)]
  <2>1. /\ epc[e] = "fetch_size" /\ epc'[e] = IF Valid(c) THEN "lock" ELSE "set_error"
        /\ cmd'[e] = c /\ UNCHANGED <<ctrl, status, copied>>
    BY <1>6, <1>a DEF FetchSize, csrVars
  <2>2. fpc[p] = "wait" /\ Issued(p)
    BY <1>c, <1>d, <2>1 DEF Reported, Issued
  <2>3. desc[e].size = Chunk(p).size /\ cmd[e].addr = Chunk(p).addr
    BY <1>a, <2>1, <2>2 DEF DescriptorOf
  <2>4. Clamp(desc[e].size) = Chunk(p).size
    BY <1>f, <2>3, DeviceAssumption DEF Clamp
  <2>5. c = Chunk(p)
    BY <1>a, <1>e, <2>3, <2>4
  <2> HIDE DEF c
  <2>. QED  BY <1>a, <1>b, <2>1, <2>2, <2>5
<1>7. CASE SetAddrError(e)
  <2>1. ErrorRegister(e) = e
    BY <1>7, ReportsOnItsSide DEF SetAddrError, LoadStatus, StoreStatus
  <2>2. CASE LoadStatus(e, e, "set_error")
    BY <2>2, <1>h DEF StatusPCs
  <2>3. CASE StoreStatus(e, e, {}, {"addr_error"}, "set_error", "set_comp")
    <3>1. ~Reported(e)
      BY <2>3, <1>3 DEF Reported
    <3>. QED  BY <1>a, <1>b, <2>3, <3>1, <1>3
  <2>. QED  BY <1>7, <2>1, <2>2, <2>3 DEF SetAddrError
<1>8. CASE LockStorage(e)
  <2>1. epc[e] = "lock" /\ epc'[e] = "copy" /\ UNCHANGED <<ctrl, status, cmd>>
    BY <1>8, <1>a DEF LockStorage, csrVars
  <2>. QED  BY <1>a, <1>b, <1>c, <2>1 DEF Issued, Reported
<1>9. CASE AwaitLock(e)
  BY <1>9, <1>g DEF AwaitLock, csrVars, engineVars
<1>10. CASE CopyByte(e)
  <2>1. epc[e] = "copy" /\ UNCHANGED <<ctrl, status, cmd, epc>>
    BY <1>10 DEF CopyByte, csrVars
  <2>. QED  BY <1>a, <1>b, <1>c, <2>1 DEF Issued, Reported
<1>11. CASE CopyDone(e)
  <2>1. /\ epc[e] = "copy" /\ epc'[e] \in {"unlock", "set_comp"} /\ copied[e] = cmd[e].size
        /\ UNCHANGED <<ctrl, status, cmd, copied>>
    BY <1>11, <1>a DEF CopyDone, csrVars
  <2>2. Issued(p) /\ ~Reported(e)
    BY <1>c, <2>1 DEF Issued, Reported
  <2>. QED  BY <1>a, <1>b, <2>1, <2>2
<1>12. CASE UnlockStorage(e)
  <2>1. /\ epc[e] = "unlock" /\ epc'[e] = IF e = "rd" THEN "set_comp" ELSE "send"
        /\ UNCHANGED <<ctrl, status, cmd, copied>>
    BY <1>12, <1>a DEF UnlockStorage, csrVars
  <2>. QED  BY <1>a, <1>b, <1>c, <2>1 DEF Issued, Reported, Threads
<1>13. CASE SetComp(e)
  <2> DEFINE next == IF phase[e] = "holding" THEN "unlock" ELSE "send"
  <2>1. CASE LoadStatus(e, e, "set_comp")
    BY <2>1, <1>h DEF StatusPCs
  <2>2. CASE StoreStatus(e, e, {}, {"comp"}, "set_comp", next)
    <3>1. ~Reported(e) /\ next \in {"unlock", "send"}
      BY <2>2, <1>3 DEF Reported
    <3> HIDE DEF next
    <3>. QED  BY <1>a, <1>b, <2>2, <3>1, <1>3 DEF Reported
  <2>. QED  BY <1>13, <2>1, <2>2 DEF SetComp
<1>14. CASE SendInterrupt(e)
  <2>1. epc[e] = "send" /\ epc'[e] = "poll" /\ UNCHANGED <<ctrl, status>>
    BY <1>14, <1>a DEF SendInterrupt, csrVars
  <2>. QED  BY <1>a, <1>b, <1>c, <2>1 DEF Issued, Reported
<1>. QED
  BY <1>1, <1>2, <1>4, <1>5, <1>6, <1>7, <1>8, <1>9, <1>10, <1>11, <1>12, <1>13, <1>14
     DEF EngineStep

(* A step of the device keeps the invariant. *)
LEMMA DeviceCompletes ==
    ASSUME PatientHosts, CompletionInv, DeviceStep
    PROVE  CompletionInv'
<1>1. UNCHANGED <<procVars, done, irqVars>>
  BY DEF DeviceStep
<1>2. UNCHANGED <<fpc, req, pos, mutex, done>>
  BY <1>1 DEF procVars
<1>3. FlashInv'
  BY FlashSteps DEF CompletionInv, FlashNext
<1>4. OneHolder'
  BY <1>2 DEF CompletionInv, OneHolder, InChunk, Side
<1>5. \A d \in Threads : Waiting(d)' <=> Waiting(d)
  BY <1>2 DEF Waiting
<1>6. \A d \in Threads : SideInv(d)
  BY DEF CompletionInv
<1>7. \A p \in Procs : ServiceInv(p) /\ Side(p) \in Threads
  BY DEF CompletionInv, Side, Threads
<1>8. CASE chr_read
  <2>1. UNCHANGED <<ctrl, status, desc, epc, loaded, cmd, copied, wr_data, phase>>
    BY <1>8 DEF chr_read, csrVars, engineVars, dataVars, lockVars
  <2>2. \A d \in Threads : SideInv(d)'
    BY <1>1, <1>2, <1>5, <1>6, <2>1, SideFrame
  <2>3. \A p \in Procs : ServiceInv(p)'
    BY <1>2, <1>7, <2>1, ServiceFrame
  <2>. QED  BY <1>3, <1>4, <2>2, <2>3 DEF CompletionInv
<1>9. ASSUME NEW e \in Threads, EngineStep(e)
      PROVE  CompletionInv'
  <2>1. \A d \in Threads : SideInv(d)'
    BY <1>1, <1>2, <1>5, <1>6, <1>9, EngineFrame, EngineSide, SideFrame
  <2>2. UNCHANGED <<desc, wr_data>>
    BY <1>9, EngineReadsOnly
  <2>3. ASSUME NEW p \in Procs
        PROVE  ServiceInv(p)'
    <3>1. CASE Side(p) # e
      <4>1. Side(p) \in Threads
        BY <1>7
      <4>. QED  BY <1>2, <1>7, <1>9, <2>2, <3>1, <4>1, EngineFrame, ServiceFrame
    <3>2. CASE Side(p) = e
      <4>1. ServedAsAsked(p)'
        BY <1>1, <1>9, <3>2, EngineService
      <4>2. Chunk(p)' = Chunk(p)
        BY <1>2 DEF Chunk, Left
      <4>. QED
        BY <1>2, <1>7, <2>2, <4>1, <4>2
           DEF ServiceInv, DescriptorOf, WindowOf, ChunkInside, Side
    <3>. QED  BY <3>1, <3>2
  <2>. QED  BY <1>3, <1>4, <2>1, <2>3 DEF CompletionInv
<1>. QED  BY <1>8, <1>9 DEF DeviceStep, DeviceNext

-----------------------------------------------------------------------------
(* The handler changes comp bits only. *)
LEMMA HandlerServes ==
    ASSUME NEW p \in Procs, ServiceInv(p),
           UNCHANGED <<ctrl, desc, epc, cmd, copied, wr_data, fpc, req, pos>>,
           \A d \in Threads : "addr_error" \in status'[d] <=> "addr_error" \in status[d]
    PROVE  ServiceInv(p)'
<1>1. Chunk(p)' = Chunk(p) /\ Side(p) \in Threads
  BY DEF Chunk, Left, Side, Threads
<1>. QED
  BY <1>1 DEF ServiceInv, DescriptorOf, ServedAsAsked, Issued, WindowOf, ChunkInside,
              Reported, Side, Valid

(* What it does with the completion of one side. *)
LEMMA HandlerSide ==
    ASSUME CompletionInv, NEW d \in Threads,
           HandlerTest(d) \/ HandlerLoad(d) \/ HandlerStore(d) \/ HandlerComplete(d),
           NEW o \in Threads
    PROVE  SideInv(o)'
<1> USE DEF Handler, Threads, TestPC, UnsetPC, CompletePC, AfterPC
<1>a. /\ SideInv(o) /\ SideInv(d) /\ hloaded \in SUBSET SUBSET Flags
      /\ status \in [Threads -> SUBSET Flags] /\ done \in [Threads -> Nat]
      /\ hpc \in {"idle", "test_rd", "test_wr", "unset_rd", "unset_wr", "complete_rd",
                  "complete_wr"}
  BY DEF CompletionInv, FlashInv, DriverTypeOK, DeviceInv, DeviceTypeOK
<1>b. /\ UNCHANGED <<ctrl, epc, loaded, copied, phase>>
      /\ (Waiting(o)' <=> Waiting(o)) /\ (Reported(o)' <=> Reported(o))
  BY DEF HandlerTest, HandlerLoad, HandlerStore, HandlerComplete, deviceVars, csrVars,
         engineVars, lockVars, procVars, Waiting, Reported
<1> USE DEF SideInv, OneCompletion, StatusPrivate, EngineOrder
<1>1. CASE HandlerTest(d)
  <2>1. UNCHANGED <<status, done, hloaded>>
    BY <1>1 DEF HandlerTest, deviceVars, csrVars
  <2>. QED  BY <1>a, <1>b, <1>1, <2>1 DEF HandlerTest
<1>2. CASE HandlerLoad(d)
  <2>1. UNCHANGED <<status, done, hpc>> /\ hpc = UnsetPC(d) /\ hloaded' = {status[d]}
    BY <1>2 DEF HandlerLoad, deviceVars, csrVars
  <2>. QED  BY <1>a, <1>b, <2>1
<1>3. CASE HandlerStore(d)
  <2>1. /\ hpc = UnsetPC(d) /\ hpc' = CompletePC(d) /\ done' = done /\ hloaded' = {}
        /\ status' = [status EXCEPT ![d] = status[d] \ {"comp"}]
    BY <1>a, <1>3 DEF HandlerStore
  <2>2. Reported(d) /\ "comp" \in status[d] /\ Waiting(d) /\ done[d] = 0 /\ loaded[d] = {}
    BY <1>a, <2>1 DEF Reported, StatusPCs
  <2>. QED  BY <1>a, <1>b, <2>1, <2>2
<1>4. CASE HandlerComplete(d)
  <2>1. /\ hpc = CompletePC(d) /\ hpc' = AfterPC(d) /\ hloaded' = hloaded
        /\ status' = status /\ done' = [done EXCEPT ![d] = @ + 1]
    BY <1>4 DEF HandlerComplete, deviceVars, csrVars
  <2>2. Reported(d) /\ "comp" \notin status[d] /\ Waiting(d) /\ done[d] = 0
    BY <1>a, <2>1
  <2>. QED  BY <1>a, <1>b, <2>1, <2>2
<1>. QED  BY <1>1, <1>2, <1>3, <1>4

(* A step of the handler keeps the invariant. *)
LEMMA HandlerCompletes ==
    ASSUME CompletionInv, r04flash_irq
    PROVE  CompletionInv'
<1>1. FlashInv'
  BY FlashSteps DEF CompletionInv, FlashNext
<1>2. CASE HandlerEnter
  <2>1. /\ UNCHANGED <<ctrl, status, desc, epc, loaded, cmd, copied, wr_data, phase>>
        /\ UNCHANGED <<fpc, req, pos, mutex, done, hloaded>>
        /\ hpc = "idle" /\ hpc' = "test_rd"
    BY <1>2 DEF HandlerEnter, Handler, csrVars, engineVars, dataVars, lockVars, procVars
  <2>2. ASSUME NEW d \in Threads
        PROVE  SideInv(d)'
    BY <2>1 DEF CompletionInv, SideInv, OneCompletion, StatusPrivate, EngineOrder, Waiting,
                Reported, UnsetPC, CompletePC
  <2>3. \A p \in Procs : ServiceInv(p)'
    BY <2>1, HandlerServes DEF CompletionInv
  <2>4. OneHolder'
    BY <2>1 DEF CompletionInv, OneHolder, InChunk, Side
  <2>. QED  BY <1>1, <2>2, <2>3, <2>4 DEF CompletionInv
<1>3. ASSUME NEW d \in Threads,
             HandlerTest(d) \/ HandlerLoad(d) \/ HandlerStore(d) \/ HandlerComplete(d)
      PROVE  CompletionInv'
  <2>1. UNCHANGED <<ctrl, desc, epc, cmd, copied, wr_data, fpc, req, pos, mutex>>
    BY <1>3 DEF HandlerTest, HandlerLoad, HandlerStore, HandlerComplete, deviceVars, csrVars,
                engineVars, dataVars, procVars
  <2>2. ASSUME NEW o \in Threads
        PROVE  "addr_error" \in status'[o] <=> "addr_error" \in status[o]
    <3>1. CASE UNCHANGED status
      BY <3>1
    <3>2. CASE HandlerStore(d)
      BY <3>2 DEF HandlerStore, Handler, CompletionInv, SideInv, StatusPrivate, FlashInv,
                  DeviceInv, DeviceTypeOK
    <3>. QED
      BY <1>3, <3>1, <3>2 DEF HandlerTest, HandlerLoad, HandlerComplete, deviceVars, csrVars
  <2>3. \A p \in Procs : ServiceInv(p)'
    BY <2>1, <2>2, HandlerServes DEF CompletionInv
  <2>4. \A o \in Threads : SideInv(o)'
    BY <1>3, HandlerSide
  <2>5. OneHolder'
    BY <2>1 DEF CompletionInv, OneHolder, InChunk, Side
  <2>. QED  BY <1>1, <2>3, <2>4, <2>5 DEF CompletionInv
<1>. QED  BY <1>2, <1>3 DEF r04flash_irq

-----------------------------------------------------------------------------
(* A step of a call that is not cut short. *)
PatientStep(p) ==
    \/ Call(p) \/ ReturnAll(p) \/ LockChunk(p) \/ SetSize(p) \/ SetAddr(p) \/ Fill(p)
    \/ Start(p) \/ Completed(p) \/ CopyOut(p) \/ CheckError(p) \/ NextChunk(p)

(* The hosts of these theorems take no other. *)
LEMMA OnlyPatientSteps ==
    ASSUME PatientHosts, NEW p \in Procs, Call(p) \/ CallStep(p)
    PROVE  PatientStep(p)
  BY DEF PatientHosts, CallStep, PatientStep, LockInterrupted, WaitCutShort, BadUserBuffer

(* What the steps of a call leave alone. *)
LEMMA CallFrame ==
    ASSUME CompletionInv, NEW p \in Procs, PatientStep(p)
    PROVE  /\ UNCHANGED <<status, epc, loaded, cmd, copied, storage, rd_data, phase, irqVars>>
           /\ \A q \in Procs \ {p} : fpc'[q] = fpc[q] /\ req'[q] = req[q] /\ pos'[q] = pos[q]
           /\ \A o \in Threads \ {Side(p)} :
                ctrl'[o] = ctrl[o] /\ desc'[o] = desc[o] /\ done'[o] = done[o] /\ mutex'[o] = mutex[o]
<1> USE DEF CompletionInv, FlashInv, DriverTypeOK, DeviceInv, DeviceTypeOK, At, Return,
            ReturnError, deviceVars, csrVars, engineVars, dataVars, wireVars, lockVars
<1>1. CASE Call(p) \/ ReturnAll(p) \/ LockChunk(p)
  BY <1>1 DEF Call, ReturnAll, LockChunk
<1>2. CASE SetSize(p) \/ SetAddr(p) \/ Fill(p) \/ Start(p)
  BY <1>2 DEF SetSize, SetAddr, Fill, Start
<1>3. CASE Completed(p) \/ CopyOut(p) \/ CheckError(p) \/ NextChunk(p)
  BY <1>3 DEF Completed, CopyOut, CheckError, NextChunk
<1>. QED  BY <1>1, <1>2, <1>3 DEF PatientStep

(* The mutex of the side follows the process into a chunk and out of it.   *)
LEMMA CallHolder ==
    ASSUME CompletionInv, NEW p \in Procs, PatientStep(p)
    PROVE  OneHolder'
<1> USE DEF At, Return, ReturnError, Call, ReturnAll, SetSize, SetAddr, Fill, Start,
            Completed, CopyOut, LockChunk, CheckError, NextChunk
<1>a. /\ OneHolder /\ Side(p) \in Threads /\ Nobody \notin Procs
      /\ mutex \in [Threads -> Procs \cup {Nobody}]
      /\ fpc \in [Procs -> {"idle", "loop", "set_size", "set_addr", "fill", "start",
                       "wait", "copy", "check"}]
  BY FlashAssumption DEF CompletionInv, FlashInv, DriverTypeOK, Side, Threads
<1>b. \A q \in Procs \ {p} : InChunk(q)' <=> InChunk(q)
  BY CallFrame DEF InChunk
<1>1. CASE Call(p) \/ ReturnAll(p) \/ SetSize(p) \/ SetAddr(p) \/ Fill(p) \/ Start(p)
           \/ Completed(p) \/ CopyOut(p)
  <2>1. mutex' = mutex /\ (InChunk(p)' <=> InChunk(p))
    BY <1>1, <1>a DEF InChunk
  <2>. QED  BY <1>a, <1>b, <2>1 DEF OneHolder, Side
<1>2. CASE LockChunk(p)
  <2>1. /\ mutex[Side(p)] = Nobody /\ mutex' = [mutex EXCEPT ![Side(p)] = p]
        /\ InChunk(p)'
    BY <1>2, <1>a DEF InChunk
  <2> HIDE DEF LockChunk
  <2>2. ASSUME NEW q \in Procs
        PROVE  InChunk(q)' <=> mutex'[Side(q)] = q
    BY <1>a, <1>b, <2>1 DEF OneHolder
  <2>3. ASSUME NEW d \in Threads, mutex'[d] # Nobody
        PROVE  Side(mutex'[d]) = d
    BY <1>a, <2>1, <2>3 DEF OneHolder
  <2>. QED  BY <2>2, <2>3 DEF OneHolder, Side
<1>3. CASE CheckError(p) \/ NextChunk(p)
  <2>1. /\ InChunk(p) /\ ~InChunk(p)' /\ mutex' = [mutex EXCEPT ![Side(p)] = Nobody]
    BY <1>3, <1>a DEF InChunk
  <2>2. ASSUME NEW q \in Procs
        PROVE  InChunk(q)' <=> mutex'[Side(q)] = q
    BY <1>a, <1>b, <2>1 DEF OneHolder
  <2>3. ASSUME NEW d \in Threads, mutex'[d] # Nobody
        PROVE  Side(mutex'[d]) = d
    BY <1>a, <2>1, <2>3 DEF OneHolder
  <2>. QED  BY <2>2, <2>3 DEF OneHolder, Side
<1>. QED  BY <1>1, <1>2, <1>3 DEF PatientStep

(* The completion of the process's own side. *)
LEMMA CallSide ==
    ASSUME CompletionInv, NEW p \in Procs, PatientStep(p)
    PROVE  SideInv(Side(p))'
<1> DEFINE d == Side(p)
<1>a. d \in Threads /\ p # Nobody /\ d' = d
  BY FlashAssumption DEF Side, Threads
<1>b. /\ SideInv(d) /\ ctrl \in [Threads -> BOOLEAN] /\ done \in [Threads -> Nat]
      /\ fpc \in [Procs -> {"idle", "loop", "set_size", "set_addr", "fill", "start",
                       "wait", "copy", "check"}]
      /\ mutex \in [Threads -> Procs \cup {Nobody}]
  BY <1>a DEF CompletionInv, FlashInv, DriverTypeOK, DeviceInv, DeviceTypeOK
<1>c. /\ UNCHANGED <<status, epc, loaded, copied, phase, hpc, hloaded>>
      /\ \A q \in Procs \ {p} : fpc'[q] = fpc[q]
  BY CallFrame DEF irqVars
<1>d. InChunk(p) <=> mutex[d] = p
  BY DEF CompletionInv, OneHolder
<1>e. InChunk(p) /\ fpc[p] # "wait" =>
        Reported(d) /\ "comp" \notin status[d] /\ hpc # UnsetPC(d) /\ hpc # CompletePC(d) /\ done[d] = 0
  BY QuietSide
<1> HIDE DEF d
<1> USE DEF At, Return, ReturnError, deviceVars, csrVars
<1>1. CASE Call(p) \/ ReturnAll(p)
  <2>1. UNCHANGED <<ctrl, done, mutex>> /\ ~InChunk(p) /\ fpc'[p] # "wait"
    BY <1>1, <1>b DEF Call, ReturnAll, InChunk
  <2>2. Waiting(d)' <=> Waiting(d)
    BY <1>a, <1>b, <1>c, <1>d, <2>1 DEF Waiting
  <2>. QED  BY <1>a, <1>b, <1>c, <2>1, <2>2, SideFrame DEF irqVars, d
<1>2. CASE LockChunk(p)
  <2>1. /\ ctrl' = ctrl /\ mutex[d] = Nobody /\ mutex'[d] = p /\ done'[d] = 0
        /\ fpc'[p] = "set_size"
    BY <1>2, <1>a, <1>b DEF LockChunk, d
  <2>2. ~Waiting(d) /\ ~Waiting(d)'
    BY <1>a, <2>1 DEF Waiting
  <2>3. done[d] = 0
    BY <1>a, <1>b, <2>2 DEF SideInv, OneCompletion
  <2>. QED  BY <1>a, <1>b, <1>c, <2>1, <2>2, <2>3, SideFrame DEF irqVars, d
<1>3. CASE SetSize(p) \/ SetAddr(p) \/ Fill(p) \/ CopyOut(p)
  <2>1. /\ UNCHANGED <<ctrl, done, mutex>> /\ InChunk(p) /\ fpc[p] # "wait"
        /\ fpc'[p] # "wait"
    BY <1>3, <1>b DEF SetSize, SetAddr, Fill, CopyOut, InChunk
  <2>2. ~Waiting(d) /\ ~Waiting(d)'
    BY <1>a, <1>d, <2>1 DEF Waiting
  <2>. QED  BY <1>a, <1>b, <1>c, <2>1, <2>2, SideFrame DEF irqVars, d
<1>4. CASE CheckError(p) \/ NextChunk(p)
  <2>1. /\ UNCHANGED <<ctrl, done>> /\ InChunk(p) /\ fpc[p] # "wait" /\ mutex'[d] = Nobody
    BY <1>4, <1>a, <1>b DEF CheckError, NextChunk, InChunk, d
  <2>2. ~Waiting(d) /\ ~Waiting(d)'
    BY <1>a, <1>d, <2>1 DEF Waiting
  <2>. QED  BY <1>a, <1>b, <1>c, <2>1, <2>2, SideFrame DEF irqVars, d
<1>5. CASE Start(p)
  <2>1. /\ UNCHANGED <<done, mutex>> /\ InChunk(p) /\ fpc[p] = "start" /\ fpc'[p] = "wait"
        /\ ctrl'[d]
    BY <1>5, <1>a, <1>b DEF Start, InChunk, d
  <2>2. Waiting(d)'
    BY <1>a, <1>d, <2>1 DEF Waiting
  <2>3. ~Reported(d)'
    BY <1>a, <2>1 DEF Reported
  <2>4. epc[d] \in {"poll", "send"} \/ (d = "wr" /\ epc[d] = "unlock")
    BY <1>e, <2>1 DEF Reported
  <2>5. SideInv(d)'
    BY <1>a, <1>b, <1>c, <1>e, <2>1, <2>2, <2>3, <2>4
       DEF SideInv, OneCompletion, StatusPrivate, EngineOrder
  <2>. QED  BY <1>a, <2>5 DEF d
<1>6. CASE Completed(p)
  <2>1. /\ UNCHANGED <<ctrl, mutex>> /\ InChunk(p) /\ fpc'[p] # "wait"
        /\ done[d] > 0 /\ done'[d] = done[d] - 1
    BY <1>6, <1>a, <1>b DEF Completed, InChunk, d
  <2>2. ~Waiting(d)'
    BY <1>a, <1>d, <2>1 DEF Waiting
  <2>3. Reported(d)' <=> Reported(d)
    BY <1>a, <1>c, <2>1 DEF Reported
  <2>4. SideInv(d)'
    BY <1>a, <1>b, <1>c, <2>1, <2>2, <2>3
       DEF SideInv, OneCompletion, StatusPrivate, EngineOrder
  <2>. QED  BY <1>a, <2>4 DEF d
<1>. QED  BY <1>1, <1>2, <1>3, <1>4, <1>5, <1>6 DEF PatientStep

(* When a chunk ends without an error flag the device has served it.       *)
LEMMA ServedChunk ==
    ASSUME CompletionInv, NEW p \in Procs, fpc[p] \in {"copy", "check"}
    PROVE  /\ Issued(p) /\ epc[Side(p)] \in {"poll", "send", "unlock"}
           /\ "addr_error" \in status[Side(p)] <=> ~Valid(Chunk(p))
           /\ "size_error" \notin status[Side(p)]
<1>1. Reported(Side(p)) /\ Side(p) \in Threads
  BY QuietSide DEF InChunk, Side, Threads
<1>2. Issued(p) /\ epc[Side(p)] \in {"poll", "send", "unlock"}
  BY <1>1 DEF Reported, Issued
<1>. QED
  BY <1>1, <1>2 DEF CompletionInv, ServiceInv, ServedAsAsked, SideInv, EngineOrder

(* A chunk that is done was inside the storage, and a whole one when the   *)
(* call goes on.                                                           *)
LEMMA ChunkDone ==
    ASSUME CompletionInv, NEW p \in Procs, NextChunk(p)
    PROVE  ChunkInside(p)'
<1> DEFINE size == Chunk(p).size
           m == MaxSize["wr"]
<1>1. /\ req[p].addr \in Nat /\ req[p].count \in Nat /\ pos[p] \in Nat
      /\ DiskSize \in Nat /\ WinSize \in Nat /\ m \in 1..WinSize
  BY RequestTypes, DeviceAssumption
     DEF CompletionInv, ChunksFit, FlashInv, DriverTypeOK, Threads
<1>2. fpc[p] = "check" /\ req' = req /\ pos'[p] = pos[p] + size
  BY DEF NextChunk, At, CompletionInv, FlashInv, DriverTypeOK
<1>3. size \in 1..WinSize /\ pos[p] + size <= req[p].count /\ pos[p] < req[p].count
  BY <1>2, ChunkFitsWindow DEF CompletionInv, FlashInv, CallsOK, CallOK
<1>4. Valid(Chunk(p))
  BY <1>2, ServedChunk DEF NextChunk
<1>5. req[p].addr + pos'[p] <= DiskSize
  <2>1. Chunk(p).addr = req[p].addr + pos[p]
    BY DEF Chunk
  <2>. QED  BY <1>1, <1>2, <1>3, <1>4, <2>1 DEF Valid
<1>6. ASSUME p \in Writers, pos'[p] < req[p].count
      PROVE  \E k \in Nat : pos'[p] = k * m
  <2>1. size = m
    BY <1>1, <1>2, <1>6, FlashAssumption DEF Chunk, Left, Side
  <2>2. PICK k \in Nat : pos[p] = k * m
    BY <1>3, <1>6 DEF CompletionInv, ServiceInv, ChunkInside
  <2> HIDE DEF size, m
  <2>3. pos'[p] = (k + 1) * m
    BY <1>1, <1>2, <2>1, <2>2
  <2>4. k + 1 \in Nat
    OBVIOUS
  <2>. QED  BY <2>3, <2>4
<1>. QED  BY <1>2, <1>5, <1>6 DEF ChunkInside

(* The steps of a process in the service of its own chunk. *)
LEMMA CallService ==
    ASSUME CompletionInv, NEW p \in Procs, PatientStep(p)
    PROVE  ServiceInv(p)'
<1> DEFINE d == Side(p)
<1>a. /\ ServiceInv(p) /\ d \in Threads /\ d' = d
      /\ ctrl \in [Threads -> BOOLEAN] /\ desc \in [Threads -> [addr : Nat, size : Nat]]
      /\ fpc \in [Procs -> {"idle", "loop", "set_size", "set_addr", "fill", "start",
                       "wait", "copy", "check"}]
      /\ req \in [Procs -> ReadCalls \cup WriteCalls \cup {NoCall}] /\ pos \in [Procs -> Nat]
  BY DEF CompletionInv, FlashInv, DriverTypeOK, DeviceInv, DeviceTypeOK, Side, Threads
<1>b. UNCHANGED <<status, epc, cmd, copied>>
  BY CallFrame
<1> HIDE DEF d
<1> USE DEF At, deviceVars, csrVars, dataVars
<1>1. CASE Call(p)
  <2>1. ~InChunk(p)' /\ pos'[p] = 0 /\ fpc[p] = "idle" /\ req'[p] \in Calls(p)
    BY <1>1, <1>a DEF Call, InChunk, CompletionInv, FlashInv, CallsOK, CallOK
  <2>2. MaxSize["wr"] \in Nat
    BY FlashAssumption, DeviceAssumption DEF Threads
  <2>3. ChunkInside(p)'
    BY <2>1, <2>2 DEF ChunkInside
  <2>. QED  BY <2>1, <2>3, OutsideChunk
<1>2. CASE ReturnAll(p) \/ CheckError(p)
  <2>1. ~InChunk(p)' /\ pos'[p] = 0 /\ req'[p] = NoCall
    BY <1>2, <1>a DEF ReturnAll, CheckError, ReturnError, Return, InChunk
  <2>2. ChunkInside(p)'
    BY <2>1 DEF ChunkInside, NoCall
  <2>. QED  BY <2>1, <2>2, OutsideChunk
<1>3. CASE NextChunk(p)
  <2>1. ~InChunk(p)'
    BY <1>3, <1>a DEF NextChunk, InChunk
  <2>. QED  BY <1>3, <2>1, ChunkDone, OutsideChunk
<1>4. CASE \/ LockChunk(p) \/ SetSize(p) \/ SetAddr(p) \/ Fill(p)
           \/ Start(p) \/ Completed(p) \/ CopyOut(p)
  <2>1. UNCHANGED <<req, pos>>
    BY <1>4 DEF LockChunk, SetSize, SetAddr, Fill, Start, Completed, CopyOut
  <2>2. /\ Chunk(p)' = Chunk(p) /\ (Valid(Chunk(p))' <=> Valid(Chunk(p)))
        /\ ChunkInside(p)'
    BY <1>a, <2>1 DEF Chunk, Left, Valid, ServiceInv, ChunkInside
  <2>3. DescriptorOf(p)'
    <3>1. CASE LockChunk(p)
      BY <3>1, <1>a DEF LockChunk, DescriptorOf
    <3>2. CASE SetSize(p)
      <4>1. desc'[d].size = Chunk(p).size /\ fpc'[p] = "set_addr"
        BY <3>2, <1>a DEF SetSize, d
      <4>. QED  BY <2>2, <4>1 DEF DescriptorOf, d, Side
    <3>3. CASE SetAddr(p)
      <4>1. desc'[d].size = desc[d].size /\ desc'[d].addr = Chunk(p).addr
            /\ fpc[p] = "set_addr"
        BY <3>3, <1>a DEF SetAddr, d
      <4>. QED  BY <1>a, <2>2, <4>1 DEF ServiceInv, DescriptorOf, d, Side
    <3>4. CASE Fill(p) \/ Start(p) \/ Completed(p) \/ CopyOut(p)
      <4>1. desc' = desc /\ (fpc'[p] = "start" => fpc[p] = "fill")
            /\ (fpc'[p] = "wait" => fpc[p] = "start")
            /\ fpc'[p] \notin {"set_addr", "fill"}
        BY <3>4, <1>a DEF Fill, Start, Completed, CopyOut
      <4>. QED  BY <1>a, <2>2, <4>1 DEF ServiceInv, DescriptorOf, d, Side
    <3>. QED  BY <1>4, <3>1, <3>2, <3>3, <3>4
  <2>4. ServedAsAsked(p)'
    <3>1. CASE LockChunk(p) \/ SetSize(p) \/ SetAddr(p) \/ Fill(p)
      BY <3>1, <1>a DEF LockChunk, SetSize, SetAddr, Fill, ServedAsAsked, Issued
    <3>2. CASE Start(p)
      <4>1. ctrl'[d]
        BY <3>2, <1>a DEF Start, d
      <4>. QED  BY <4>1 DEF ServedAsAsked, Issued, d, Side
    <3>3. CASE Completed(p) \/ CopyOut(p)
      <4>1. ctrl' = ctrl /\ fpc[p] \in {"wait", "copy"}
        BY <3>3 DEF Completed, CopyOut
      <4>2. Issued(p)' => Issued(p)
        BY <4>1 DEF Issued, Side
      <4>. QED  BY <1>a, <1>b, <2>2, <4>1, <4>2 DEF ServiceInv, ServedAsAsked, Reported, Side
    <3>. QED  BY <1>4, <3>1, <3>2, <3>3
  <2>5. WindowOf(p)'
    <3>1. CASE Fill(p)
      <4>1. \A i \in 0..WinSize - 1 : i < Chunk(p).size
               => wr_data'[i] = req[p].data[pos[p] + i + 1]
        BY <3>1 DEF Fill
      <4>. QED  BY <2>1, <2>2, <4>1 DEF WindowOf
    <3>2. CASE Start(p)
      <4>1. wr_data' = wr_data /\ fpc[p] = "start"
        BY <3>2 DEF Start
      <4>. QED  BY <1>a, <2>1, <2>2, <4>1 DEF ServiceInv, WindowOf
    <3>3. CASE LockChunk(p) \/ SetSize(p) \/ SetAddr(p) \/ Completed(p) \/ CopyOut(p)
      <4>1. p \in Writers => fpc'[p] \notin {"start", "wait"}
        BY <3>3, <1>a DEF LockChunk, SetSize, SetAddr, Completed, CopyOut
      <4>. QED  BY <4>1 DEF WindowOf
    <3>. QED  BY <1>4, <3>1, <3>2, <3>3
  <2>. QED  BY <2>2, <2>3, <2>4, <2>5 DEF ServiceInv
<1>. QED  BY <1>1, <1>2, <1>3, <1>4 DEF PatientStep

(* The steps of a process leave the chunks of the others alone: on its own *)
(* side there is no other chunk.                                           *)
LEMMA CallLeavesOthers ==
    ASSUME CompletionInv, NEW p \in Procs, PatientStep(p), NEW q \in Procs, q # p
    PROVE  ServiceInv(q)'
<1>a. /\ ServiceInv(q) /\ Side(q) \in Threads
      /\ UNCHANGED <<status, epc, cmd, copied>>
      /\ fpc'[q] = fpc[q] /\ req'[q] = req[q] /\ pos'[q] = pos[q]
  BY CallFrame DEF CompletionInv, Side, Threads
<1>1. CASE Side(q) # Side(p)
  <2>1. ctrl'[Side(q)] = ctrl[Side(q)] /\ desc'[Side(q)] = desc[Side(q)]
    BY <1>a, <1>1, CallFrame
  <2>2. q \in Writers => wr_data' = wr_data
    <3>1. q \in Writers => p \in Readers
      BY <1>1, FlashAssumption DEF Side, Procs
    <3>2. Fill(p) => p \in Writers
      BY DEF Fill, At, CompletionInv, FlashInv, CallsOK, CallOK
    <3>3. ~Fill(p) => wr_data' = wr_data
      BY DEF PatientStep, Call, ReturnAll, LockChunk, SetSize, SetAddr, Start, Completed,
             CopyOut, CheckError, NextChunk, deviceVars, dataVars
    <3>. QED  BY <3>1, <3>2, <3>3, FlashAssumption
  <2>. QED  BY <1>a, <2>1, <2>2, ServiceFrame
<1>2. CASE Side(q) = Side(p) /\ InChunk(p)
  <2>1. ~InChunk(q)'
    BY <1>a, <1>2 DEF CompletionInv, OneHolder, InChunk
  <2>2. ChunkInside(q)'
    BY <1>a DEF ServiceInv, ChunkInside
  <2>. QED  BY <2>1, <2>2, OutsideChunk
<1>3. CASE ~InChunk(p)
  <2>1. Call(p) \/ ReturnAll(p) \/ LockChunk(p)
    BY <1>3 DEF PatientStep, InChunk, At, SetSize, SetAddr, Fill, Start, Completed, CopyOut,
                CheckError, NextChunk, ReturnError, Return
  <2>2. UNCHANGED <<ctrl, desc, wr_data>>
    BY <2>1 DEF Call, ReturnAll, LockChunk, deviceVars, csrVars, dataVars
  <2>. QED  BY <1>a, <2>2, ServiceFrame
<1>. QED  BY <1>1, <1>2, <1>3

(* A step of a call keeps the invariant. *)
LEMMA CallCompletes ==
    ASSUME PatientHosts, CompletionInv, NEW p \in Procs, Call(p) \/ CallStep(p)
    PROVE  CompletionInv'
<1>1. PatientStep(p)
  BY OnlyPatientSteps
<1>2. FlashInv'
  BY FlashSteps DEF CompletionInv, FlashNext
<1>3. OneHolder'
  BY <1>1, CallHolder
<1>4. ASSUME NEW o \in Threads
      PROVE  SideInv(o)'
  <2>1. CASE o = Side(p)
    BY <1>1, <2>1, CallSide DEF Side
  <2>2. CASE o # Side(p)
    <3>1. mutex[o] # Nobody => mutex[o] \in Procs \ {p}
      BY <2>2 DEF CompletionInv, OneHolder, FlashInv, DriverTypeOK
    <3>2. Waiting(o)' <=> Waiting(o)
      BY <1>1, <2>2, <3>1, CallFrame DEF Waiting
    <3>. QED  BY <1>1, <2>2, <3>2, CallFrame, SideFrame DEF CompletionInv
  <2>. QED  BY <2>1, <2>2
<1>5. \A q \in Procs : ServiceInv(q)'
  BY <1>1, CallService, CallLeavesOthers
<1>. QED  BY <1>2, <1>3, <1>4, <1>5 DEF CompletionInv

(* Doing nothing keeps it too. *)
LEMMA StutterCompletes ==
    ASSUME CompletionInv, UNCHANGED vars
    PROVE  CompletionInv'
<1>1. FlashInv'
  BY FlashSteps DEF CompletionInv
<1>2. UNCHANGED <<ctrl, status, desc, epc, loaded, cmd, copied, wr_data, phase, fpc, req, pos, mutex,
                  done, hpc, hloaded>>
  BY DEF vars, deviceVars, csrVars, engineVars, dataVars, lockVars, procVars, irqVars
<1>3. \A d \in Threads : SideInv(d)'
  BY <1>2, SideFrame DEF CompletionInv, Waiting, irqVars
<1>4. \A p \in Procs : ServiceInv(p)'
  BY <1>2, ServiceFrame DEF CompletionInv
<1>5. OneHolder'
  BY <1>2 DEF CompletionInv, OneHolder, InChunk, Side
<1>. QED  BY <1>1, <1>3, <1>4, <1>5 DEF CompletionInv

(* So CompletionInv is inductive. *)
LEMMA CompletionSteps ==
    ASSUME PatientHosts, CompletionInv, [FlashNext]_vars
    PROVE  CompletionInv'
  BY DeviceCompletes, HandlerCompletes, CallCompletes, StutterCompletes DEF FlashNext

(* And it holds in every reachable state. *)
LEMMA CompletionInvariant ==
    ASSUME PatientHosts
    PROVE  FlashSpec => []CompletionInv
<1>1. CompletionInv /\ [FlashNext]_vars => CompletionInv'
  BY CompletionSteps
<1>. QED  BY <1>1, CompletionInit, PTL DEF FlashSpec

-----------------------------------------------------------------------------
(* A waiting process has exactly one completion to come, that of its own   *)
(* command: none is lost to the unlocked updates of the status bytes and   *)
(* none is left over for the next command.                                 *)
THEOREM PatientOneCompletionOwed ==
    ASSUME PatientHosts
    PROVE  FlashSpec => []OneCompletionOwed
<1>1. CompletionInv => OneCompletionOwed
  <2> SUFFICES ASSUME CompletionInv, NEW p \in Procs, fpc[p] = "wait"
               PROVE  /\ done[Side(p)] <= 1
                      /\ \E where \in CompletionAt(Side(p)) : CompletionAt(Side(p)) = {where}
    BY DEF OneCompletionOwed
  <2> DEFINE d == Side(p)
  <2>1. mutex[d] = p /\ d \in Threads /\ p # Nobody
    BY FlashAssumption DEF CompletionInv, OneHolder, InChunk, Side, Threads
  <2>2. Waiting(d) /\ SideInv(d) /\ done[d] \in Nat
    BY <2>1 DEF Waiting, CompletionInv, FlashInv, DriverTypeOK
  <2> HIDE DEF d
  <2>3. done[d] <= 1
    BY <2>2 DEF SideInv, OneCompletion
  <2>4. \/ CompletionAt(d) = {"device"} \/ CompletionAt(d) = {"flag"}
        \/ CompletionAt(d) = {"handler"} \/ CompletionAt(d) = {"counter"}
    BY <2>2 DEF SideInv, OneCompletion, CompletionAt
  <2>. QED  BY <2>3, <2>4 DEF d
<1>. QED  BY <1>1, CompletionInvariant, PTL

(* While a process works on the descriptor or the window of its side, or   *)
(* looks at the error flags, the engine of that side is out of the way.    *)
THEOREM PatientHostOwnsSide ==
    ASSUME PatientHosts
    PROVE  FlashSpec => []HostOwnsSide
<1>1. CompletionInv => HostOwnsSide
  BY QuietSide DEF HostOwnsSide, InChunk
<1>. QED  BY <1>1, CompletionInvariant, PTL

(* A call that ends is at its end: all its chunks moved, or one rejected.  *)
LEMMA CallEndsKnown ==
    ASSUME CompletionInv, NEW p \in Procs, PatientStep(p), fpc[p] # "idle", fpc'[p] = "idle"
    PROVE  \/ pos[p] = req[p].count
           \/ result'[p] = IF p \in Readers THEN 0 ELSE ADDRINVAL
<1> USE DEF At
<1>1. fpc \in [Procs -> {"idle", "loop", "set_size", "set_addr", "fill", "start",
                       "wait", "copy", "check"}] /\ result \in [Procs -> Int]
  BY DEF CompletionInv, FlashInv, DriverTypeOK
<1>2. CASE ReturnAll(p)
  <2>1. req[p].count \in Nat /\ pos[p] \in Nat
    BY RequestTypes DEF CompletionInv, FlashInv, DriverTypeOK
  <2>. QED  BY <1>2, <2>1 DEF ReturnAll, Left
<1>3. CASE CheckError(p)
  <2>1. fpc[p] = "check"
    BY <1>3 DEF CheckError, ReturnError, Return
  <2>2. "size_error" \notin status[Side(p)]
    BY <2>1, ServedChunk
  <2>. QED  BY <1>1, <1>3, <2>2 DEF CheckError, ReturnError, Return
<1>4. CASE ~ReturnAll(p) /\ ~CheckError(p)
  BY <1>1, <1>4 DEF PatientStep, Call, LockChunk, SetSize, SetAddr, Fill, Start, Completed,
                    CopyOut, NextChunk
<1>. QED  BY <1>2, <1>3, <1>4

(* A write that begins each of its chunks inside the storage and goes on   *)
(* behind its end returns an error code: the check of the error flags      *)
(* misses only the addresses that the device reports to the reads.         *)
THEOREM PatientWriteErrorReported ==
    ASSUME PatientHosts
    PROVE  FlashSpec => WriteErrorReported
<1> DEFINE Reports(p) == OutOfRange(req[p]) /\ fpc'[p] = "idle" => result'[p] < 0
<1>1. ASSUME CompletionInv, [FlashNext]_vars, NEW p \in Writers
      PROVE  Reports(p) \/ UNCHANGED vars
  <2> SUFFICES ASSUME OutOfRange(req[p]), fpc'[p] = "idle", ~(UNCHANGED vars)
               PROVE  result'[p] < 0
    OBVIOUS
  <2>1. p \in Procs /\ p \notin Readers
    BY FlashAssumption DEF Procs
  <2>2. fpc[p] # "idle"
    BY <1>1, <2>1 DEF CompletionInv, FlashInv, CallsOK, CallOK, OutOfRange, NoCall
  <2>3. PICK q \in Procs : Call(q) \/ CallStep(q)
    <3>1. CASE DeviceStep \/ r04flash_irq
      BY <2>2, <3>1 DEF DeviceStep, r04flash_irq, HandlerEnter, HandlerTest, HandlerLoad,
                        HandlerStore, HandlerComplete, procVars
    <3>. QED  BY <1>1, <3>1 DEF FlashNext
  <2>4. PatientStep(q)
    BY <2>3, OnlyPatientSteps
  <2>5. q = p
    BY <1>1, <2>1, <2>2, <2>4, CallFrame
  <2>6. pos[p] # req[p].count
    <3>1. ChunkInside(p) /\ req[p].count > 0 /\ req[p].addr + req[p].count > DiskSize
      BY <1>1, <2>1 DEF CompletionInv, ServiceInv, OutOfRange
    <3>2. req[p].addr \in Nat /\ req[p].count \in Nat /\ DiskSize \in Nat
      BY <1>1, <2>1, RequestTypes, DeviceAssumption DEF CompletionInv, FlashInv, DriverTypeOK
    <3>. QED  BY <3>1, <3>2 DEF ChunkInside
  <2>7. result'[p] = ADDRINVAL
    BY <1>1, <2>1, <2>2, <2>4, <2>5, <2>6, CallEndsKnown
  <2>. QED  BY <2>7 DEF ADDRINVAL
<1>2. CompletionInv /\ [FlashNext]_vars => [\A p \in Writers : Reports(p)]_vars
  BY <1>1
<1>. QED  BY <1>2, CompletionInvariant, PTL DEF FlashSpec, WriteErrorReported
=============================================================================
