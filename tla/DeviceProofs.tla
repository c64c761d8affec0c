----------------------------- MODULE DeviceProofs -----------------------------
(***************************************************************************)
(* What every step of the device preserves, whatever the host does to the  *)
(* registers and windows.  FlashProofs uses it for the steps of the driver.*)
(***************************************************************************)
EXTENDS Device, AddressLockProofs

DeviceInv == DeviceTypeOK /\ CopiesInsideStorage

(* The length of the range that validate_descriptor lets through.          *)
LEMMA ValidMeansInside ==
    ASSUME NEW c \in [addr : Nat, size : 0..WinSize], Valid(c)
    PROVE  c \in ValidCommands
  BY DeviceAssumption DEF Valid, ValidCommands

(* A size that is cut to WIN_SIZE fits the window. *)
LEMMA ClampFits ==
    ASSUME NEW n \in Nat
    PROVE  Clamp(n) \in 0..WinSize
  BY DeviceAssumption DEF Clamp

(* The device invariant holds when the engines start. *)
LEMMA DeviceInitInv == DeviceInit => DeviceInv
<1> SUFFICES ASSUME DeviceInit PROVE DeviceInv
  OBVIOUS
<1>1. LockTypeOK
  BY TypeInit DEF DeviceInit
<1>2. NoCommand \in [addr : Nat, size : 0..WinSize] /\ NoCommand \in [addr : Nat, size : Nat]
      /\ 0 \in 0..WinSize /\ 0 \in 0..SocketCapacity
  BY DeviceAssumption DEF NoCommand
<1>3. DeviceTypeOK
  BY <1>1, <1>2, DeviceAssumption DEF DeviceInit, DeviceTypeOK, EnginePCs
<1>4. CopiesInsideStorage
  BY DEF DeviceInit, CopiesInsideStorage
<1>. QED  BY <1>3, <1>4 DEF DeviceInv

(* The steps that only move an engine between the states of its protocol.  *)
LEMMA RegisterSteps ==
    ASSUME DeviceInv, NEW e \in Threads,
           SeeStart(e) \/ UnsetStart(e) \/ UnsetComp(e) \/ UnsetAddrError(e)
             \/ UnsetSizeError(e) \/ SetAddrError(e) \/ SetComp(e) \/ SendInterrupt(e)
    PROVE  DeviceInv' /\ UNCHANGED lockVars
<1> USE DEF DeviceInv, DeviceTypeOK, CopiesInsideStorage, EnginePCs, Goto,
            csrVars, dataVars, wireVars
<1>a. UNCHANGED lockVars => LockTypeOK'
  BY TypeStep
<1>1. CASE SeeStart(e)
  BY <1>1, <1>a DEF SeeStart
<1>2. CASE UnsetStart(e)
  BY <1>2, <1>a DEF UnsetStart
<1>3. ASSUME NEW d \in Threads, NEW here, LoadStatus(e, d, here)
      PROVE  DeviceInv' /\ UNCHANGED lockVars
  BY <1>3, <1>a DEF LoadStatus
<1>4. ASSUME NEW d \in Threads, NEW unset, NEW set \in SUBSET Flags, NEW here,
             NEW next \in EnginePCs \ {"lock", "copy"}, StoreStatus(e, d, unset, set, here, next)
      PROVE  DeviceInv' /\ UNCHANGED lockVars
  BY <1>4, <1>a DEF StoreStatus
<1>5. CASE UnsetComp(e) \/ UnsetAddrError(e) \/ UnsetSizeError(e)
  BY <1>5, <1>3, <1>4 DEF UnsetComp, UnsetAddrError, UnsetSizeError, UnsetFlag
<1>6. CASE SetAddrError(e)
  <2>1. ErrorRegister(e) \in Threads
    BY DEF ErrorRegister, Threads
  <2>2. CASE LoadStatus(e, ErrorRegister(e), "set_error")
    BY <2>1, <2>2, <1>3
  <2>3. CASE StoreStatus(e, ErrorRegister(e), {}, {"addr_error"}, "set_error", "set_comp")
    <3>1. {"addr_error"} \in SUBSET Flags /\ "set_comp" \in EnginePCs \ {"lock", "copy"}
      BY DEF Flags
    <3>. QED  BY <2>1, <2>3, <3>1, <1>4
  <2>. QED  BY <1>6, <2>2, <2>3 DEF SetAddrError
<1>7. CASE SetComp(e)
  <2>1. CASE LoadStatus(e, e, "set_comp")
    BY <2>1, <1>3
  <2>2. CASE StoreStatus(e, e, {}, {"comp"}, "set_comp", IF phase[e] = "holding" THEN "unlock" ELSE "send")
    <3>1. {"comp"} \in SUBSET Flags
          /\ (IF phase[e] = "holding" THEN "unlock" ELSE "send") \in EnginePCs \ {"lock", "copy"}
      BY DEF Flags
    <3>. QED  BY <2>2, <3>1, <1>4
  <2>. QED  BY <1>7, <2>1, <2>2 DEF SetComp
<1>8. CASE SendInterrupt(e)
  BY <1>8, <1>a, DeviceAssumption DEF SendInterrupt, NoCommand
<1>. QED  BY <1>1, <1>2, <1>5, <1>6, <1>7, <1>8

(* Fetching and checking a command. *)
LEMMA FetchSteps ==
    ASSUME DeviceInv, NEW e \in Threads, FetchAddr(e) \/ FetchSize(e)
    PROVE  DeviceInv' /\ UNCHANGED lockVars
<1> USE DEF DeviceInv, DeviceTypeOK, CopiesInsideStorage, EnginePCs, Goto,
            csrVars, dataVars, wireVars
<1>a. UNCHANGED lockVars => LockTypeOK'
  BY TypeStep
<1>1. CASE FetchAddr(e)
  BY <1>1, <1>a DEF FetchAddr
<1>2. CASE FetchSize(e)
  <2> DEFINE c == [cmd[e] EXCEPT !.size = Clamp(desc[e].size)]
  <2>a. cmd[e] \in [addr : Nat, size : 0..WinSize] /\ desc[e].size \in Nat
    OBVIOUS
  <2>b. Clamp(desc[e].size) \in 0..WinSize
    BY <2>a, ClampFits
  <2>1. c \in [addr : Nat, size : 0..WinSize]
    BY <2>a, <2>b
  <2>2. Valid(c) => c \in ValidCommands
    BY <2>1, ValidMeansInside
  <2> HIDE DEF c
  <2>3. /\ cmd' = [cmd EXCEPT ![e] = c]
        /\ epc' = [epc EXCEPT ![e] = IF Valid(c) THEN "lock" ELSE "set_error"]
        /\ UNCHANGED <<csrVars, loaded, copied, dataVars, wireVars, lockVars>>
    BY <1>2 DEF FetchSize, c
  <2>4. CopiesInsideStorage'
    BY <2>2, <2>3
  <2>5. cmd' \in [Threads -> [addr : Nat, size : 0..WinSize]]
    BY <2>1, <2>3
  <2>6. epc' \in [Threads -> EnginePCs]
    BY <2>3
  <2>. QED  BY <2>3, <2>4, <2>5, <2>6, <1>a
<1>. QED  BY <1>1, <1>2

(* Locking, copying and unlocking: the only steps that use the lock.       *)
LEMMA ServeSteps ==
    ASSUME DeviceInv, NEW e \in Threads,
           LockStorage(e) \/ AwaitLock(e) \/ CopyByte(e) \/ CopyDone(e) \/ UnlockStorage(e)
    PROVE  DeviceInv' /\ [LockNext]_lockVars
<1> USE DEF DeviceInv, DeviceTypeOK, CopiesInsideStorage, EnginePCs, Goto,
            csrVars, dataVars, wireVars
<1>a. [LockNext]_lockVars => LockTypeOK'
  BY TypeStep
<1>1. CASE LockStorage(e)
  <2>1. LockNext
    BY <1>1, DeviceAssumption
       DEF LockStorage, LockNext, address_lock_rd_lock, address_lock_wr_lock, Threads
  <2>. QED  BY <1>1, <2>1, <1>a DEF LockStorage
<1>2. CASE AwaitLock(e)
  <2>1. LockNext
    BY <1>2 DEF AwaitLock, LockNext
  <2>. QED  BY <1>2, <2>1, <1>a DEF AwaitLock, engineVars
<1>3. CASE CopyByte(e)
  <2>1. /\ copied[e] + 1 \in 0..WinSize
        /\ copied[e] \in 0..WinSize - 1
        /\ cmd[e].addr + copied[e] \in 0..DiskSize - 1
    BY <1>3, DeviceAssumption DEF CopyByte, ValidCommands
  <2>2. LockTypeOK'
    BY <1>3, <1>a DEF CopyByte
  <2>3. rd_data' \in [0..WinSize - 1 -> Values] /\ storage' \in [0..DiskSize - 1 -> Values]
    BY <1>3, <2>1 DEF CopyByte
  <2>. QED  BY <1>3, <2>1, <2>2, <2>3 DEF CopyByte
<1>4. CASE CopyDone(e)
  BY <1>4, <1>a DEF CopyDone
<1>5. CASE UnlockStorage(e)
  <2>1. LockNext
    BY <1>5 DEF UnlockStorage, LockNext, address_lock_rd_unlock, address_lock_wr_unlock, Threads
  <2>. QED  BY <1>5, <2>1, <1>a DEF UnlockStorage
<1>. QED  BY <1>1, <1>2, <1>3, <1>4, <1>5

(* Every step of the device keeps its types, copies inside the storage and *)
(* uses the address lock by its rules.                                     *)
LEMMA DeviceSteps ==
    ASSUME DeviceInv, DeviceNext
    PROVE  DeviceInv' /\ [LockNext]_lockVars
<1>1. CASE chr_read
  BY <1>1, TypeStep, DeviceAssumption
     DEF chr_read, DeviceInv, DeviceTypeOK, CopiesInsideStorage, csrVars, engineVars, dataVars
<1>2. ASSUME NEW e \in Threads, EngineStep(e)
      PROVE  DeviceInv' /\ [LockNext]_lockVars
  BY <1>2, RegisterSteps, FetchSteps, ServeSteps DEF EngineStep
<1>. QED  BY <1>1, <1>2 DEF DeviceNext
=============================================================================
