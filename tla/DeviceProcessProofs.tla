-------------------------- MODULE DeviceProcessProofs --------------------------
(***************************************************************************)
(* Theorems about the life of the device process, for every storage and    *)
(* window size, every set of host commands and every set of events.        *)
(***************************************************************************)
EXTENDS DeviceProcess, DeviceProofs

(* The variables of the process alone. *)
OwnTypes ==
    /\ mpc \in MainPCs
    /\ caller \in {"init", "main"}
    /\ stt \in {"ok", "error", "unset"}
    /\ terminated \in BOOLEAN
    /\ stop_flag \in BOOLEAN
    /\ handle \in [Threads -> {"none", "valid", "stale"}]
    /\ thread \in [Threads -> {"none", "running", "exited"}]
    /\ ready \in BOOLEAN
    /\ bar2_f \in Files \cup {NoFile}
    /\ mapped \in SUBSET Files
    /\ wired \in SUBSET Threads
    /\ late \in SUBSET Threads

(* The steps of pcie_dev_init, before and after the lock and the files. *)
InitPCs == {"down", "connect", "lock_init", "open_csr", "open_data", "open_storage",
            "clear_csr", "create_rd", "create_wr"}
LockedPCs == {"open_csr", "open_data", "open_storage", "clear_csr", "create_rd", "create_wr"}
MappedPCs == {"clear_csr", "create_rd", "create_wr"}

(* What init has reached when it is at a place. *)
InitProgress ==
    /\ mpc \in LockedPCs => ready
    /\ mpc = "open_data" => "csr" \in mapped
    /\ mpc = "open_storage" => {"csr", "data"} \subseteq mapped
    /\ mpc \in MappedPCs => mapped = Files

(* What the handles say, and the status that init is going to return. *)
HandleProgress ==
    /\ mpc \in InitPCs => stt = "ok" /\ handle["wr"] = "none"
    /\ mpc \in InitPCs \ {"create_wr"} => handle["rd"] = "none"
    /\ mpc = "create_wr" => handle["rd"] = "valid"
    /\ stt = "unset" => \A e \in Threads : handle[e] = "none"
    /\ caller = "init" => stt # "ok"
    /\ stt = "ok" /\ mpc \in {"stop", "close", "join_rd", "join_wr"} => handle["wr"] # "stale"
    /\ mpc = "loop" /\ stt # "unset" => \A e \in Threads : handle[e] = "valid"

(* From its creation to its join. *)
LivePCs(e) == IF e = "rd" THEN {"create_wr", "loop", "stop", "close", "join_rd"}
                          ELSE {"loop", "stop", "close", "join_rd", "join_wr"}

(* A running engine has its resources, and a handle that will be joined.   *)
EnginesAlive ==
    \A e \in Threads : thread[e] = "running" =>
        mapped = Files /\ ready /\ handle[e] = "valid" /\ mpc \in LivePCs(e)

ProcessInv == OwnTypes /\ InitProgress /\ HandleProgress /\ EnginesAlive

-----------------------------------------------------------------------------
(* The device keeps its invariant when the lock is zeroed and nothing else *)
(* changes but the registers.                                              *)
LEMMA ZeroedLock == ZeroLock => LockTypeOK'
  BY DEF ZeroLock, LockTypeOK, NoLock

(* Every step of the process, and a host that writes commands, keep the    *)
(* types of the device and its copies inside the storage.                  *)
LEMMA ProcessKeepsDevice ==
    ASSUME DeviceInv, [ProcessNext]_allProcessVars
    PROVE  DeviceInv'
<1> USE DEF DeviceInv, DeviceTypeOK, CopiesInsideStorage
<1>a. UNCHANGED deviceVars => DeviceInv'
  <2>1. UNCHANGED deviceVars => UNCHANGED lockVars
    BY DEF deviceVars
  <2>. QED  BY <2>1, TypeStep DEF deviceVars, csrVars, engineVars, dataVars, wireVars
<1>b. Vanish => DeviceInv'
  <2> SUFFICES ASSUME Vanish PROVE DeviceInv'
    OBVIOUS
  <2>1. NoCommand \in [addr : Nat, size : 0..WinSize] /\ 0 \in 0..WinSize
    BY DeviceAssumption DEF NoCommand
  <2>. QED  BY <2>1, ZeroedLock DEF Vanish, csrVars, dataVars, wireVars, EnginePCs
<1>1. CASE UNCHANGED allProcessVars
  BY <1>1, <1>a DEF allProcessVars
<1>2. CASE Launch \/ Signal
  BY <1>2, <1>a DEF Launch, Signal
<1>3. CASE Crash
  BY <1>3, <1>b DEF Crash
<1>4. CASE ConnectionLost
  <2>1. 0 \in 0..SocketCapacity
    BY DeviceAssumption
  <2>2. LockTypeOK'
    BY <1>4, TypeStep DEF ConnectionLost
  <2>. QED  BY <1>4, <2>1, <2>2 DEF ConnectionLost, csrVars, engineVars, dataVars
<1>5. CASE QemuReads
  BY <1>5, DeviceSteps DEF QemuReads, DeviceNext
<1>6. ASSUME NEW d \in Threads, HostStarts(d) PROVE DeviceInv'
  <2>1. LockTypeOK'
    BY <1>6, TypeStep DEF HostStarts
  <2>2. ctrl' \in [Threads -> BOOLEAN]
    BY <1>6 DEF HostStarts
  <2>3. desc' \in [Threads -> [addr : Nat, size : Nat]]
    BY <1>6, ProcessAssumption DEF HostStarts
  <2>. QED  BY <1>6, <2>1, <2>2, <2>3 DEF HostStarts, engineVars, dataVars, wireVars
<1>7. ASSUME NEW e \in Threads, EngineThread(e) \/ SendInterrupted(e) PROVE DeviceInv'
  <2>1. CASE RunEngine(e)
    BY <2>1, DeviceSteps DEF RunEngine, DeviceNext
  <2>2. CASE EngineStops(e) \/ SendFails(e) \/ SendInterrupted(e)
    BY <2>2, <1>a DEF EngineStops, SendFails, LeaveThread, SendInterrupted
  <2>3. CASE SendLost(e)
    <3>1. /\ LockTypeOK'
          /\ NoCommand \in [addr : Nat, size : 0..WinSize] /\ 0 \in 0..WinSize
      BY <2>3, TypeStep, DeviceAssumption DEF SendLost, NoCommand
    <3>. QED  BY <2>3, <3>1 DEF SendLost, Goto, EnginePCs, csrVars, dataVars, wireVars
  <2>. QED  BY <1>7, <2>1, <2>2, <2>3 DEF EngineThread
<1>8. CASE MainStep
  <2>1. CASE ClearCsr
    <3>1. NoCommand \in [addr : Nat, size : Nat]
      BY DEF NoCommand
    <3>2. LockTypeOK'
      BY <2>1, TypeStep DEF ClearCsr
    <3>. QED  BY <2>1, <3>1, <3>2 DEF ClearCsr, engineVars, dataVars, wireVars
  <2>2. CASE DestroyLock
    BY <2>2, ZeroedLock DEF DestroyLock, csrVars, engineVars, dataVars, wireVars
  <2>3. CASE Exit
    BY <2>3, <1>b DEF Exit
  <2>4. CASE \/ Connect \/ InitLock \/ FailEarly \/ OpenCsr \/ OpenData \/ OpenStorage
             \/ FailAtErr \/ LeaveLoop \/ SetStopFlag \/ CloseSocket \/ Unmap
    BY <2>4, <1>a DEF Connect, InitLock, FailEarly, OpenCsr, OpenData, OpenStorage,
                      FailAtErr, LeaveLoop, SetStopFlag, CloseSocket, Unmap
  <2>5. ASSUME NEW e \in Threads, CreateThread(e) \/ Join(e) PROVE DeviceInv'
    BY <2>5, <1>a DEF CreateThread, Join
  <2>. QED  BY <1>8, <2>1, <2>2, <2>3, <2>4, <2>5 DEF MainStep
<1>. QED
  BY <1>1, <1>2, <1>3, <1>4, <1>5, <1>6, <1>7, <1>8 DEF ProcessNext, ProcessStep

-----------------------------------------------------------------------------
(* The start, and what is left when the process is gone. *)
LEMMA ProcessInitInv == ProcessInit => ProcessInv
  BY DEF ProcessInit, ProcessInv, OwnTypes, InitProgress, HandleProgress, EnginesAlive,
         MainPCs, InitPCs, LockedPCs, MappedPCs, NoFile, Threads

(* The end of the process. *)
LEMMA VanishInv == Vanish => ProcessInv'
  BY DEF Vanish, ProcessInv, OwnTypes, InitProgress, HandleProgress, EnginesAlive,
         MainPCs, InitPCs, LockedPCs, MappedPCs, NoFile, Threads

(* The steps of init. *)
LEMMA InitSteps ==
    ASSUME ProcessInv,
           Launch \/ Connect \/ InitLock \/ FailEarly \/ OpenCsr \/ OpenData \/ OpenStorage
             \/ ClearCsr \/ FailAtErr
    PROVE  ProcessInv'
<1> USE DEF ProcessInv, OwnTypes, InitProgress, HandleProgress, EnginesAlive, LivePCs,
            MainPCs, InitPCs, LockedPCs, MappedPCs, Files, Threads, MainAt,
            contextVars, lateVars
<1>1. CASE Launch \/ Connect \/ ClearCsr
  BY <1>1 DEF Launch, Connect, ClearCsr
<1>2. CASE InitLock
  BY <1>2 DEF InitLock
<1>3. CASE FailEarly
  BY <1>3 DEF FailEarly
<1>4. CASE OpenCsr \/ OpenData \/ OpenStorage
  BY <1>4 DEF OpenCsr, OpenData, OpenStorage
<1>5. CASE FailAtErr
  BY <1>5 DEF FailAtErr, CreatePC
<1>. QED  BY <1>1, <1>2, <1>3, <1>4, <1>5

(* Starting the engines. *)
LEMMA CreateSteps ==
    ASSUME ProcessInv, NEW e \in Threads, CreateThread(e)
    PROVE  ProcessInv'
  BY DEF ProcessInv, OwnTypes, InitProgress, HandleProgress, EnginesAlive, LivePCs,
         MainPCs, InitPCs, LockedPCs, MappedPCs, Files, Threads, MainAt, lateVars,
         CreateThread, CreatePC

(* The steps of the main loop and of cleanup. *)
LEMMA CleanupSteps ==
    ASSUME ProcessInv,
           LeaveLoop \/ SetStopFlag \/ CloseSocket \/ DestroyLock \/ Unmap
    PROVE  ProcessInv'
<1> USE DEF ProcessInv, OwnTypes, InitProgress, HandleProgress, EnginesAlive, LivePCs,
            MainPCs, InitPCs, LockedPCs, MappedPCs, Files, NoFile, Threads, MainAt,
            contextVars, lateVars
<1>1. CASE LeaveLoop
  BY <1>1 DEF LeaveLoop
<1>2. CASE SetStopFlag
  BY <1>2 DEF SetStopFlag
<1>3. CASE CloseSocket
  BY <1>3 DEF CloseSocket
<1>4. CASE DestroyLock
  BY <1>4 DEF DestroyLock
<1>5. CASE Unmap
  BY <1>5 DEF Unmap
<1>. QED  BY <1>1, <1>2, <1>3, <1>4, <1>5

(* Waiting for the engines: behind its join no engine runs. *)
LEMMA JoinSteps ==
    ASSUME ProcessInv, NEW e \in Threads, Join(e)
    PROVE  ProcessInv'
  BY DEF ProcessInv, OwnTypes, InitProgress, HandleProgress, EnginesAlive, LivePCs,
         MainPCs, InitPCs, LockedPCs, MappedPCs, Files, Threads, MainAt, lateVars,
         Join, JoinPC

(* The engines, QEMU and the host. *)
LEMMA OtherSteps ==
    ASSUME ProcessInv,
           \/ UNCHANGED allProcessVars \/ Signal \/ ConnectionLost \/ QemuReads
           \/ \E e \in Threads : EngineThread(e) \/ SendInterrupted(e) \/ HostStarts(e)
    PROVE  ProcessInv'
<1> USE DEF ProcessInv, OwnTypes, InitProgress, HandleProgress, EnginesAlive,
            mainVars, contextVars, lateVars, processVars
<1>1. CASE UNCHANGED allProcessVars
  BY <1>1 DEF allProcessVars
<1>2. CASE Signal
  BY <1>2 DEF Signal
<1>3. CASE ConnectionLost
  <2>1. wired' \in SUBSET Threads
    BY <1>3 DEF ConnectionLost
  <2>2. UNCHANGED <<mpc, caller, stt, terminated, stop_flag, handle, thread, ready, bar2_f,
                    mapped, late>>
    BY <1>3 DEF ConnectionLost
  <2>. QED  BY <2>1, <2>2
<1>4. CASE QemuReads
  BY <1>4 DEF QemuReads
<1>5. ASSUME NEW e \in Threads, HostStarts(e) PROVE ProcessInv'
  BY <1>5 DEF HostStarts
<1>6. ASSUME NEW e \in Threads, EngineThread(e) \/ SendInterrupted(e) PROVE ProcessInv'
  <2>1. CASE RunEngine(e)
    BY <2>1 DEF RunEngine
  <2>2. CASE LeaveThread(e)
    BY <2>2 DEF LeaveThread
  <2>3. CASE SendLost(e)
    BY <2>3 DEF SendLost
  <2>4. CASE SendInterrupted(e)
    BY <2>4 DEF SendInterrupted
  <2>. QED  BY <1>6, <2>1, <2>2, <2>3, <2>4 DEF EngineThread, EngineStops, SendFails
<1>. QED  BY <1>1, <1>2, <1>3, <1>4, <1>5, <1>6

(* Every step. *)
LEMMA ProcessStepInv ==
    ASSUME ProcessInv, [ProcessNext]_allProcessVars
    PROVE  ProcessInv'
<1>1. CASE MainStep
  BY <1>1, InitSteps, CreateSteps, CleanupSteps, JoinSteps, VanishInv DEF MainStep, Exit
<1>2. CASE Launch
  BY <1>2, InitSteps
<1>3. CASE Crash
  BY <1>3, VanishInv DEF Crash
<1>. QED  BY <1>1, <1>2, <1>3, OtherSteps DEF ProcessNext, ProcessStep

-----------------------------------------------------------------------------
(* The invariant of the process and of the device it runs. *)
THEOREM ProcessInvariant == ProcessSpec => [](ProcessInv /\ DeviceInv)
<1>1. ProcessInit => ProcessInv /\ DeviceInv
  BY ProcessInitInv, DeviceInitInv DEF ProcessInit
<1>2. ProcessInv /\ DeviceInv /\ [ProcessNext]_allProcessVars => (ProcessInv /\ DeviceInv)'
  BY ProcessStepInv, ProcessKeepsDevice
<1>. QED  BY <1>1, <1>2, PTL DEF ProcessSpec

(* Types, through every failure, signal, crash and restart. *)
THEOREM ProcessTypes == ProcessSpec => []ProcessTypeOK
<1>1. ProcessInv /\ DeviceInv => ProcessTypeOK
  BY DEF ProcessInv, DeviceInv, OwnTypes, ProcessTypeOK
<1>. QED  BY <1>1, ProcessInvariant, PTL

(* No engine runs without its files and the lock, however init fails and   *)
(* whoever calls cleanup, once or twice.                                   *)
THEOREM ProcessEnginesHaveFiles == ProcessSpec => []EnginesHaveFiles
<1>1. ProcessInv => EnginesHaveFiles
  BY DEF ProcessInv, EnginesAlive, EnginesHaveFiles
<1>. QED  BY <1>1, ProcessInvariant, PTL

(* main waits with both engines, or with none when a file could not be     *)
(* opened; a shutdown from the loop joins each engine once.                *)
THEOREM ProcessLoopHasEngines == ProcessSpec => []LoopHasEngines
<1>1. ProcessInv => LoopHasEngines
  BY DEF ProcessInv, OwnTypes, HandleProgress, LoopHasEngines
<1>. QED  BY <1>1, ProcessInvariant, PTL
=============================================================================
