--------------------------- MODULE FlashSystemProofs ---------------------------
(***************************************************************************)
(* Theorems about the driver on top of a device process that may fail,     *)
(* stop, crash and start again at any time: for any number of processes,   *)
(* patient or not, any calls and any set of events.                        *)
(***************************************************************************)
EXTENDS FlashSystem, FlashProofs, DeviceProcessProofs

(* From the end of the memset in pcie_dev_init until cleanup begins or the *)
(* connection is lost.  A loop that init entered with an unset stt has no  *)
(* engines and is left out.                                                *)
Armed ==
    /\ mpc \in {"create_rd", "create_wr"} \/ (mpc = "loop" /\ stt # "unset")
    /\ ~stop_flag
    /\ wired = Threads

DueWhileArmed == Armed => InterruptDue

SystemInv == FlashInv /\ ProcessInv /\ DueWhileArmed

-----------------------------------------------------------------------------
(* A step of the host is one of Flash, and leaves the process alone.       *)
LEMMA HostStepIsFlash ==
    ASSUME HostStep
    PROVE  FlashNext /\ UNCHANGED processVars
  BY DEF HostStep, FlashNext

(* The host keeps everything. *)
LEMMA HostKeeps ==
    ASSUME SystemInv, HostStep
    PROVE  SystemInv'
<1>1. FlashInv'
  BY HostStepIsFlash, FlashSteps DEF SystemInv
<1>2. ProcessInv'
  BY HostStepIsFlash
     DEF SystemInv, ProcessInv, OwnTypes, InitProgress, HandleProgress, EnginesAlive,
         processVars, mainVars, contextVars, lateVars
<1>3. Armed' <=> Armed
  BY HostStepIsFlash DEF Armed, processVars, mainVars, contextVars, lateVars
<1>4. InterruptDue => InterruptDue'
  BY DueInHandler, DueInCall DEF SystemInv, HostStep
<1>. QED  BY <1>1, <1>2, <1>3, <1>4 DEF SystemInv, DueWhileArmed

(* The device and the driver keep their types through every step of the    *)
(* process, its end and its start included.                                *)
LEMMA ProcessKeepsFlash ==
    ASSUME FlashInv, ProcessStep, UNCHANGED hostVars
    PROVE  FlashInv'
<1>1. DeviceInv'
  BY ProcessKeepsDevice DEF FlashInv, ProcessNext
<1>2. DriverTypeOK' /\ CallsOK'
  BY DEF FlashInv, DriverTypeOK, CallsOK, CallOK, Chunk, Left, Calls,
         hostVars, procVars, irqVars
<1>. QED  BY <1>1, <1>2 DEF FlashInv

(* The steps that change what comp bits and interrupts are about, with a   *)
(* connection that is there.                                               *)
LEMMA DueInDevice ==
    ASSUME FlashInv, InterruptDue, UNCHANGED hpc, wired = Threads,
           QemuReads \/ \E e \in Threads : EngineThread(e) \/ SendInterrupted(e)
    PROVE  InterruptDue'
<1>1. CASE QemuReads
  BY <1>1 DEF QemuReads, chr_read, InterruptDue, csrVars, engineVars
<1>2. ASSUME NEW e \in Threads, EngineThread(e) \/ SendInterrupted(e) PROVE InterruptDue'
  <2>1. CASE RunEngine(e)
    BY <2>1, DueInEngine DEF RunEngine
  <2>2. CASE LeaveThread(e)
    BY <2>2 DEF LeaveThread, InterruptDue, deviceVars, csrVars, engineVars, wireVars
  <2>3. CASE SendInterrupted(e)
    BY <2>3 DEF SendInterrupted, InterruptDue, deviceVars, csrVars, engineVars, wireVars
  <2>4. ~SendLost(e)
    BY DEF SendLost
  <2>. QED  BY <1>2, <2>1, <2>2, <2>3, <2>4 DEF EngineThread, EngineStops, SendFails
<1>. QED  BY <1>1, <1>2

(* A process comes to the places of Armed with registers that are clear,   *)
(* and leaves them when anything is lost.                                  *)
LEMMA ProcessKeepsDue ==
    ASSUME FlashInv, ProcessInv, DueWhileArmed, ProcessStep, UNCHANGED hostVars
    PROVE  DueWhileArmed'
<1> USE DEF DueWhileArmed
<1>a. UNCHANGED hpc
  BY DEF hostVars, irqVars
<1>b. (UNCHANGED deviceVars /\ (Armed' => Armed)) => DueWhileArmed'
  BY <1>a DEF InterruptDue, deviceVars, csrVars, engineVars, wireVars
<1>1. CASE QemuReads \/ \E e \in Threads : EngineThread(e) \/ SendInterrupted(e)
  <2>1. Armed' => Armed
    BY <1>1 DEF Armed, QemuReads, EngineThread, RunEngine, EngineStops, SendFails, SendLost,
                LeaveThread, SendInterrupted, processVars, mainVars, contextVars, lateVars
  <2>2. Armed => wired = Threads
    BY DEF Armed
  <2>. QED  BY <1>1, <2>1, <2>2, <1>a, DueInDevice
<1>2. CASE ClearCsr
  <2>1. \A d \in Threads : status'[d] = {}
    BY <1>2 DEF ClearCsr
  <2>. QED  BY <2>1 DEF InterruptDue
<1>3. CASE ConnectionLost
  <2>1. ~Armed'
    BY <1>3 DEF ConnectionLost, Armed, Threads
  <2>. QED  BY <2>1
<1>4. CASE Crash \/ Exit
  <2>1. ~Armed'
    BY <1>4 DEF Crash, Exit, Vanish, Armed
  <2>. QED  BY <2>1
<1>5. ASSUME NEW e \in Threads, CreateThread(e) PROVE DueWhileArmed'
  <2>1. Armed' => Armed
    BY <1>5 DEF CreateThread, CreatePC, MainAt, Armed, lateVars
  <2>. QED  BY <1>5, <2>1, <1>b DEF CreateThread
<1>6. CASE Signal
  <2>1. Armed' => Armed
    BY <1>6 DEF Signal, Armed, contextVars, lateVars
  <2>. QED  BY <1>6, <2>1, <1>b DEF Signal
<1>7. CASE \/ Launch \/ Connect \/ InitLock \/ FailEarly \/ OpenCsr \/ OpenData \/ OpenStorage
           \/ FailAtErr \/ LeaveLoop \/ SetStopFlag \/ CloseSocket \/ DestroyLock \/ Unmap
           \/ \E e \in Threads : Join(e)
  <2>1. ~Armed'
    BY <1>7 DEF Armed, Launch, Connect, InitLock, FailEarly, OpenCsr, OpenData, OpenStorage,
                FailAtErr, LeaveLoop, SetStopFlag, CloseSocket, DestroyLock, Unmap, Join,
                JoinPC, MainAt
  <2>. QED  BY <2>1
<1>. QED
  BY <1>1, <1>2, <1>3, <1>4, <1>5, <1>6, <1>7 DEF ProcessStep, MainStep

-----------------------------------------------------------------------------
(* The invariant of the whole system. *)
THEOREM SystemInvariant == SystemSpec => []SystemInv
<1>1. SystemInit => SystemInv
  BY FlashInitInv, ProcessInitInv DEF SystemInit, SystemInv, DueWhileArmed, Armed, ProcessInit
<1>2. SystemInv /\ [SystemNext]_systemVars => SystemInv'
  <2> SUFFICES ASSUME SystemInv, [SystemNext]_systemVars PROVE SystemInv'
    OBVIOUS
  <2>1. CASE HostStep
    BY <2>1, HostKeeps
  <2>2. CASE ProcessStep /\ UNCHANGED hostVars
    BY <2>2, ProcessKeepsFlash, ProcessKeepsDue, ProcessStepInv DEF SystemInv, ProcessNext
  <2>3. CASE UNCHANGED systemVars
    <3>1. UNCHANGED vars /\ UNCHANGED processVars
      BY <2>3 DEF systemVars
    <3>2. FlashInv'
      BY <3>1, FlashSteps DEF SystemInv
    <3>3. UNCHANGED allProcessVars
      BY <3>1 DEF allProcessVars, vars
    <3>4. ProcessInv'
      BY <3>3, ProcessStepInv DEF SystemInv
    <3>5. DueWhileArmed'
      BY <3>1 DEF SystemInv, DueWhileArmed, Armed, InterruptDue, vars, deviceVars, csrVars,
                  engineVars, wireVars, irqVars, processVars, mainVars, contextVars, lateVars
    <3>. QED  BY <3>2, <3>4, <3>5 DEF SystemInv
  <2>. QED  BY <2>1, <2>2, <2>3 DEF SystemNext
<1>. QED  BY <1>1, <1>2, PTL DEF SystemSpec

(* A process that serves has a way to announce every comp bit that is set, *)
(* whatever the processes before it have left in the registers.            *)
THEOREM SystemDueWhileServing == SystemSpec => []DueWhileServing
<1>1. SystemInv => DueWhileServing
  <2>1. ASSUME SystemInv, Serving PROVE Armed
    BY <2>1 DEF SystemInv, ProcessInv, HandleProgress, EnginesAlive, Serving, Armed, Threads
  <2>. QED  BY <2>1 DEF SystemInv, DueWhileArmed, DueWhileServing
<1>. QED  BY <1>1, SystemInvariant, PTL

(* No crash, restart or impatient call makes an engine copy outside the    *)
(* storage.                                                                *)
THEOREM SystemCopiesInside == SystemSpec => []CopiesInsideStorage
<1>1. SystemInv => CopiesInsideStorage
  BY DEF SystemInv, FlashInv, DeviceInv
<1>. QED  BY <1>1, SystemInvariant, PTL
=============================================================================
