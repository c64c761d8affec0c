----------------------------- MODULE DeviceProcess -----------------------------
(***************************************************************************)
(* The life of the device process around its two engines: main             *)
(* (pcie_device/dev_handle.c), pcie_dev_init with its error path and       *)
(* pcie_dev_cleanup (pcie_device/pcie_dev.c), the mapped files             *)
(* (pcie_device/mapped_file.c) and the connection to QEMU                  *)
(* (pcie_device/socket.h).  The process may be killed at any time and      *)
(* started again; registers, windows and storage are files and survive.    *)
(*                                                                         *)
(* The host appears as whatever writes a descriptor and sets a start bit.  *)
(* An engine's course does not depend on the status bytes, so nothing else *)
(* of the host matters here; FlashSystem puts the driver in its place.     *)
(***************************************************************************)
EXTENDS Device

CONSTANTS HostCommands,   \* what the host writes into a descriptor
          Events          \* what may happen to the process

ASSUME ProcessAssumption ==
    /\ HostCommands \subseteq [addr : Nat, size : Nat]
    /\ Events \subseteq {"failure", "signal", "crash", "connection lost"}

Files == {"csr", "data", "storage"}
NoFile == "none"

VARIABLES mpc,         \* where main is, inside init and cleanup too
          caller,      \* who called cleanup: "init" or "main"
          stt,         \* what pcie_dev_init returns after a failure
          terminated,  \* done in dev_handle.c: a signal has come
          stop_flag,
          handle,      \* rd_thread and wr_thread: "none", "valid", "stale"
          thread,      \* the engines: "none", "running", "exited"
          ready,       \* storage_lock is initialised
          bar2_f,      \* the file the field bar2_f describes
          mapped,      \* the files mapped into the process
          wired,       \* engines whose send can still reach QEMU
          late         \* engines that looked at stop_flag before it was set

mainVars == <<mpc, caller, stt, terminated>>
contextVars == <<stop_flag, handle, thread, ready, bar2_f, mapped>>
lateVars == <<wired, late>>
processVars == <<mainVars, contextVars, lateVars>>
allProcessVars == <<deviceVars, processVars>>

(* No process. *)
ProcessInit ==
    /\ DeviceInit
    /\ mpc = "down"
    /\ caller = "main"
    /\ stt = "ok"
    /\ terminated = FALSE
    /\ stop_flag = FALSE
    /\ handle = [e \in Threads |-> "none"]
    /\ thread = [e \in Threads |-> "none"]
    /\ ready = FALSE
    /\ bar2_f = NoFile
    /\ mapped = {}
    /\ wired = {}
    /\ late = {}

(* memset of struct address_lock, when it is initialised and destroyed. *)
ZeroLock ==
    /\ lock' = [t \in Threads |-> NoLock]
    /\ pending' = [t \in Threads |-> NoLock]
    /\ phase' = [t \in Threads |-> "idle"]
    /\ want' = [t \in Threads |-> NoLock]
    /\ reinstalled' = FALSE

(* The process ends, and its memory with it: pcie_dev_init begins by       *)
(* zeroing the context, so the next one starts from nothing.               *)
Vanish ==
    /\ ZeroLock
    /\ epc' = [e \in Threads |-> "poll"]
    /\ loaded' = [e \in Threads |-> {}]
    /\ cmd' = [e \in Threads |-> NoCommand]
    /\ copied' = [e \in Threads |-> 0]
    /\ mpc' = "down"
    /\ caller' = "main"
    /\ stt' = "ok"
    /\ terminated' = FALSE
    /\ stop_flag' = FALSE
    /\ handle' = [e \in Threads |-> "none"]
    /\ thread' = [e \in Threads |-> "none"]
    /\ ready' = FALSE
    /\ bar2_f' = NoFile
    /\ mapped' = {}
    /\ wired' = {}
    /\ late' = {}
    /\ UNCHANGED <<csrVars, dataVars, wireVars>>

MainAt(here, next) == mpc = here /\ mpc' = next

-----------------------------------------------------------------------------
(* pcie_dev_init.  A step that fails before the error label exists returns *)
(* to main at once; the others go to err and call cleanup from init.       *)

Launch ==
    /\ MainAt("down", "connect")
    /\ UNCHANGED <<deviceVars, caller, stt, terminated, contextVars, lateVars>>

Connect ==
    /\ MainAt("connect", "lock_init")
    /\ wired' = Threads
    /\ UNCHANGED <<deviceVars, caller, stt, terminated, contextVars, late>>

InitLock ==
    /\ MainAt("lock_init", "open_csr")
    /\ ready' = TRUE
    /\ UNCHANGED <<deviceVars, caller, stt, terminated, stop_flag, handle, thread,
                   bar2_f, mapped, lateVars>>

(* PCIE_DEV_SOCKET_ERROR and PCIE_DEV_MEM_ERROR. *)
FailEarly ==
    /\ "failure" \in Events
    /\ mpc \in {"connect", "lock_init"}
    /\ mpc' = "stop"
    /\ caller' = "main"
    /\ UNCHANGED <<deviceVars, stt, terminated, contextVars, lateVars>>

(* mf_init.  The register file and the window file are both described by   *)
(* bar2_f; the description of the first is overwritten by the second.      *)
OpenCsr ==
    /\ MainAt("open_csr", "open_data")
    /\ bar2_f' = "csr"
    /\ mapped' = mapped \cup {"csr"}
    /\ UNCHANGED <<deviceVars, caller, stt, terminated, stop_flag, handle, thread,
                   ready, lateVars>>

OpenData ==
    /\ MainAt("open_data", "open_storage")
    /\ bar2_f' = "data"
    /\ mapped' = mapped \cup {"data"}
    /\ UNCHANGED <<deviceVars, caller, stt, terminated, stop_flag, handle, thread,
                   ready, lateVars>>

OpenStorage ==
    /\ MainAt("open_storage", "clear_csr")
    /\ mapped' = mapped \cup {"storage"}
    /\ UNCHANGED <<deviceVars, caller, stt, terminated, stop_flag, handle, thread,
                   ready, bar2_f, lateVars>>

(* Mutant: the registers keep what the last process left in them. *)
ClearNothing ==
    /\ MainAt("clear_csr", "create_rd")
    /\ UNCHANGED <<deviceVars, caller, stt, terminated, contextVars, lateVars>>

(* memset of the registers. *)
ClearCsr ==
    /\ MainAt("clear_csr", "create_rd")
    /\ ctrl' = [d \in Threads |-> FALSE]
    /\ status' = [d \in Threads |-> {}]
    /\ desc' = [d \in Threads |-> NoCommand]
    /\ UNCHANGED <<engineVars, dataVars, wireVars, lockVars,
                   caller, stt, terminated, contextVars, lateVars>>

CreatePC(e) == IF e = "rd" THEN "create_rd" ELSE "create_wr"

CreateThread(e) ==
    /\ MainAt(CreatePC(e), IF e = "rd" THEN "create_wr" ELSE "loop")
    /\ handle' = [handle EXCEPT ![e] = "valid"]
    /\ thread' = [thread EXCEPT ![e] = "running"]
    /\ UNCHANGED <<deviceVars, caller, stt, terminated, stop_flag, ready, bar2_f,
                   mapped, lateVars>>

(* Mutant: the error of pthread_create is not put in stt. *)
FailWithoutStatus ==
    /\ "failure" \in Events
    /\ \/ mpc \in {"open_csr", "open_data", "open_storage"} /\ UNCHANGED handle
       \/ \E e \in Threads, h \in {"none", "stale"} :
             mpc = CreatePC(e) /\ handle' = [handle EXCEPT ![e] = h]
    /\ stt' = IF mpc = "open_storage" THEN "error" ELSE "unset"
    /\ mpc' = "stop"
    /\ caller' = "init"
    /\ UNCHANGED <<deviceVars, terminated, stop_flag, thread, ready, bar2_f, mapped, lateVars>>

(* A step fails and init goes to err.  stt is set for the storage and for  *)
(* the threads only.  What a failed pthread_create leaves in the handle is *)
(* undefined: zero, or something that is no thread.                        *)
FailAtErr ==
    /\ "failure" \in Events
    /\ \/ mpc \in {"open_csr", "open_data", "open_storage"} /\ UNCHANGED handle
       \/ \E e \in Threads, h \in {"none", "stale"} :
             mpc = CreatePC(e) /\ handle' = [handle EXCEPT ![e] = h]
    /\ stt' = IF mpc \in {"open_csr", "open_data"} THEN "unset" ELSE "error"
    /\ mpc' = "stop"
    /\ caller' = "init"
    /\ UNCHANGED <<deviceVars, terminated, stop_flag, thread, ready, bar2_f, mapped, lateVars>>

(* main spins until a signal has come. *)
LeaveLoop ==
    /\ terminated
    /\ MainAt("loop", "stop")
    /\ caller' = "main"
    /\ UNCHANGED <<deviceVars, stt, terminated, contextVars, lateVars>>

-----------------------------------------------------------------------------
(* pcie_dev_cleanup. *)

(* An engine that is polling may have looked at the flag just before. *)
SetStopFlag ==
    /\ MainAt("stop", "close")
    /\ stop_flag' = TRUE
    /\ late' = {e \in Threads : thread[e] = "running" /\ epc[e] = "poll" /\ ~stop_flag}
    /\ UNCHANGED <<deviceVars, caller, stt, terminated, handle, thread, ready, bar2_f,
                   mapped, wired>>

(* The descriptor is closed and zeroed; only a send that has begun goes on.*)
CloseSocket ==
    /\ MainAt("close", "join_rd")
    /\ wired' = {e \in wired : epc[e] = "send"}
    /\ UNCHANGED <<deviceVars, caller, stt, terminated, contextVars, late>>

JoinPC(e) == IF e = "rd" THEN "join_rd" ELSE "join_wr"

(* Mutant: the engines are not waited for. *)
JoinNobody(e) ==
    /\ MainAt(JoinPC(e), IF e = "rd" THEN "join_wr" ELSE "destroy_lock")
    /\ UNCHANGED <<deviceVars, caller, stt, terminated, contextVars, lateVars>>

(* A handle that is set is joined; joining leaves it set, and joining what *)
(* is no thread any more returns an error, which is ignored, or kills.     *)
Join(e) ==
    /\ MainAt(JoinPC(e), IF e = "rd" THEN "join_wr" ELSE "destroy_lock")
    /\ handle[e] = "valid" => thread[e] = "exited"
    /\ handle' = [handle EXCEPT ![e] = IF @ = "valid" THEN "stale" ELSE @]
    /\ UNCHANGED <<deviceVars, caller, stt, terminated, stop_flag, thread, ready,
                   bar2_f, mapped, lateVars>>

(* address_lock_cleanup also zeroes the lock. *)
DestroyLock ==
    /\ MainAt("destroy_lock", "unmap")
    /\ ready' = FALSE
    /\ ZeroLock
    /\ UNCHANGED <<csrVars, engineVars, dataVars, wireVars, caller, stt, terminated,
                   stop_flag, handle, thread, bar2_f, mapped, lateVars>>

(* mf_cleanup of bar0_f, which is never used, of bar2_f and of storage_f,  *)
(* and the return: to main, or from init with stt.  A stt that was never   *)
(* set may be PCIE_DEV_OK.                                                 *)
Unmap ==
    /\ mpc = "unmap"
    /\ mapped' = mapped \ {bar2_f, "storage"}
    /\ bar2_f' = NoFile
    /\ \/ caller = "main" /\ mpc' = "exit"
       \/ caller = "init" /\ mpc' = "stop"
       \/ caller = "init" /\ stt = "unset" /\ mpc' = "loop"
    /\ caller' = "main"
    /\ UNCHANGED <<deviceVars, stt, terminated, stop_flag, handle, thread, ready, lateVars>>

Exit == mpc = "exit" /\ Vanish

MainStep ==
    \/ Connect \/ InitLock \/ FailEarly \/ OpenCsr \/ OpenData \/ OpenStorage
    \/ ClearCsr \/ (\E e \in Threads : CreateThread(e) \/ Join(e)) \/ FailAtErr
    \/ LeaveLoop \/ SetStopFlag \/ CloseSocket \/ DestroyLock \/ Unmap \/ Exit

-----------------------------------------------------------------------------
(* The engines as threads of the process. *)

(* Mutant: the engine does not look at stop_flag. *)
RunEngineIgnoringStop(e) ==
    /\ thread[e] = "running"
    /\ epc[e] = "send" => e \in wired
    /\ EngineStep(e)
    /\ UNCHANGED <<mainVars, contextVars, lateVars>>

RunEngine(e) ==
    /\ thread[e] = "running"
    /\ epc[e] = "poll" => ~stop_flag \/ e \in late
    /\ epc[e] = "send" => e \in wired
    /\ EngineStep(e)
    /\ late' = late \ {e}
    /\ UNCHANGED <<mainVars, contextVars, wired>>

LeaveThread(e) ==
    /\ thread[e] = "running"
    /\ thread' = [thread EXCEPT ![e] = "exited"]
    /\ late' = late \ {e}
    /\ UNCHANGED <<deviceVars, mainVars, stop_flag, handle, ready, bar2_f, mapped, wired>>

(* The loop ends at the flag. *)
EngineStops(e) == epc[e] = "poll" /\ stop_flag /\ LeaveThread(e)

SocketClosed == stop_flag /\ mpc # "close"

(* INTERRUPT: an engine that cannot send leaves its loop; comp stays set.  *)
(* After the connection is lost a send fails, or kills (Crash), or the     *)
(* kernel still takes the message and throws it away.                      *)
SendFails(e) ==
    /\ epc[e] = "send"
    /\ e \notin wired \/ SocketClosed
    /\ LeaveThread(e)

SendLost(e) ==
    /\ thread[e] = "running"
    /\ epc[e] = "send"
    /\ e \notin wired /\ ~SocketClosed
    /\ cmd' = [cmd EXCEPT ![e] = NoCommand]
    /\ copied' = [copied EXCEPT ![e] = 0]
    /\ Goto(e, "poll")
    /\ late' = late \ {e}
    /\ UNCHANGED <<csrVars, loaded, dataVars, wireVars, lockVars, mainVars, contextVars, wired>>

EngineThread(e) == RunEngine(e) \/ EngineStops(e) \/ SendFails(e) \/ SendLost(e)

-----------------------------------------------------------------------------
(* What comes from outside. *)

(* SIGTERM and SIGINT; the handler is installed when main begins. *)
Signal ==
    /\ "signal" \in Events
    /\ mpc # "down"
    /\ terminated' = TRUE
    /\ UNCHANGED <<deviceVars, mpc, caller, stt, contextVars, lateVars>>

(* The handler was installed without SA_RESTART, and any thread may run    *)
(* it: a send that waits for room returns EINTR, and its engine leaves.    *)
SendInterrupted(e) ==
    /\ "signal" \in Events
    /\ thread[e] = "running"
    /\ epc[e] = "send" /\ e \in wired /\ msgs = SocketCapacity
    /\ terminated' = TRUE
    /\ thread' = [thread EXCEPT ![e] = "exited"]
    /\ late' = late \ {e}
    /\ UNCHANGED <<deviceVars, mpc, caller, stt, stop_flag, handle, ready, bar2_f, mapped, wired>>

(* SIGKILL, SIGPIPE of a send on a lost connection, or a fault. *)
Crash == "crash" \in Events /\ mpc # "down" /\ Vanish

(* QEMU drops the connection, and what it has not read of it. *)
ConnectionLost ==
    /\ "connection lost" \in Events
    /\ wired # {}
    /\ wired' = {}
    /\ msgs' = 0
    /\ UNCHANGED <<csrVars, engineVars, dataVars, msi, lockVars, mainVars, contextVars, late>>

QemuReads == chr_read /\ UNCHANGED processVars

(* The host writes a command and starts it. *)
HostStarts(d) ==
    /\ ctrl' = [ctrl EXCEPT ![d] = TRUE]
    /\ \E c \in HostCommands : desc' = [desc EXCEPT ![d] = c]
    /\ UNCHANGED <<status, engineVars, dataVars, wireVars, lockVars, processVars>>

ProcessStep ==
    \/ Launch \/ MainStep \/ Signal \/ Crash \/ ConnectionLost \/ QemuReads
    \/ \E e \in Threads : EngineThread(e) \/ SendInterrupted(e)

ProcessNext == ProcessStep \/ \E d \in Threads : HostStarts(d)

ProcessSpec == ProcessInit /\ [][ProcessNext]_allProcessVars

(* The threads of a running process and QEMU are scheduled.  Nothing makes *)
(* anybody start the process, end it, or send a command.                   *)
ProcessFairness ==
    /\ WF_allProcessVars(MainStep)
    /\ WF_allProcessVars(QemuReads)
    /\ \A e \in Threads : WF_allProcessVars(EngineThread(e))

FairProcessSpec == ProcessSpec /\ ProcessFairness
-----------------------------------------------------------------------------
MainPCs ==
    {"down", "connect", "lock_init", "open_csr", "open_data", "open_storage", "clear_csr",
     "create_rd", "create_wr", "loop", "stop", "close", "join_rd", "join_wr",
     "destroy_lock", "unmap", "exit"}

(* Every variable of the process holds a value the code can give it. *)
ProcessTypeOK ==
    /\ DeviceTypeOK
    /\ mpc \in MainPCs
    /\ caller \in {"init", "main"}
    /\ stt \in {"ok", "error", "unset"}
    /\ terminated \in BOOLEAN
    /\ stop_flag \in BOOLEAN
    /\ handle \in [Threads -> {"none", "valid", "stale"}]
    /\ thread \in [Threads -> {"none", "running", "exited"}]
    /\ ready \in BOOLEAN
    /\ bar2_f \in Files \cup {NoFile}
    /\ mapped \in SUBSET Files
    /\ wired \in SUBSET Threads
    /\ late \in SUBSET Threads

(* An engine that runs finds its three files mapped and the lock in place, *)
(* from pthread_create to the end of the thread: cleanup, from whichever   *)
(* caller and however init has failed, takes nothing from under it.        *)
EnginesHaveFiles == \A e \in Threads : thread[e] = "running" => mapped = Files /\ ready

(* main waits in its loop with both engines started, except when opening   *)
(* the register or the window file failed and the unset stt was taken for  *)
(* PCIE_DEV_OK (pcie_dev.c:202-203); and no engine is joined twice by a    *)
(* shutdown that began in the loop.                                        *)
LoopHasEngines ==
    /\ mpc = "loop" =>
         \/ \A e \in Threads : handle[e] = "valid"
         \/ stt = "unset" /\ \A e \in Threads : handle[e] = "none"
    /\ stt = "ok" /\ mpc = "join_wr" => handle["wr"] # "stale"

(* An engine waits in the address lock for the other, which is gone. *)
Stranded ==
    \E e \in Threads :
        thread[e] = "running" /\ epc[e] = "copy" /\ Polling(e) /\ thread[Other(e)] = "exited"

(* After a signal the process ends, whatever the host and QEMU do and      *)
(* wherever main and the engines were, unless an engine is stranded on a   *)
(* lock entry that nobody will release (the polling loop of address_lock.c *)
(* does not look at stop_flag, and pcie_dev.c:233-234 joins the engine).   *)
ShutdownEnds == (terminated /\ mpc # "down") ~> (mpc = "down" \/ Stranded)
=============================================================================
