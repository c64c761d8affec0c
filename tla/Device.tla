-------------------------------- MODULE Device --------------------------------
(***************************************************************************)
(* The flash device: the read and write engines of the device process      *)
(* (pcie_device/pcie_dev.c), the registers and windows they share with the *)
(* host (pcie_device/bars.h) and the way of an interrupt from the engine's *)
(* socket through the QEMU device (lab2_testdev.patch) to a pending MSI.   *)
(*                                                                         *)
(* The engines are the threads of AddressLock.  Registers are memory both  *)
(* sides map, read and written one access at a time and in program order;  *)
(* a bit of a status byte is changed by loading the byte and storing it    *)
(* back.  The host's part of the protocol is in Flash.                     *)
(***************************************************************************)
EXTENDS AddressLock

CONSTANTS DiskSize,        \* bytes of the storage file (file_size)
          WinSize,         \* bytes of each data window (WIN_SIZE)
          Values,          \* what a byte can hold
          Blank,           \* what every byte holds at first
          SocketCapacity   \* unread "I" messages the socket takes

(* The commands that pass validate_descriptor: the ranges the engines lock.*)
ValidCommands ==
    {c \in [addr : 0..DiskSize - 1, size : 0..WinSize] : c.addr + c.size <= DiskSize}

ASSUME DeviceAssumption ==
    /\ DiskSize \in Nat \ {0}
    /\ WinSize \in Nat \ {0}
    /\ SocketCapacity \in Nat \ {0}
    /\ Blank \in Values
    /\ Requests = ValidCommands

Flags == {"comp", "addr_error", "size_error"}

VARIABLES ctrl,       \* the start bit of rd_ctrl and wr_ctrl
          status,     \* the flags set in rd_status and wr_status
          desc,       \* rd_desc and wr_desc
          epc,        \* where each engine is
          loaded,     \* the status byte an engine has loaded and not stored yet
          cmd,        \* the command an engine has fetched (its locals addr, size)
          copied,     \* how many bytes of it memcpy has copied
          storage, rd_data, wr_data,  \* the file and the two windows
          msgs,       \* "I" messages QEMU has not read
          msi         \* an MSI waits for the host's handler

csrVars == <<ctrl, status, desc>>
engineVars == <<epc, loaded, cmd, copied>>
dataVars == <<storage, rd_data, wr_data>>
wireVars == <<msgs, msi>>
deviceVars == <<csrVars, engineVars, dataVars, wireVars, lockVars>>

EnginePCs ==
    {"poll", "accept", "unset_comp", "unset_addr_error", "unset_size_error",
     "fetch_addr", "fetch_size", "set_error", "lock", "copy", "unlock",
     "set_comp", "send"}

NoCommand == [addr |-> 0, size |-> 0]

DeviceInit ==
    /\ LockInit
    /\ ctrl = [d \in Threads |-> FALSE]
    /\ status = [d \in Threads |-> {}]
    /\ desc = [d \in Threads |-> NoCommand]
    /\ epc = [e \in Threads |-> "poll"]
    /\ loaded = [e \in Threads |-> {}]
    /\ cmd = [e \in Threads |-> NoCommand]
    /\ copied = [e \in Threads |-> 0]
    /\ storage = [a \in 0..DiskSize - 1 |-> Blank]
    /\ rd_data = [i \in 0..WinSize - 1 |-> Blank]
    /\ wr_data = [i \in 0..WinSize - 1 |-> Blank]
    /\ msgs = 0
    /\ msi = FALSE

Goto(e, pc) == epc' = [epc EXCEPT ![e] = pc]

-----------------------------------------------------------------------------
(* Accepting a command. *)

(* The polling loop sees the start bit. *)
SeeStart(e) ==
    /\ epc[e] = "poll"
    /\ ctrl[e]
    /\ Goto(e, "accept")
    /\ UNCHANGED <<csrVars, loaded, cmd, copied, dataVars, wireVars, lockVars>>

(* rd_ctrl and wr_ctrl have one bit each, so their store needs no load. *)
UnsetStart(e) ==
    /\ epc[e] = "accept"
    /\ ctrl' = [ctrl EXCEPT ![e] = FALSE]
    /\ Goto(e, "unset_comp")
    /\ UNCHANGED <<status, desc, loaded, cmd, copied, dataVars, wireVars, lockVars>>

(* Engine e changes flags of status byte d, from pc here to pc next: it    *)
(* loads the byte, and in a later step stores the changed copy.            *)
LoadStatus(e, d, here) ==
    /\ epc[e] = here
    /\ loaded[e] = {}
    /\ loaded' = [loaded EXCEPT ![e] = {status[d]}]
    /\ UNCHANGED <<csrVars, epc, cmd, copied, dataVars, wireVars, lockVars>>

StoreStatus(e, d, unset, set, here, next) ==
    /\ epc[e] = here
    /\ \E s \in loaded[e] : status' = [status EXCEPT ![d] = (s \ unset) \cup set]
    /\ loaded' = [loaded EXCEPT ![e] = {}]
    /\ Goto(e, next)
    /\ UNCHANGED <<ctrl, desc, cmd, copied, dataVars, wireVars, lockVars>>

UnsetFlag(e, flag, here, next) ==
    \/ LoadStatus(e, e, here)
    \/ StoreStatus(e, e, {flag}, {}, here, next)

UnsetComp(e) == UnsetFlag(e, "comp", "unset_comp", "unset_addr_error")
UnsetAddrError(e) == UnsetFlag(e, "addr_error", "unset_addr_error", "unset_size_error")
UnsetSizeError(e) == UnsetFlag(e, "size_error", "unset_size_error", "fetch_addr")

FetchAddr(e) ==
    /\ epc[e] = "fetch_addr"
    /\ cmd' = [cmd EXCEPT ![e].addr = desc[e].addr]
    /\ Goto(e, "fetch_size")
    /\ UNCHANGED <<csrVars, loaded, copied, dataVars, wireVars, lockVars>>

(* Mutant: a size of one byte more is let through. *)
ClampByOneMore(size) == IF size > WinSize + 1 THEN WinSize ELSE size

(* Sizes above the window are cut to it. *)
Clamp(size) == IF size >= WinSize THEN WinSize ELSE size

(* Mutant: both comparisons are off by one. *)
ValidByOneMore(c) == c.addr <= DiskSize /\ c.addr + c.size <= DiskSize + 1

(* The decision of validate_descriptor. *)
Valid(c) == c.addr < DiskSize /\ c.addr + c.size <= DiskSize

FetchSize(e) ==
    LET c == [cmd[e] EXCEPT !.size = Clamp(desc[e].size)] IN
    /\ epc[e] = "fetch_size"
    /\ cmd' = [cmd EXCEPT ![e] = c]
    /\ Goto(e, IF Valid(c) THEN "lock" ELSE "set_error")
    /\ UNCHANGED <<csrVars, loaded, copied, dataVars, wireVars, lockVars>>

(* The status byte in which validate_descriptor reports: an address past   *)
(* the end of the storage is reported in rd_status for both engines.       *)
ErrorRegister(e) == IF cmd[e].addr >= DiskSize THEN "rd" ELSE e

SetAddrError(e) ==
    \/ LoadStatus(e, ErrorRegister(e), "set_error")
    \/ StoreStatus(e, ErrorRegister(e), {}, {"addr_error"}, "set_error", "set_comp")

-----------------------------------------------------------------------------
(* Serving a command. *)

LockStorage(e) ==
    /\ epc[e] = "lock"
    /\ Acquire(e, cmd[e])
    /\ Goto(e, "copy")
    /\ UNCHANGED <<csrVars, loaded, cmd, copied, dataVars, wireVars>>

AwaitLock(e) ==
    /\ AwaitGrant(e)
    /\ UNCHANGED <<csrVars, engineVars, dataVars, wireVars>>

(* Mutant: memcpy runs one byte too far. *)
CopyByteTooFar(e) ==
    LET a == cmd[e].addr + copied[e] IN
    /\ epc[e] = "copy"
    /\ phase[e] = "holding"
    /\ copied[e] <= cmd[e].size
    /\ IF e = "rd"
         THEN rd_data' = [rd_data EXCEPT ![copied[e]] = storage[a]] /\ UNCHANGED storage
         ELSE storage' = [storage EXCEPT ![a] = wr_data[copied[e]]] /\ UNCHANGED rd_data
    /\ copied' = [copied EXCEPT ![e] = @ + 1]
    /\ UNCHANGED <<csrVars, epc, loaded, cmd, wr_data, wireVars, lockVars>>

(* Mutant: memcpy does not wait for the lock. *)
CopyByteUnlocked(e) ==
    LET a == cmd[e].addr + copied[e] IN
    /\ epc[e] = "copy"
    /\ copied[e] < cmd[e].size
    /\ IF e = "rd"
         THEN rd_data' = [rd_data EXCEPT ![copied[e]] = storage[a]] /\ UNCHANGED storage
         ELSE storage' = [storage EXCEPT ![a] = wr_data[copied[e]]] /\ UNCHANGED rd_data
    /\ copied' = [copied EXCEPT ![e] = @ + 1]
    /\ UNCHANGED <<csrVars, epc, loaded, cmd, wr_data, wireVars, lockVars>>

(* memcpy between the storage and the engine's window, a byte at a time. *)
CopyByte(e) ==
    LET a == cmd[e].addr + copied[e] IN
    /\ epc[e] = "copy"
    /\ phase[e] = "holding"
    /\ copied[e] < cmd[e].size
    /\ IF e = "rd"
         THEN rd_data' = [rd_data EXCEPT ![copied[e]] = storage[a]] /\ UNCHANGED storage
         ELSE storage' = [storage EXCEPT ![a] = wr_data[copied[e]]] /\ UNCHANGED rd_data
    /\ copied' = [copied EXCEPT ![e] = @ + 1]
    /\ UNCHANGED <<csrVars, epc, loaded, cmd, wr_data, wireVars, lockVars>>

(* The read engine unlocks before it reports, the write engine after. *)
CopyDone(e) ==
    /\ epc[e] = "copy"
    /\ phase[e] = "holding"
    /\ copied[e] = cmd[e].size
    /\ Goto(e, IF e = "rd" THEN "unlock" ELSE "set_comp")
    /\ UNCHANGED <<csrVars, loaded, cmd, copied, dataVars, wireVars, lockVars>>

UnlockStorage(e) ==
    /\ epc[e] = "unlock"
    /\ Release(e)
    /\ Goto(e, IF e = "rd" THEN "set_comp" ELSE "send")
    /\ UNCHANGED <<csrVars, loaded, cmd, copied, dataVars, wireVars>>

(* Mutant: the flag is stored without the rest of the byte being kept. *)
SetCompAlone(e) ==
    \/ LoadStatus(e, e, "set_comp")
    \/ StoreStatus(e, e, Flags, {"comp"}, "set_comp",
                   IF phase[e] = "holding" THEN "unlock" ELSE "send")

(* Mutant: a rejected command is reported without an interrupt. *)
SetCompNoInterrupt(e) ==
    \/ LoadStatus(e, e, "set_comp")
    \/ StoreStatus(e, e, {}, {"comp"}, "set_comp",
                   IF phase[e] = "holding" THEN "unlock"
                   ELSE IF Valid(cmd[e]) THEN "send" ELSE "poll")

SetComp(e) ==
    \/ LoadStatus(e, e, "set_comp")
    \/ StoreStatus(e, e, {}, {"comp"}, "set_comp",
                   IF phase[e] = "holding" THEN "unlock" ELSE "send")

(* send blocks while the socket is full; then the engine polls again.      *)
SendInterrupt(e) ==
    /\ epc[e] = "send"
    /\ msgs < SocketCapacity
    /\ msgs' = msgs + 1
    /\ cmd' = [cmd EXCEPT ![e] = NoCommand]
    /\ copied' = [copied EXCEPT ![e] = 0]
    /\ Goto(e, "poll")
    /\ UNCHANGED <<csrVars, loaded, dataVars, msi, lockVars>>

-----------------------------------------------------------------------------
(* QEMU reads any number of waiting messages at once and looks only at the *)
(* first byte of what it read, so they make one MSI.                       *)
chr_read ==
    \E n \in 1..msgs :
        /\ msgs' = msgs - n
        /\ msi' = TRUE
        /\ UNCHANGED <<csrVars, engineVars, dataVars, lockVars>>

EngineStep(e) ==
    \/ SeeStart(e) \/ UnsetStart(e)
    \/ UnsetComp(e) \/ UnsetAddrError(e) \/ UnsetSizeError(e)
    \/ FetchAddr(e) \/ FetchSize(e) \/ SetAddrError(e)
    \/ LockStorage(e) \/ AwaitLock(e) \/ CopyByte(e) \/ CopyDone(e) \/ UnlockStorage(e)
    \/ SetComp(e) \/ SendInterrupt(e)

DeviceNext == chr_read \/ \E e \in Threads : EngineStep(e)

(* The engines and QEMU's event loop are scheduled, and a thread blocked   *)
(* in send is served when the socket has room again and again.             *)
DeviceFairness ==
    /\ WF_deviceVars(chr_read)
    /\ \A e \in Threads : WF_deviceVars(EngineStep(e)) /\ SF_deviceVars(SendInterrupt(e))

DeviceTypeOK ==
    /\ LockTypeOK
    /\ ctrl \in [Threads -> BOOLEAN]
    /\ status \in [Threads -> SUBSET Flags]
    /\ desc \in [Threads -> [addr : Nat, size : Nat]]
    /\ epc \in [Threads -> EnginePCs]
    /\ loaded \in [Threads -> SUBSET SUBSET Flags]
    /\ cmd \in [Threads -> [addr : Nat, size : 0..WinSize]]
    /\ copied \in [Threads -> 0..WinSize]
    /\ storage \in [0..DiskSize - 1 -> Values]
    /\ rd_data \in [0..WinSize - 1 -> Values]
    /\ wr_data \in [0..WinSize - 1 -> Values]
    /\ msgs \in 0..SocketCapacity
    /\ msi \in BOOLEAN

(* Whatever the host writes, and however it is torn between two hosts, an  *)
(* engine locks and copies only ranges that lie inside the storage file    *)
(* (validate_descriptor works on a private copy of the descriptor).        *)
CopiesInsideStorage ==
    \A e \in Threads : epc[e] \in {"lock", "copy"} => cmd[e] \in ValidCommands
=============================================================================
