------------------------------ MODULE FlashSystem ------------------------------
(***************************************************************************)
(* The driver of Flash on top of a device process that starts, fails to    *)
(* start, stops, crashes and starts again (DeviceProcess), while the host  *)
(* goes on calling.  The two share the registers, the windows and the MSI, *)
(* and nothing tells the host that the process is gone.                    *)
(***************************************************************************)
EXTENDS Flash, DeviceProcess

hostVars == <<procVars, done, irqVars>>
systemVars == <<vars, processVars>>

SystemInit == FlashInit /\ ProcessInit

HostStep ==
    /\ r04flash_irq \/ \E p \in Procs : Call(p) \/ CallStep(p)
    /\ UNCHANGED processVars

SystemNext == HostStep \/ (ProcessStep /\ UNCHANGED hostVars)

SystemSpec == SystemInit /\ [][SystemNext]_systemVars

(* Only the host is scheduled: the device process may be down for ever.    *)
HostFairness == \A p \in Procs : WF_systemVars(CallStep(p) /\ UNCHANGED processVars)

FairSystemSpec == SystemSpec /\ HostFairness
-----------------------------------------------------------------------------
(* The process has come through its initialisation and serves. *)
Serving ==
    /\ mpc = "loop"
    /\ ~stop_flag
    /\ wired = Threads
    /\ \A e \in Threads : thread[e] = "running"

(* Whatever a crash has left in the register file, a process that serves   *)
(* has a way to announce every comp bit that is set (InterruptDue of       *)
(* Flash): pcie_dev_init clears the registers before the engines begin.    *)
DueWhileServing == Serving => InterruptDue
=============================================================================
