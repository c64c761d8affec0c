------------------------------ MODULE RangeLock ------------------------------
(***************************************************************************)
(* What the address lock of the device is for (pcie_device/bars.h:90-97): *)
(* the read engine and the write engine each hold at most one range of the *)
(* storage, and never two ranges that share a byte.                        *)
(***************************************************************************)
EXTENDS Integers

CONSTANTS Threads,   \* the engines that lock ranges
          Ranges,    \* the ranges they ask for, [addr, size]
          NoRange    \* "holds nothing"

VARIABLE held        \* the range each engine holds

Bytes(r) == r.addr .. (r.addr + r.size - 1)

(* Two ranges share no byte of the storage. *)
Disjoint(a, b) == Bytes(a) \cap Bytes(b) = {}

Init == held = [t \in Threads |-> NoRange]

(* A range is granted only when it is disjoint from what the others hold. *)
Take(t, r) ==
    /\ held[t] = NoRange
    /\ \A o \in Threads \ {t} : held[o] = NoRange \/ Disjoint(r, held[o])
    /\ held' = [held EXCEPT ![t] = r]

Drop(t) ==
    /\ held[t] # NoRange
    /\ held' = [held EXCEPT ![t] = NoRange]

Next == \E t \in Threads : Drop(t) \/ \E r \in Ranges : Take(t, r)

Spec == Init /\ [][Next]_held
=============================================================================
