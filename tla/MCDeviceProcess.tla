--------------------------- MODULE MCDeviceProcess ---------------------------
(* Instances of DeviceProcess for TLC. *)
EXTENDS DeviceProcess

(* The only byte of the storage. *)
TheByte == {[addr |-> 0, size |-> 1]}

(* The only byte, and the byte past the end. *)
InsideAndOutside == TheByte \cup {[addr |-> 1, size |-> 1]}
=============================================================================
