-------------------------- MODULE MCDriverLifecycle --------------------------
(* Instances of DriverLifecycle for TLC.  An address decides nothing in    *)
(* this module.                                                            *)
EXTENDS DriverLifecycle

(* Zero, one, a number above the window and the number that is cut to      *)
(* zero; and the timeout that sysfs replaces and ioctl takes as it is.     *)
SomeNumbers == [addr |-> {}, size |-> {0, 1, 3, U32}, timeout |-> {0}]

(* The size that sysfs replaces and ioctl takes as it is. *)
OnlyZero == [addr |-> {}, size |-> {0}, timeout |-> {}]
=============================================================================
