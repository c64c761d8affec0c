---------------------------- MODULE MCFlashSystem ----------------------------
(* Instances of FlashSystem for TLC. *)
EXTENDS FlashSystem

(* The only byte of the storage. *)
OneByte == {[addr |-> 0, count |-> 1, data |-> <<>>]}
NoCalls == {}
OneByteChunks == [d \in Threads |-> 1]
=============================================================================
