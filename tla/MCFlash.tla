------------------------------- MODULE MCFlash -------------------------------
(* Instances of Flash for TLC. *)
EXTENDS Flash, TLC

Reading(addr, count) == [addr |-> addr, count |-> count, data |-> <<>>]
Writing(addr, data) == [addr |-> addr, count |-> Len(data), data |-> data]

(* The maximum chunk of each side. *)
OneByteChunks == [d \in Threads |-> 1]
TwoByteChunks == [d \in Threads |-> 2]
MixedChunks == [rd |-> 1, wr |-> 2]

(* Writes in chunks of two bytes: one of two chunks, and one that begins   *)
(* inside the storage and ends outside.  Both come to the byte that is read.*)
LastByte == {Reading(2, 1)}
LongWrites == {Writing(0, <<1, 2, 2>>), Writing(2, <<2, 2>>)}

DisjointReads == {Reading(0, 1)}
DisjointWrites == {Writing(1, <<1>>)}

(* Two chunks, of two bytes and of one; the second is outside a storage of *)
(* two bytes.                                                              *)
LongReads == {Reading(0, 3)}

ShortReads == {Reading(0, 1), Reading(2, 1)}
OutsideWrites == {Writing(2, <<0>>)}
NoCalls == {}

(* Readers that are alike can be exchanged. *)
ReadersAlike == Permutations(Readers)
=============================================================================
