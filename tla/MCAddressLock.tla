---------------------------- MODULE MCAddressLock ----------------------------
(* Instances of AddressLock for TLC. *)
EXTENDS AddressLock

(* Ranges that meet, ranges that do not, and two empty ranges, one of them *)
(* inside another range and one at the beginning of the storage.           *)
MixedRequests == {[addr |-> 0, size |-> 2], [addr |-> 1, size |-> 1],
                  [addr |-> 3, size |-> 1], [addr |-> 1, size |-> 0],
                  [addr |-> 0, size |-> 0]}

NonEmptyRequests == {r \in MixedRequests : r.size > 0}
=============================================================================
