------------------------------ MODULE BlockStore ------------------------------
(***************************************************************************)
(* What the flash promises the processes that read and write /dev/r04flash:*)
(* a storage whose bytes are read and written one at a time.  Calls of     *)
(* several bytes are not atomic.  Stated from what r04flash_read and       *)
(* r04flash_write return to their callers.                                 *)
(***************************************************************************)
EXTENDS Integers, Sequences

CONSTANTS Clients, Readers,  \* who calls; the others write
          AllCalls,          \* what they may ask: [addr, count, data]
          Size,              \* bytes of the storage
          Failures,          \* what a call returns that did not move its bytes
          Blank, NoCall

VARIABLES mem,      \* the bytes
          busy,     \* who is inside a call
          call,     \* the arguments of each client's call
          moved,    \* how many bytes of it have been moved
          got,      \* the bytes a reader has received for it
          answer    \* what the last call returned

storeVars == <<mem, busy, call, moved, got, answer>>

Init ==
    /\ mem = [a \in 0..Size - 1 |-> Blank]
    /\ busy = [p \in Clients |-> FALSE]
    /\ call = [p \in Clients |-> NoCall]
    /\ moved = [p \in Clients |-> 0]
    /\ got = [p \in Readers |-> <<>>]
    /\ answer = [p \in Clients |-> 0]

Begin(p, c) ==
    /\ ~busy[p]
    /\ busy' = [busy EXCEPT ![p] = TRUE]
    /\ call' = [call EXCEPT ![p] = c]
    /\ answer' = [answer EXCEPT ![p] = 0]
    /\ UNCHANGED <<mem, moved, got>>

(* The next byte of the call is read or written. *)
Move(p) ==
    LET a == call[p].addr + moved[p] IN
    /\ busy[p]
    /\ moved[p] < call[p].count
    /\ a < Size
    /\ moved' = [moved EXCEPT ![p] = @ + 1]
    /\ IF p \in Readers
         THEN got' = [got EXCEPT ![p] = Append(@, mem[a])] /\ UNCHANGED mem
         ELSE mem' = [mem EXCEPT ![a] = call[p].data[moved[p] + 1]] /\ UNCHANGED got
    /\ UNCHANGED <<busy, call, answer>>

(* A call ends when all is moved, or when it asks for bytes outside.       *)
Finish(p) ==
    /\ busy[p]
    /\ \/ /\ moved[p] = call[p].count
          /\ answer' = [answer EXCEPT ![p] = call[p].count]
       \/ /\ call[p].addr + call[p].count > Size
          /\ \E n \in Failures : answer' = [answer EXCEPT ![p] = n]
    /\ busy' = [busy EXCEPT ![p] = FALSE]
    /\ call' = [call EXCEPT ![p] = NoCall]
    /\ moved' = [moved EXCEPT ![p] = 0]
    /\ got' = [r \in Readers |-> IF r = p THEN <<>> ELSE got[r]]
    /\ UNCHANGED mem

Next == \E p \in Clients : Move(p) \/ Finish(p) \/ \E c \in AllCalls : Begin(p, c)

Spec == Init /\ [][Next]_storeVars
=============================================================================
