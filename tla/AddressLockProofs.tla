-------------------------- MODULE AddressLockProofs --------------------------
(***************************************************************************)
(* Proofs about the address lock, for every set of requests.               *)
(***************************************************************************)
EXTENDS AddressLock, TLAPS

(* The steps of one thread, in the order of LockNext. *)
ThreadStep(t) == (\E req \in Requests : Acquire(t, req)) \/ AwaitGrant(t) \/ Release(t)

(* LockNext is a step of one of the two threads. *)
LEMMA NextByThread ==
    ASSUME LockNext
    PROVE  \E t \in Threads : ThreadStep(t)
  BY DEF LockNext, ThreadStep, Threads, address_lock_rd_lock, address_lock_wr_lock,
         address_lock_rd_unlock, address_lock_wr_unlock

(* The code's interval test (address_lock.c:10-12) is right for ranges of  *)
(* at least one byte: it holds exactly when the two share a byte.          *)
LEMMA OverlapsIsSharing ==
    ASSUME NEW a \in [addr : Nat, size : Nat], NEW b \in [addr : Nat, size : Nat],
           ACTIVE_LOCK(a), ACTIVE_LOCK(b)
    PROVE  overlaps(a, b) <=> ~RL!Disjoint(a, b)
<1> USE DEF ACTIVE_LOCK, overlaps, RL!Disjoint, RL!Bytes
<1>1. CASE overlaps(a, b) /\ a.addr <= b.addr
  <2>1. b.addr \in RL!Bytes(a) \cap RL!Bytes(b)
    BY <1>1
  <2>. QED  BY <2>1, <1>1
<1>2. CASE overlaps(a, b) /\ ~(a.addr <= b.addr)
  <2>1. a.addr \in RL!Bytes(a) \cap RL!Bytes(b)
    BY <1>2
  <2>. QED  BY <2>1, <1>2
<1>3. CASE ~overlaps(a, b)
  <2>1. \A n \in RL!Bytes(a) : n \notin RL!Bytes(b)
    BY <1>3
  <2>. QED  BY <2>1, <1>3
<1>. QED  BY <1>1, <1>2, <1>3

-----------------------------------------------------------------------------
(* A zeroed lock is well typed. *)
LEMMA TypeInit == LockInit => LockTypeOK
  BY DEF LockInit, LockTypeOK, NoLock

(* The four calls and the polling loops keep the types. *)
LEMMA TypeStep == LockTypeOK /\ [LockNext]_lockVars => LockTypeOK'
<1> SUFFICES ASSUME LockTypeOK, [LockNext]_lockVars PROVE LockTypeOK'
  OBVIOUS
<1> USE DEF LockTypeOK
<1>1. CASE UNCHANGED lockVars
  BY <1>1 DEF lockVars
<1>2. CASE LockNext
  <2>1. PICK t \in Threads : ThreadStep(t)
    BY <1>2, NextByThread
  <2>2. CASE \E req \in Requests : Acquire(t, req)
    BY <2>2 DEF Acquire, Enqueue, Grant
  <2>3. CASE AwaitGrant(t)
    BY <2>3 DEF AwaitGrant
  <2>4. CASE Release(t)
    BY <2>4 DEF Release, Threads, Other
  <2>. QED  BY <2>1, <2>2, <2>3, <2>4 DEF ThreadStep
<1>. QED  BY <1>1, <1>2

(* Type correctness of the address lock. *)
THEOREM LockTypes == LockSpec => []LockTypeOK
<1>. QED  BY TypeInit, TypeStep, PTL DEF LockSpec

-----------------------------------------------------------------------------
(* The two threads of the device never poll for each other. *)
THEOREM LockNoMutualWait == LockSpec => []NoMutualWait
<1>1. LockInit => NoMutualWait
  BY DEF LockInit, NoMutualWait, Polling, Threads
<1>2. LockTypeOK /\ NoMutualWait /\ [LockNext]_lockVars => NoMutualWait'
  <2> SUFFICES ASSUME LockTypeOK, NoMutualWait, [LockNext]_lockVars PROVE NoMutualWait'
    OBVIOUS
  <2> USE DEF LockTypeOK, NoMutualWait, Polling, Threads, Other
  <2>1. CASE UNCHANGED lockVars
    BY <2>1 DEF lockVars
  <2>2. CASE LockNext
    <3>1. PICK t \in Threads : ThreadStep(t)
      BY <2>2, NextByThread
    <3>2. ASSUME NEW req \in Requests, Acquire(t, req) PROVE NoMutualWait'
      <4>1. CASE Enqueue(t, req)
        BY <4>1 DEF Enqueue, Conflict
      <4>2. CASE Grant(t, req)
        BY <4>2 DEF Grant
      <4>. QED  BY <3>2, <4>1, <4>2 DEF Acquire
    <3>3. CASE AwaitGrant(t)
      BY <3>3 DEF AwaitGrant
    <3>4. CASE Release(t)
      BY <3>4 DEF Release
    <3>. QED  BY <3>1, <3>2, <3>3, <3>4 DEF ThreadStep
  <2>. QED  BY <2>1, <2>2
<1>. QED  BY <1>1, <1>2, LockTypes, PTL DEF LockSpec

-----------------------------------------------------------------------------
(***************************************************************************)
(* Exclusion up to the first reinstalled request.  As long as no unlock    *)
(* has installed a finished request the lock table is exact: a thread      *)
(* holds what is registered for it, an idle thread has nothing registered, *)
(* a waiting thread is queued and either has its range registered or waits *)
(* for a thread that holds; and two registered ranges never overlap.       *)
(***************************************************************************)
ExactFor(t) ==
    /\ phase[t] = "idle" => lock[t] = NoLock
    /\ phase[t] = "holding" => lock[t] = want[t]
    /\ phase[t] = "waiting" => pending[t] = want[t] /\ lock[t] \in {NoLock, want[t]}

NoRegisteredOverlap ==
    ACTIVE_LOCK(lock["rd"]) /\ ACTIVE_LOCK(lock["wr"]) => ~overlaps(lock["rd"], lock["wr"])

ExactTable == ~reinstalled => (NoRegisteredOverlap /\ \A t \in Threads : ExactFor(t))

(* Overlapping is symmetric. *)
LEMMA OverlapsSymmetric ==
    ASSUME NEW a \in [addr : Nat, size : Nat], NEW b \in [addr : Nat, size : Nat]
    PROVE  overlaps(a, b) <=> overlaps(b, a)
  BY DEF overlaps

(* A thread that waits without a lock waits for a holder with an active    *)
(* lock, so an unlock that installs its request cannot meet another one.   *)
LEMMA ExactStep ==
    ASSUME LockTypeOK, ExactTable, [LockNext]_lockVars
    PROVE  ExactTable'
<1> USE DEF LockTypeOK, ExactTable, ExactFor, NoRegisteredOverlap, Threads, Other
<1>1. CASE UNCHANGED lockVars
  BY <1>1 DEF lockVars
<1>2. CASE LockNext
  <2>1. PICK t \in Threads : ThreadStep(t)
    BY <1>2, NextByThread
  <2>a. lock["rd"] \in [addr : Nat, size : Nat] /\ lock["wr"] \in [addr : Nat, size : Nat]
    BY RequestsAssumption DEF NoLock
  <2>2. ASSUME NEW req \in Requests, Acquire(t, req) PROVE ExactTable'
    <3>1. req \in [addr : Nat, size : Nat]
      BY RequestsAssumption
    <3>2. CASE Enqueue(t, req)
      BY <2>2, <3>2 DEF Enqueue, Acquire
    <3>3. CASE Grant(t, req)
      <4>1. NoRegisteredOverlap' \/ reinstalled
        BY <2>2, <2>a, <3>1, <3>3, OverlapsSymmetric DEF Grant, Conflict, Acquire
      <4>2. reinstalled \/ \A u \in Threads : ExactFor(u)'
        BY <2>2, <3>3 DEF Grant, Acquire
      <4>. QED  BY <2>2, <4>1, <4>2 DEF Acquire
    <3>. QED  BY <2>2, <3>2, <3>3 DEF Acquire
  <2>3. CASE AwaitGrant(t)
    BY <2>3 DEF AwaitGrant, ACTIVE_LOCK, NoLock
  <2>4. CASE Release(t)
    BY <2>4 DEF Release, Finished, ACTIVE_LOCK, NoLock
  <2>. QED  BY <2>1, <2>2, <2>3, <2>4 DEF ThreadStep
<1>. QED  BY <1>1, <1>2

(* The holders are disjoint up to the first reinstalled request. *)
THEOREM LockDisjointUntilReinstall == LockSpec => []DisjointUntilReinstall
<1>1. LockInit => ExactTable
  BY DEF LockInit, ExactTable, ExactFor, NoRegisteredOverlap, ACTIVE_LOCK, NoLock, Threads
<1>2. LockTypeOK /\ ExactTable => DisjointUntilReinstall
  <2> SUFFICES ASSUME LockTypeOK, ExactTable, ~reinstalled,
                      phase["rd"] = "holding", phase["wr"] = "holding"
               PROVE  RL!Disjoint(want["rd"], want["wr"])
    BY DEF DisjointUntilReinstall, HoldersDisjoint
  <2>1. /\ lock["rd"] = want["rd"] /\ lock["wr"] = want["wr"]
        /\ want["rd"] \in [addr : Nat, size : Nat] /\ want["wr"] \in [addr : Nat, size : Nat]
    BY RequestsAssumption DEF ExactTable, ExactFor, LockTypeOK, Threads
  <2>2. CASE ACTIVE_LOCK(want["rd"]) /\ ACTIVE_LOCK(want["wr"])
    BY <2>1, <2>2, OverlapsIsSharing DEF ExactTable, NoRegisteredOverlap
  <2>3. CASE ~ACTIVE_LOCK(want["rd"]) \/ ~ACTIVE_LOCK(want["wr"])
    BY <2>1, <2>3 DEF ACTIVE_LOCK, RL!Disjoint, RL!Bytes
  <2>. QED  BY <2>2, <2>3
<1>. QED  BY <1>1, <1>2, ExactStep, LockTypes, PTL DEF LockSpec

-----------------------------------------------------------------------------
(* The lock as a range lock, for any requests.  The step that enters beside *)
(* a holder is the point: the table is exact until the first reinstalled   *)
(* request, so what the code compares with is what the other one holds.    *)

(* Who holds a range has it registered, and registered ranges are disjoint. *)
LEMMA EntersBesideDisjoint ==
    ASSUME NEW t \in Threads, NEW r \in [addr : Nat, size : Nat],
           NEW l \in [addr : Nat, size : Nat],
           Held[Other(t)] = NoLock \/ (Held[Other(t)] = l
               /\ ~(ACTIVE_LOCK(r) /\ ACTIVE_LOCK(l) /\ overlaps(r, l)))
    PROVE  \A o \in Threads \ {t} : Held[o] = NoLock \/ RL!Disjoint(r, Held[o])
<1>1. CASE Held[Other(t)] = NoLock
  BY <1>1 DEF Threads, Other
<1>2. CASE Held[Other(t)] = l /\ ACTIVE_LOCK(r) /\ ACTIVE_LOCK(l) /\ ~overlaps(r, l)
  <2>1. RL!Disjoint(r, l)
    BY <1>2, OverlapsIsSharing
  <2>. QED  BY <1>2, <2>1 DEF Threads, Other
<1>3. CASE Held[Other(t)] = l /\ ~(ACTIVE_LOCK(r) /\ ACTIVE_LOCK(l))
  <2>1. RL!Disjoint(r, l)
    BY <1>3 DEF RL!Disjoint, RL!Bytes, ACTIVE_LOCK
  <2>. QED  BY <1>3, <2>1 DEF Threads, Other
<1>. QED  BY <1>1, <1>2, <1>3

(* A thread that starts to hold r takes it in RangeLock, or holds an empty *)
(* range at 0, which is nothing.                                           *)
LEMMA Takes ==
    ASSUME NEW t \in Threads, NEW r \in Requests, Held[t] = NoLock,
           Held' = [Held EXCEPT ![t] = r],
           \A o \in Threads \ {t} : Held[o] = NoLock \/ RL!Disjoint(r, Held[o])
    PROVE  [RL!Next]_Held
<1>1. RL!Take(t, r)
  BY DEF RL!Take
<1>. QED  BY <1>1 DEF RL!Next

(* Every step up to the first reinstalled request. *)
LEMMA RangeLockStep ==
    ASSUME LockTypeOK, ExactTable, ~reinstalled, [LockNext]_lockVars
    PROVE  [RL!Next]_Held
<1> USE DEF LockTypeOK, Threads, Other
<1>1. CASE UNCHANGED lockVars
  BY <1>1 DEF lockVars, Held
<1>2. CASE LockNext
  <2>1. PICK t \in Threads : ThreadStep(t)
    BY <1>2, NextByThread
  <2>a. \A u \in Threads : lock[u] \in [addr : Nat, size : Nat]
    BY RequestsAssumption DEF NoLock
  <2>b. Held[Other(t)] = NoLock \/ Held[Other(t)] = lock[Other(t)]
    BY DEF ExactTable, ExactFor, Held
  <2>2. ASSUME NEW req \in Requests, Acquire(t, req) PROVE [RL!Next]_Held
    <3>1. CASE Enqueue(t, req)
      <4>1. Held' = Held
        BY <2>2, <3>1 DEF Enqueue, Acquire, Held
      <4>. QED  BY <4>1
    <3>2. CASE Grant(t, req)
      <4>1. Held' = [Held EXCEPT ![t] = req] /\ Held[t] = NoLock
        BY <2>2, <3>2 DEF Grant, Acquire, Held
      <4>2. ~(ACTIVE_LOCK(lock[Other(t)]) /\ overlaps(req, lock[Other(t)]))
        BY <3>2 DEF Grant, Conflict
      <4>3. req \in [addr : Nat, size : Nat]
        BY RequestsAssumption
      <4>4. \A o \in Threads \ {t} : Held[o] = NoLock \/ RL!Disjoint(req, Held[o])
        BY <2>a, <2>b, <4>2, <4>3, EntersBesideDisjoint
      <4>. QED  BY <4>1, <4>4, Takes
    <3>. QED  BY <2>2, <3>1, <3>2 DEF Acquire
  <2>3. CASE AwaitGrant(t)
    <3>1. /\ Held' = [Held EXCEPT ![t] = want[t]] /\ Held[t] = NoLock
          /\ want[t] \in Requests
      BY <2>3 DEF AwaitGrant, Held
    <3>2. lock[t] = want[t] /\ ACTIVE_LOCK(lock[t])
      BY <2>3 DEF AwaitGrant, ExactTable, ExactFor, ACTIVE_LOCK, NoLock
    <3>3. ~(ACTIVE_LOCK(lock[Other(t)]) /\ overlaps(want[t], lock[Other(t)]))
      BY <2>a, <3>2, OverlapsSymmetric DEF ExactTable, NoRegisteredOverlap
    <3>4. \A o \in Threads \ {t} : Held[o] = NoLock \/ RL!Disjoint(want[t], Held[o])
      BY <2>a, <2>b, <3>2, <3>3, EntersBesideDisjoint
    <3>. QED  BY <3>1, <3>4, Takes
  <2>4. CASE Release(t)
    <3>1. Held' = [Held EXCEPT ![t] = NoLock]
      BY <2>4 DEF Release, Held
    <3>2. CASE Held[t] = NoLock
      <4>1. Held' = Held
        BY <3>1, <3>2 DEF Held
      <4>. QED  BY <4>1
    <3>3. CASE Held[t] # NoLock
      <4>1. RL!Drop(t)
        BY <3>1, <3>3 DEF RL!Drop
      <4>. QED  BY <4>1 DEF RL!Next
    <3>. QED  BY <3>2, <3>3
  <2>. QED  BY <2>1, <2>2, <2>3, <2>4 DEF ThreadStep
<1>. QED  BY <1>1, <1>2

(* For every set of requests the lock implements RangeLock up to the first *)
(* reinstalled request.                                                    *)
THEOREM LockImplementsUntilReinstall == LockSpec => ImplementsUntilReinstall
<1>1. LockInit => RL!Init
  BY DEF LockInit, RL!Init, Held, Threads
<1>2. LockInit => ExactTable
  BY DEF LockInit, ExactTable, ExactFor, NoRegisteredOverlap, ACTIVE_LOCK, NoLock, Threads
<1>3. LockTypeOK /\ ExactTable /\ [LockNext]_lockVars
        => ExactTable' /\ [reinstalled \/ RL!Next]_Held
  BY ExactStep, RangeLockStep
<1>. QED
  BY <1>1, <1>2, <1>3, LockTypes, PTL DEF LockSpec, ImplementsUntilReinstall
=============================================================================
