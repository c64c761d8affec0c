----------------------------- MODULE AddressLock -----------------------------
(***************************************************************************)
(* The address lock of the device process (pcie_device/address_lock.c).    *)
(* Two threads use it: "rd" calls address_lock_rd_lock/rd_unlock and "wr"  *)
(* calls address_lock_wr_lock/wr_unlock, which are the same code with the  *)
(* two sides exchanged.  The fields rd_lock and wr_lock are lock["rd"] and *)
(* lock["wr"], pending_rd and pending_wr are pending["rd"], pending["wr"]. *)
(* The body of each call runs under one pthread mutex and is one step; the *)
(* polling loop that follows a conflict reads the lock without the mutex   *)
(* and is a step of its own.                                               *)
(***************************************************************************)
EXTENDS Integers

CONSTANT Requests    \* the [addr, size] pairs the threads may lock

(* Addresses reach the lock after validate_descriptor, so addr + size is   *)
(* at most the size of the storage file and the 64-bit sums do not wrap.   *)
ASSUME RequestsAssumption == Requests \subseteq [addr : Nat, size : Nat]

Threads == {"rd", "wr"}
Other(t) == IF t = "rd" THEN "wr" ELSE "rd"

(* A zeroed struct lock_pair. *)
NoLock == [addr |-> 0, size |-> 0]

VARIABLES lock,      \* the range registered for each thread
          pending,   \* the range queued for each thread
          phase,     \* "idle", "waiting" in the polling loop, "holding"
          want,      \* the arguments of the thread's current lock call
          reinstalled \* history: an unlock has installed a finished request

lockVars == <<lock, pending, phase, want, reinstalled>>

LockInit ==
    /\ lock = [t \in Threads |-> NoLock]
    /\ pending = [t \in Threads |-> NoLock]
    /\ phase = [t \in Threads |-> "idle"]
    /\ want = [t \in Threads |-> NoLock]
    /\ reinstalled = FALSE

-----------------------------------------------------------------------------
ACTIVE_LOCK(l) == l.size # 0

(* Mutant: the last byte of a range is left out of the comparison. *)
overlapsShort(a, b) == a.addr + 1 < b.addr + b.size /\ b.addr < a.addr + a.size

overlaps(a, b) == a.addr < b.addr + b.size /\ b.addr < a.addr + a.size

(* Mutant: a queued request already blocks the other thread. *)
ConflictWithQueue(t, req) ==
    \/ ACTIVE_LOCK(lock[Other(t)]) /\ overlaps(req, lock[Other(t)])
    \/ ACTIVE_LOCK(pending[Other(t)]) /\ overlaps(req, pending[Other(t)])

(* Mutant: a thread compares with its own lock, not with the other one's.  *)
ConflictWithSelf(t, req) == ACTIVE_LOCK(lock[t]) /\ overlaps(req, lock[t])

Conflict(t, req) == ACTIVE_LOCK(lock[Other(t)]) /\ overlaps(req, lock[Other(t)])

(* A conflicting request is queued and the caller goes to poll. *)
Enqueue(t, req) ==
    /\ Conflict(t, req)
    /\ pending' = [pending EXCEPT ![t] = req]
    /\ phase' = [phase EXCEPT ![t] = "waiting"]
    /\ UNCHANGED lock

Grant(t, req) ==
    /\ ~Conflict(t, req)
    /\ lock' = [lock EXCEPT ![t] = req]
    /\ phase' = [phase EXCEPT ![t] = "holding"]
    /\ UNCHANGED pending

(* The common body of the two lock calls. *)
Acquire(t, req) ==
    /\ phase[t] = "idle"
    /\ want' = [want EXCEPT ![t] = req]
    /\ Enqueue(t, req) \/ Grant(t, req)
    /\ UNCHANGED reinstalled

address_lock_rd_lock(req) == Acquire("rd", req)
address_lock_wr_lock(req) == Acquire("wr", req)

(* The polling loop ends as soon as the caller's own lock is active,       *)
(* whoever set it and to whatever range.                                   *)
AwaitGrant(t) ==
    /\ phase[t] = "waiting"
    /\ ACTIVE_LOCK(lock[t])
    /\ phase' = [phase EXCEPT ![t] = "holding"]
    /\ UNCHANGED <<lock, pending, want, reinstalled>>

(* The queued request of thread o does not belong to a call in progress.   *)
Finished(o) == phase[o] = "idle" \/ want[o] # pending[o]

(* Mutant: unlocking forgets the queue. *)
ReleaseOnly(t) ==
    /\ phase[t] = "holding"
    /\ lock' = [lock EXCEPT ![t] = NoLock]
    /\ phase' = [phase EXCEPT ![t] = "idle"]
    /\ want' = [want EXCEPT ![t] = NoLock]
    /\ UNCHANGED <<pending, reinstalled>>

(* Mutant: unlocking clears the size and keeps the address. *)
ReleaseKeepsAddr(t) ==
    LET o == Other(t) IN
    /\ phase[t] = "holding"
    /\ lock' = [lock EXCEPT ![t].size = 0,
                            ![o] = IF ACTIVE_LOCK(pending[o]) THEN pending[o] ELSE @]
    /\ phase' = [phase EXCEPT ![t] = "idle"]
    /\ want' = [want EXCEPT ![t] = NoLock]
    /\ reinstalled' = (reinstalled \/ (ACTIVE_LOCK(pending[o]) /\ Finished(o)))
    /\ UNCHANGED pending

(* The common body of the two unlock calls: clear the caller's lock and,   *)
(* when something is queued for the other thread, install it.  The queue   *)
(* itself is not cleared.                                                  *)
Release(t) ==
    LET o == Other(t) IN
    /\ phase[t] = "holding"
    /\ lock' = [lock EXCEPT ![t] = NoLock,
                            ![o] = IF ACTIVE_LOCK(pending[o]) THEN pending[o] ELSE @]
    /\ phase' = [phase EXCEPT ![t] = "idle"]
    /\ want' = [want EXCEPT ![t] = NoLock]
    /\ reinstalled' = (reinstalled \/ (ACTIVE_LOCK(pending[o]) /\ Finished(o)))
    /\ UNCHANGED pending

address_lock_rd_unlock == Release("rd")
address_lock_wr_unlock == Release("wr")

-----------------------------------------------------------------------------
LockNext ==
    \/ \E req \in Requests : address_lock_rd_lock(req) \/ address_lock_wr_lock(req)
    \/ \E t \in Threads : AwaitGrant(t)
    \/ address_lock_rd_unlock
    \/ address_lock_wr_unlock

LockSpec == LockInit /\ [][LockNext]_lockVars

(* A thread that polls or holds a range is in the middle of serving one    *)
(* command and the scheduler runs it; nothing makes a host send commands.  *)
LockFairness ==
    \A t \in Threads : WF_lockVars(AwaitGrant(t)) /\ WF_lockVars(Release(t))

FairLockSpec == LockSpec /\ LockFairness

-----------------------------------------------------------------------------
(* Every field holds a value the code can give it; in particular a lock is *)
(* either cleared in both fields or one of the requested ranges.           *)
LockTypeOK ==
    /\ lock \in [Threads -> Requests \cup {NoLock}]
    /\ pending \in [Threads -> Requests \cup {NoLock}]
    /\ phase \in [Threads -> {"idle", "waiting", "holding"}]
    /\ want \in [Threads -> Requests \cup {NoLock}]
    /\ reinstalled \in BOOLEAN
    /\ \A t \in Threads : phase[t] # "idle" => want[t] \in Requests

(* What each thread works on. *)
Held == [t \in Threads |-> IF phase[t] = "holding" THEN want[t] ELSE NoLock]

RL == INSTANCE RangeLock WITH Ranges <- Requests, NoRange <- NoLock, held <- Held

(* The two threads never work on a common byte of the storage at the same  *)
(* time (bars.h:90-97: a range that meets a locked one is set only when    *)
(* that one is released).  The code does not keep this promise.            *)
HoldersDisjoint ==
    phase["rd"] = "holding" /\ phase["wr"] = "holding" => RL!Disjoint(want["rd"], want["wr"])

(* What the code does keep: the holders are disjoint up to the first time  *)
(* an unlock installs a queued request whose call has already ended,       *)
(* because rd_unlock and wr_unlock leave pending_wr and pending_rd set.    *)
DisjointUntilReinstall == ~reinstalled => HoldersDisjoint

(* A thread in its polling loop that nobody has given a lock yet. *)
Polling(t) == phase[t] = "waiting" /\ ~ACTIVE_LOCK(lock[t])

(* The two threads never poll for each other: whatever the requests, empty *)
(* ones included, one of the two can always leave its loop.                *)
NoMutualWait == ~(Polling("rd") /\ Polling("wr"))

(* A request of at least one byte that is queued behind a thread that      *)
(* holds its range is admitted (rd_unlock and wr_unlock install it).       *)
AdmittedAfterHolder ==
    \A t \in Threads :
        (phase[t] = "waiting" /\ want[t].size > 0 /\ phase[Other(t)] = "holding")
            ~> (phase[t] = "holding")

(* Every queued request is admitted: address_lock.c:47-48 and 88-89 say    *)
(* that the other thread sets the lock from the queue.  Not kept: the lock *)
(* it waits for may have been left by a reinstalled request.               *)
WaiterAdmitted == \A t \in Threads : (phase[t] = "waiting") ~> (phase[t] = "holding")

(* Up to the first reinstalled request every call of the lock, with any    *)
(* ranges, is a step of RangeLock: whoever enters, at once or out of its   *)
(* polling loop, enters beside a holder of other bytes only, and an unlock *)
(* takes nothing from the other thread.                                    *)
ImplementsUntilReinstall == RL!Init /\ [][reinstalled \/ RL!Next]_Held
=============================================================================
