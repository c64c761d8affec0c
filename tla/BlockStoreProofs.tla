--------------------------- MODULE BlockStoreProofs ---------------------------
(***************************************************************************)
(* Patient hosts see a block store: FlashSpec implements BlockStore under  *)
(* the mapping of Flash.  The copying of a byte by an engine is the move   *)
(* of that byte; the end of a call is its end; all other steps stutter.    *)
(***************************************************************************)
EXTENDS CompletionProofs

(* What the mapping makes of a process: the abstract moved and got. *)
Moved(p) == pos[p] + CopiedOfChunk(p)
Got(p) == SubSeq(userbuf[p], 1, pos[p]) \o GotOfChunk(p)

-----------------------------------------------------------------------------
(* Sequences of bytes. *)

(* One more byte in the window is one more byte received. *)
LEMMA OneMoreByte ==
    ASSUME NEW s \in Seq(Values), NEW k \in Nat, NEW w, NEW x, NEW v \in Values,
           \A i \in 1..k : w[i - 1] \in Values /\ x[i - 1] = w[i - 1], x[k] = v
    PROVE  s \o [i \in 1..k + 1 |-> x[i - 1]] = Append(s \o [i \in 1..k |-> w[i - 1]], v)
<1> DEFINE old == [i \in 1..k |-> w[i - 1]]
           new == [i \in 1..k + 1 |-> x[i - 1]]
<1>1. old \in Seq(Values) /\ Len(old) = k
  BY ChunkSequence
<1>2. \A i \in 1..k + 1 : x[i - 1] \in Values
  OBVIOUS
<1>3. new \in Seq(Values) /\ Len(new) = k + 1
  BY <1>2, ChunkSequence
<1>4. \A i \in 1..k : old[i] = w[i - 1] /\ new[i] = w[i - 1]
  OBVIOUS
<1>5. new[k + 1] = v
  OBVIOUS
<1> HIDE DEF old, new
<1>6. Append(old, v) = new
  <2>1. /\ Append(old, v) \in Seq(Values) /\ Len(Append(old, v)) = k + 1
        /\ \A i \in 1..k : Append(old, v)[i] = old[i]
        /\ Append(old, v)[k + 1] = v
    BY <1>1, AppendProperties
  <2>2. \A i \in 1..k + 1 : Append(old, v)[i] = new[i]
    BY <1>4, <1>5, <2>1
  <2>. QED  BY <1>3, <2>1, <2>2, SeqEqual
<1>7. s \o new = Append(s \o old, v)
  <2>1. s \o old \in Seq(Values)
    BY <1>1, ConcatProperties
  <2>2. Append(s \o old, v) = (s \o old) \o <<v>> /\ Append(old, v) = old \o <<v>>
    BY <1>1, <2>1, AppendIsConcat
  <2>3. <<v>> \in Seq(Values)
    OBVIOUS
  <2>4. (s \o old) \o <<v>> = s \o (old \o <<v>>)
    BY <1>1, <2>3, ConcatAssociative
  <2>. QED  BY <1>6, <2>2, <2>4
<1>. QED  BY <1>7 DEF old, new

(* A chunk that has been put behind n bytes is found there. *)
LEMMA ChunkBehind ==
    ASSUME NEW u \in Seq(Values), NEW n \in Nat, n <= Len(u), NEW c \in Seq(Values),
           NEW t, t = SubSeq(u, 1, n) \o c
    PROVE  /\ SubSeq(t, 1, n) = SubSeq(u, 1, n)
           /\ SubSeq(t, n + 1, n + Len(c)) = c
           /\ SubSeq(t, n + 1, n + 0) = <<>>
<1> DEFINE front == SubSeq(u, 1, n)
<1>1. Len(u) \in Nat /\ Len(c) \in Nat
  BY LenProperties
<1>2. \A i \in 1..n : u[i] \in Values
  BY <1>1, ElementOfSeq
<1>3. /\ front \in Seq(Values) /\ Len(front) = n
      /\ \A i \in 1..n : front[i] = u[i]
  BY <1>2, SubSeqProperties
<1>4. /\ t \in Seq(Values) /\ Len(t) = n + Len(c)
      /\ \A i \in 1..n + Len(c) : t[i] = IF i <= n THEN front[i] ELSE c[i - n]
  BY <1>3, ConcatProperties
<1> HIDE DEF front
<1>5. SubSeq(t, 1, n) = front
  <2>1. \A i \in 1..n : t[i] \in Values /\ t[i] = front[i]
    BY <1>1, <1>4, ElementOfSeq
  <2>2. /\ SubSeq(t, 1, n) \in Seq(Values) /\ Len(SubSeq(t, 1, n)) = n
        /\ \A i \in 1..n : SubSeq(t, 1, n)[i] = t[i]
    BY <2>1, SubSeqProperties
  <2>. QED  BY <1>3, <2>1, <2>2, SeqEqual
<1>6. SubSeq(t, n + 1, n + Len(c)) = c
  <2>1. \A i \in n + 1..n + Len(c) : t[i] \in Values
    BY <1>1, <1>4, ElementOfSeq
  <2>2. /\ SubSeq(t, n + 1, n + Len(c)) \in Seq(Values)
        /\ Len(SubSeq(t, n + 1, n + Len(c))) = Len(c)
        /\ \A i \in 1..Len(c) : SubSeq(t, n + 1, n + Len(c))[i] = t[n + i]
    BY <1>1, <2>1, SubSeqProperties
  <2>3. \A i \in 1..Len(c) : t[n + i] = c[i]
    BY <1>1, <1>4
  <2>. QED  BY <2>2, <2>3, SeqEqual
<1>7. SubSeq(t, n + 1, n + 0) = <<>>
  BY SubSeqEmpty
<1>. QED  BY <1>5, <1>6, <1>7 DEF front

(* A chunk that is done counts as part of the front. *)
LEMMA FrontGrows ==
    ASSUME NEW u \in Seq(Values), NEW n \in Nat, NEW k \in Nat, n + k <= Len(u)
    PROVE  SubSeq(u, 1, n) \o SubSeq(u, n + 1, n + k) = SubSeq(u, 1, n + k)
<1>1. Len(u) \in Nat
  BY LenProperties
<1>2. 1 \in 1..Len(u) + 1 /\ n \in 1 - 1..Len(u) /\ n + k \in n..Len(u)
  BY <1>1
<1>. QED  BY <1>2, ConcatAdjacentSubSeq

(* Nothing moved is nothing received. *)
LEMMA NothingReceived ==
    ASSUME NEW u, NEW n, n = 0
    PROVE  SubSeq(u, 1, n) \o <<>> = <<>>
<1>1. SubSeq(u, 1, n) = <<>>
  BY SubSeqEmpty
<1>2. <<>> \in Seq(Values) /\ <<>> \o <<>> = <<>>
  BY EmptySeq, ConcatEmptySeq
<1>. QED  BY <1>1, <1>2

-----------------------------------------------------------------------------
(* The mapping. *)

(* A step that moves no byte and ends or begins no call is a stutter.      *)
LEMMA StoreStutters ==
    ASSUME UNCHANGED <<storage, req, result>>,
           \A p \in Procs : fpc'[p] = "idle" <=> fpc[p] = "idle",
           \A p \in Procs : Moved(p)' = Moved(p),
           \A p \in Readers : Got(p)' = Got(p)
    PROVE  UNCHANGED Store!storeVars
<1>1. [p \in Procs |-> fpc[p] # "idle"]' = [p \in Procs |-> fpc[p] # "idle"]
  OBVIOUS
<1>2. [p \in Procs |-> Moved(p)]' = [p \in Procs |-> Moved(p)]
  OBVIOUS
<1>3. [p \in Readers |-> Got(p)]' = [p \in Readers |-> Got(p)]
  OBVIOUS
<1>. QED  BY <1>1, <1>2, <1>3 DEF Store!storeVars, Moved, Got

(* After probe the store is blank and nobody is in a call. *)
LEMMA StoreInit == FlashInit => Store!Init
<1> SUFFICES ASSUME FlashInit PROVE Store!Init
  OBVIOUS
<1> USE DEF FlashInit, DeviceInit
<1>1. \A p \in Procs : CopiedOfChunk(p) = 0
  BY DEF CopiedOfChunk
<1>2. ASSUME NEW p \in Readers
      PROVE  Got(p) = <<>>
  <2>1. p \in Procs /\ fpc[p] = "idle" /\ pos[p] = 0
    BY DEF Procs
  <2>2. GotOfChunk(p) = <<>>
    BY <1>1, <2>1 DEF GotOfChunk
  <2>. QED  BY <2>1, <2>2, NothingReceived DEF Got
<1>3. [p \in Procs |-> Moved(p)] = [p \in Procs |-> 0]
  BY <1>1 DEF Moved
<1>4. [p \in Readers |-> Got(p)] = [p \in Readers |-> <<>>]
  BY <1>2
<1>5. [p \in Procs |-> fpc[p] # "idle"] = [p \in Procs |-> FALSE]
  OBVIOUS
<1>. QED  BY <1>3, <1>4, <1>5 DEF Store!Init, Moved, Got

(* The numbers of a call in progress, and of its chunk. *)
LEMMA CallNumbers ==
    ASSUME CompletionInv, NEW p \in Procs
    PROVE  /\ req[p].addr \in Nat /\ req[p].count \in Nat /\ pos[p] \in Nat
           /\ Chunk(p).addr = req[p].addr + pos[p]
           /\ DiskSize \in Nat \ {0} /\ WinSize \in Nat \ {0}
           /\ pos[p] <= req[p].count
           /\ InChunk(p) => /\ Chunk(p).size \in 1..WinSize
                            /\ pos[p] + Chunk(p).size <= req[p].count
<1>1. pos[p] <= req[p].count /\ (InChunk(p) => pos[p] < req[p].count)
  BY DEF CompletionInv, FlashInv, CallsOK, CallOK, InChunk
<1>2. InChunk(p) => Chunk(p).size \in 1..WinSize /\ pos[p] + Chunk(p).size <= req[p].count
  BY <1>1, ChunkFitsWindow
<1>. QED
  BY <1>1, <1>2, RequestTypes, DeviceAssumption
     DEF CompletionInv, FlashInv, DriverTypeOK, Chunk

(* What the mapping of a process depends on. *)
LEMMA MovedFrame ==
    ASSUME NEW q \in Procs, NEW d, d = Side(q),
           fpc'[q] = fpc[q], req'[q] = req[q], pos'[q] = pos[q], userbuf'[q] = userbuf[q],
           ctrl'[d] = ctrl[d], epc'[d] = epc[d], copied'[d] = copied[d],
           q \in Readers => rd_data' = rd_data
    PROVE  Moved(q)' = Moved(q) /\ (q \in Readers => Got(q)' = Got(q))
<1>1. Chunk(q)' = Chunk(q)
  BY DEF Chunk, Left
<1>2. CopiedOfChunk(q)' = CopiedOfChunk(q)
  BY <1>1 DEF CopiedOfChunk, Side, Valid
<1>. QED  BY <1>2 DEF Moved, Got, GotOfChunk

-----------------------------------------------------------------------------
(* Steps of the device. *)

(* A process in a chunk whose command the engine has taken has the bytes   *)
(* the engine has copied, all of them once the engine polls again.         *)
LEMMA EngineMovesNothing ==
    ASSUME PatientHosts, CompletionInv, NEW e \in Threads, EngineStep(e), ~CopyByte(e),
           UNCHANGED <<procVars, done, irqVars>>, NEW p \in Procs, Side(p) = e
    PROVE  CopiedOfChunk(p)' = CopiedOfChunk(p)
<1> USE DEF Goto
<1>a. /\ SideInv(e) /\ ServedAsAsked(p)
      /\ ctrl \in [Threads -> BOOLEAN] /\ epc \in [Threads -> EnginePCs]
      /\ copied \in [Threads -> 0..WinSize] /\ e' = e /\ Side(p)' = e
  BY DEF CompletionInv, FlashInv, DeviceInv, DeviceTypeOK, ServiceInv, Side
<1>b. /\ UNCHANGED <<fpc, req, pos>>
      /\ Chunk(p)' = Chunk(p) /\ (Valid(Chunk(p))' <=> Valid(Chunk(p)))
  BY DEF procVars, Chunk, Left, Valid
<1> SUFFICES ASSUME fpc[p] \in {"wait", "copy", "check"}, Valid(Chunk(p))
             PROVE  CopiedOfChunk(p)' = CopiedOfChunk(p)
  BY <1>b DEF CopiedOfChunk
<1>c. CopiedOfChunk(p) = IF ctrl[e] \/ epc[e] = "accept" THEN 0
                         ELSE IF epc[e] = "poll" THEN Chunk(p).size ELSE copied[e]
  BY DEF CopiedOfChunk
<1>d. CopiedOfChunk(p)' = IF ctrl'[e] \/ epc'[e] = "accept" THEN 0
                          ELSE IF epc'[e] = "poll" THEN Chunk(p).size ELSE copied'[e]
  BY <1>a, <1>b DEF CopiedOfChunk
<1>1. CASE SeeStart(e)
  BY <1>1, <1>a, <1>c, <1>d DEF SeeStart, csrVars
<1>2. CASE UnsetStart(e)
  <2>1. epc[e] = "accept" /\ epc'[e] = "unset_comp" /\ copied'[e] = 0
    BY <1>2, <1>a DEF UnsetStart, SideInv, EngineOrder
  <2>. QED  BY <1>2, <1>a, <1>c, <1>d, <2>1 DEF UnsetStart
<1>3. CASE SendInterrupt(e)
  <2>1. epc[e] = "send" /\ epc'[e] = "poll" /\ ctrl' = ctrl
    BY <1>3, <1>a DEF SendInterrupt, csrVars
  <2>2. ~ctrl[e] => copied[e] = Chunk(p).size
    BY <1>a, <2>1 DEF ServedAsAsked, Issued
  <2>. QED  BY <1>a, <1>c, <1>d, <2>1, <2>2
<1>4. ASSUME UNCHANGED <<ctrl, copied>>,
             \/ epc' = epc
             \/ epc[e] \notin {"poll", "accept"} /\ epc'[e] \notin {"poll", "accept"}
      PROVE  CopiedOfChunk(p)' = CopiedOfChunk(p)
  BY <1>4, <1>c, <1>d
<1>5. CASE UnsetComp(e) \/ UnsetAddrError(e) \/ UnsetSizeError(e) \/ SetAddrError(e) \/ SetComp(e)
  <2>1. ASSUME NEW d, NEW here, LoadStatus(e, d, here)
        PROVE  CopiedOfChunk(p)' = CopiedOfChunk(p)
    BY <2>1, <1>4 DEF LoadStatus, csrVars
  <2>2. ASSUME NEW d, NEW unset, NEW set, NEW here, NEW next,
               here \notin {"poll", "accept"}, next \notin {"poll", "accept"},
               StoreStatus(e, d, unset, set, here, next)
        PROVE  CopiedOfChunk(p)' = CopiedOfChunk(p)
    BY <2>2, <1>a, <1>4 DEF StoreStatus
  <2>3. CASE UnsetComp(e) \/ UnsetAddrError(e) \/ UnsetSizeError(e)
    BY <2>1, <2>2, <2>3 DEF UnsetComp, UnsetAddrError, UnsetSizeError, UnsetFlag
  <2>4. CASE SetAddrError(e)
    BY <2>1, <2>2, <2>4 DEF SetAddrError
  <2>5. CASE SetComp(e)
    BY <2>1, <2>2, <2>5 DEF SetComp
  <2>. QED  BY <1>5, <2>3, <2>4, <2>5
<1>6. CASE FetchAddr(e) \/ FetchSize(e) \/ LockStorage(e) \/ CopyDone(e) \/ UnlockStorage(e)
  BY <1>6, <1>a, <1>4 DEF FetchAddr, FetchSize, LockStorage, CopyDone, UnlockStorage, csrVars
<1>7. CASE AwaitLock(e)
  BY <1>7, <1>4 DEF AwaitLock, csrVars, engineVars
<1>. QED  BY <1>1, <1>2, <1>3, <1>5, <1>6, <1>7 DEF EngineStep

(* Only the copying of a byte touches the storage or the read window. *)
LEMMA OnlyCopyTouches ==
    ASSUME NEW e \in Threads, EngineStep(e), ~CopyByte(e)
    PROVE  UNCHANGED <<storage, rd_data>>
  BY DEF EngineStep, SeeStart, UnsetStart, UnsetComp, UnsetAddrError, UnsetSizeError,
         UnsetFlag, SetAddrError, SetComp, LoadStatus, StoreStatus, FetchAddr, FetchSize,
         LockStorage, AwaitLock, CopyDone, UnlockStorage, SendInterrupt, dataVars

(* A step of an engine moves nothing for the processes of the other side.  *)
LEMMA OtherSideKeeps ==
    ASSUME PatientHosts, CompletionInv, NEW e \in Threads, EngineStep(e),
           UNCHANGED <<procVars, done, irqVars>>, NEW q \in Procs, Side(q) # e
    PROVE  Moved(q)' = Moved(q) /\ (q \in Readers => Got(q)' = Got(q))
<1>1. Side(q) \in Threads
  BY DEF Side, Threads
<1>2. q \in Readers => rd_data' = rd_data
  <2>1. q \in Readers => e = "wr"
    BY DEF Side, Threads
  <2>2. CopyByte(e) /\ e = "wr" => rd_data' = rd_data
    BY DEF CopyByte
  <2>. QED  BY <2>1, <2>2, OnlyCopyTouches
<1>. QED  BY <1>1, <1>2, EngineFrame, MovedFrame DEF procVars

(* What is known when engine e copies a byte: the process that waits for   *)
(* it, and which byte of the call it is.                                   *)
LEMMA CopyingFor ==
    ASSUME CompletionInv, NEW e \in Threads, epc[e] = "copy"
    PROVE  \E p \in Procs :
             /\ Side(p) = e /\ fpc[p] = "wait" /\ ~ctrl[e]
             /\ cmd[e] = Chunk(p) /\ Valid(Chunk(p))
             /\ \A q \in Procs : InChunk(q) /\ Side(q) = e => q = p
<1>1. ~Reported(e) /\ ~ctrl[e]
  BY DEF CompletionInv, SideInv, EngineOrder, Reported
<1>2. PICK p \in Procs : /\ Side(p) = e /\ fpc[p] = "wait"
                         /\ \A q \in Procs : InChunk(q) /\ Side(q) = e => q = p
  BY <1>1, ServedProcess
<1>. QED  BY <1>1, <1>2 DEF CompletionInv, ServiceInv, ServedAsAsked, Issued

(* The copying of a byte is the move of that byte, and of no other. *)
LEMMA CopyIsMove ==
    ASSUME CompletionInv, NEW e \in Threads, CopyByte(e),
           UNCHANGED <<procVars, done, irqVars>>,
           \A q \in Procs : Side(q) # e =>
             Moved(q)' = Moved(q) /\ (q \in Readers => Got(q)' = Got(q))
    PROVE  \E p \in Procs : Store!Move(p)
<1>1. PICK p \in Procs :
             /\ Side(p) = e /\ fpc[p] = "wait" /\ ~ctrl[e]
             /\ cmd[e] = Chunk(p) /\ Valid(Chunk(p))
             /\ \A q \in Procs : InChunk(q) /\ Side(q) = e => q = p
  BY CopyingFor DEF CopyByte
<1> DEFINE k == copied[e]
           a == cmd[e].addr + k
<1>2. /\ epc[e] = "copy" /\ k < Chunk(p).size /\ copied'[e] = k + 1 /\ k \in 0..WinSize
      /\ epc' = epc /\ ctrl' = ctrl
      /\ UNCHANGED <<fpc, req, pos, userbuf, result>>
  BY <1>1 DEF CopyByte, csrVars, procVars, CompletionInv, FlashInv, DeviceInv, DeviceTypeOK
<1>3. /\ req[p].addr \in Nat /\ req[p].count \in Nat /\ pos[p] \in Nat
      /\ Chunk(p).addr = req[p].addr + pos[p]
      /\ DiskSize \in Nat \ {0} /\ WinSize \in Nat \ {0}
      /\ Chunk(p).size \in 1..WinSize /\ pos[p] + Chunk(p).size <= req[p].count
  BY <1>1, CallNumbers DEF InChunk
<1>4. /\ Chunk(p)' = Chunk(p) /\ Side(p)' = e
      /\ \A q \in Procs : Chunk(q)' = Chunk(q) /\ Side(q)' = Side(q)
  BY <1>1, <1>2 DEF Chunk, Left, Side
<1>5. CopiedOfChunk(p) = k /\ CopiedOfChunk(p)' = k + 1
  <2>1. Valid(Chunk(p))'
    BY <1>1, <1>4 DEF Valid
  <2>. QED  BY <1>1, <1>2, <1>4, <2>1 DEF CopiedOfChunk
<1>6. Moved(p) = pos[p] + k /\ Moved(p)' = pos[p] + k + 1
  BY <1>2, <1>3, <1>5 DEF Moved
<1>7. /\ a = req[p].addr + Moved(p) /\ a \in 0..DiskSize - 1 /\ a < DiskSize
      /\ Moved(p) < req[p].count
  BY <1>1, <1>2, <1>3, <1>6 DEF Valid
<1>8. ASSUME NEW q \in Procs, q # p, Side(q) = e
      PROVE  Moved(q)' = Moved(q) /\ (q \in Readers => Got(q)' = Got(q))
  <2>1. fpc[q] \notin {"wait", "copy", "check"}
    BY <1>1, <1>8 DEF InChunk
  <2>2. CopiedOfChunk(q) = 0 /\ CopiedOfChunk(q)' = 0
    BY <1>2, <2>1 DEF CopiedOfChunk
  <2>3. GotOfChunk(q) = <<>> /\ GotOfChunk(q)' = <<>>
    BY <1>2, <2>1, <2>2 DEF GotOfChunk
  <2>. QED  BY <1>2, <2>2, <2>3 DEF Moved, Got
<1>9. \A q \in Procs : Moved(q)' = IF q = p THEN Moved(p) + 1 ELSE Moved(q)
  <2>1. Moved(p)' = Moved(p) + 1
    BY <1>2, <1>3, <1>6
  <2>. QED  BY <1>8, <2>1
<1>10. [q \in Procs |-> Moved(q)]' = [[q \in Procs |-> Moved(q)] EXCEPT ![p] = @ + 1]
  BY <1>9
<1>11. [q \in Procs |-> fpc[q] # "idle"]' = [q \in Procs |-> fpc[q] # "idle"]
  BY <1>2
<1>12. IF p \in Readers
         THEN /\ [q \in Readers |-> Got(q)]' =
                   [[q \in Readers |-> Got(q)] EXCEPT ![p] = Append(@, storage[a])]
              /\ storage' = storage
         ELSE /\ storage' = [storage EXCEPT ![a] = req[p].data[Moved(p) + 1]]
              /\ [q \in Readers |-> Got(q)]' = [q \in Readers |-> Got(q)]
  <2>1. CASE p \in Readers
    <3>1. e = "rd" /\ storage' = storage /\ rd_data' = [rd_data EXCEPT ![k] = storage[a]]
      BY <1>1, <2>1 DEF Side, CopyByte
    <3>2. Got(p)' = Append(Got(p), storage[a])
      <4>1. /\ userbuf[p] \in Seq(Values) /\ pos[p] <= Len(userbuf[p])
            /\ rd_data \in [0..WinSize - 1 -> Values] /\ storage[a] \in Values
        BY <1>7, <2>1 DEF CompletionInv, FlashInv, DriverTypeOK, DeviceInv, DeviceTypeOK,
                          CallsOK, CallOK
      <4>2. SubSeq(userbuf[p], 1, pos[p]) \in Seq(Values)
        <5>1. Len(userbuf[p]) \in Nat
          BY <4>1, LenProperties
        <5>2. \A i \in 1..pos[p] : userbuf[p][i] \in Values
          BY <1>3, <4>1, <5>1, ElementOfSeq
        <5>. QED  BY <1>3, <5>2, SubSeqProperties
      <4>3. /\ k \in Nat /\ rd_data'[k] = storage[a]
            /\ \A i \in 1..k : rd_data[i - 1] \in Values /\ rd_data'[i - 1] = rd_data[i - 1]
        BY <1>2, <1>3, <3>1, <4>1
      <4>4. GotOfChunk(p) = [i \in 1..k |-> rd_data[i - 1]]
        BY <1>1, <1>5 DEF GotOfChunk
      <4>5. GotOfChunk(p)' = [i \in 1..k + 1 |-> rd_data'[i - 1]]
        BY <1>1, <1>2, <1>5 DEF GotOfChunk
      <4> DEFINE front == SubSeq(userbuf[p], 1, pos[p])
                 later == rd_data'
                 v == storage[a]
      <4>6. front \in Seq(Values) /\ v \in Values /\ k \in Nat /\ later[k] = v
        BY <4>1, <4>2, <4>3
      <4>7. \A i \in 1..k : rd_data[i - 1] \in Values /\ later[i - 1] = rd_data[i - 1]
        BY <4>3
      <4> HIDE DEF k, front, later, v
      <4>8. front \o [i \in 1..k + 1 |-> later[i - 1]]
              = Append(front \o [i \in 1..k |-> rd_data[i - 1]], v)
        BY <4>6, <4>7, OneMoreByte
      <4>. QED  BY <1>2, <4>4, <4>5, <4>8 DEF Got, front, later, v
    <3>3. \A q \in Readers : Got(q)' = IF q = p THEN Append(Got(p), storage[a]) ELSE Got(q)
      BY <1>8, <3>2 DEF Procs
    <3>. QED  BY <2>1, <3>1, <3>3
  <2>2. CASE p \notin Readers
    <3>1. e = "wr" /\ p \in Writers
      BY <1>1, <2>2 DEF Side, Procs
    <3>2. storage' = [storage EXCEPT ![a] = wr_data[k]] /\ rd_data' = rd_data
      BY <3>1 DEF CopyByte
    <3>3. wr_data[k] = req[p].data[pos[p] + k + 1]
      BY <1>1, <1>2, <1>3, <3>1 DEF CompletionInv, ServiceInv, WindowOf
    <3>4. \A q \in Readers : Got(q)' = Got(q)
      BY <1>8, <2>2 DEF Procs
    <3>. QED  BY <1>6, <2>2, <3>2, <3>3, <3>4
  <2>. QED  BY <2>1, <2>2
<1> HIDE DEF k, a
<1>13. [q \in Procs |-> Moved(q)][p] = Moved(p) /\ [q \in Procs |-> fpc[q] # "idle"][p]
  BY <1>1
<1>14. UNCHANGED <<req, result>>
  BY DEF procVars
<1>15. Store!Move(p)
  BY <1>7, <1>10, <1>11, <1>12, <1>13, <1>14 DEF Store!Move, Moved, Got
<1>. QED  BY <1>15

(* A step of the device moves a byte or stutters. *)
LEMMA DeviceStores ==
    ASSUME PatientHosts, CompletionInv, DeviceStep
    PROVE  [Store!Next]_(Store!storeVars)
<1>1. UNCHANGED <<procVars, done, irqVars>>
  BY DEF DeviceStep
<1>2. UNCHANGED <<fpc, req, pos, userbuf, result>>
  BY <1>1 DEF procVars
<1>3. CASE chr_read
  <2>1. UNCHANGED <<storage, rd_data, ctrl, epc, copied>>
    BY <1>3 DEF chr_read, csrVars, engineVars, dataVars
  <2>2. \A p \in Procs : Moved(p)' = Moved(p) /\ (p \in Readers => Got(p)' = Got(p))
    BY <1>2, <2>1, MovedFrame
  <2>. QED  BY <1>2, <2>1, <2>2, StoreStutters DEF Procs
<1>4. ASSUME NEW e \in Threads, EngineStep(e), CopyByte(e)
      PROVE  Store!Next
  BY <1>1, <1>4, OtherSideKeeps, CopyIsMove DEF Store!Next
<1>5. ASSUME NEW e \in Threads, EngineStep(e), ~CopyByte(e)
      PROVE  UNCHANGED Store!storeVars
  <2>1. UNCHANGED <<storage, rd_data>>
    BY <1>5, OnlyCopyTouches
  <2>2. ASSUME NEW p \in Procs
        PROVE  Moved(p)' = Moved(p) /\ (p \in Readers => Got(p)' = Got(p))
    <3>1. CASE Side(p) # e
      BY <1>1, <1>5, <3>1, OtherSideKeeps
    <3>2. CASE Side(p) = e
      <4>1. CopiedOfChunk(p)' = CopiedOfChunk(p)
        BY <1>1, <1>5, <3>2, EngineMovesNothing
      <4>. QED  BY <1>2, <2>1, <4>1 DEF Moved, Got, GotOfChunk
    <3>. QED  BY <3>1, <3>2
  <2>. QED  BY <1>2, <2>1, <2>2, StoreStutters DEF Procs
<1>. QED  BY <1>3, <1>4, <1>5 DEF DeviceStep, DeviceNext

(* The handler moves nothing. *)
LEMMA HandlerStores ==
    ASSUME r04flash_irq
    PROVE  UNCHANGED Store!storeVars
<1>1. /\ UNCHANGED <<fpc, req, pos, userbuf, result>>
      /\ UNCHANGED <<storage, rd_data, ctrl, epc, copied>>
  BY DEF r04flash_irq, HandlerEnter, HandlerTest, HandlerLoad, HandlerStore, HandlerComplete,
         procVars, deviceVars, csrVars, engineVars, dataVars
<1>2. \A p \in Procs : Moved(p)' = Moved(p) /\ (p \in Readers => Got(p)' = Got(p))
  BY <1>1, MovedFrame
<1>. QED  BY <1>1, <1>2, StoreStutters DEF Procs

-----------------------------------------------------------------------------
(* Steps of a call. *)

(* They leave alone what the other processes have moved and received. *)
LEMMA OthersKeep ==
    ASSUME CompletionInv, NEW p \in Procs, PatientStep(p), NEW q \in Procs, q # p
    PROVE  /\ Moved(q)' = Moved(q) /\ (q \in Readers => Got(q)' = Got(q))
           /\ fpc'[q] = fpc[q] /\ req'[q] = req[q] /\ result'[q] = result[q]
<1>1. /\ UNCHANGED <<epc, copied, rd_data>> /\ Side(q) \in Threads
      /\ fpc'[q] = fpc[q] /\ req'[q] = req[q] /\ pos'[q] = pos[q]
  BY CallFrame DEF Side, Threads
<1>2. userbuf'[q] = userbuf[q] /\ result'[q] = result[q]
  BY DEF PatientStep, Call, ReturnAll, LockChunk, SetSize, SetAddr, Fill, Start, Completed,
         CopyOut, CheckError, NextChunk, Return, ReturnError,
         CompletionInv, FlashInv, DriverTypeOK
<1>3. CASE ctrl'[Side(q)] = ctrl[Side(q)]
  BY <1>1, <1>2, <1>3, MovedFrame
<1>4. CASE ctrl'[Side(q)] # ctrl[Side(q)]
  <2>1. Side(q) = Side(p)
    BY <1>1, <1>4, CallFrame
  <2>2. InChunk(p)
    BY <1>4 DEF PatientStep, InChunk, Call, ReturnAll, LockChunk, SetSize, SetAddr, Fill,
                Start, Completed, CopyOut, CheckError, NextChunk, At, deviceVars, csrVars
  <2>3. fpc[q] \notin {"wait", "copy", "check"}
    BY <2>1, <2>2 DEF CompletionInv, OneHolder, InChunk
  <2>4. CopiedOfChunk(q) = 0 /\ CopiedOfChunk(q)' = 0
    BY <1>1, <2>3 DEF CopiedOfChunk
  <2>5. GotOfChunk(q) = <<>> /\ GotOfChunk(q)' = <<>>
    BY <1>1, <2>3, <2>4 DEF GotOfChunk
  <2>. QED  BY <1>1, <1>2, <2>4, <2>5 DEF Moved, Got
<1>. QED  BY <1>1, <1>2, <1>3, <1>4

(* A step that keeps the call, its bytes moved and its bytes received is a *)
(* stutter.                                                                *)
LEMMA CallStutters ==
    ASSUME CompletionInv, NEW p \in Procs, PatientStep(p), UNCHANGED <<req, result>>,
           fpc[p] # "idle", fpc'[p] # "idle", Moved(p)' = Moved(p),
           p \in Readers => Got(p)' = Got(p)
    PROVE  UNCHANGED Store!storeVars
<1>1. storage' = storage
  BY CallFrame
<1>2. \A q \in Procs : /\ Moved(q)' = Moved(q) /\ (q \in Readers => Got(q)' = Got(q))
                       /\ fpc'[q] = "idle" <=> fpc[q] = "idle"
  BY OthersKeep
<1>. QED  BY <1>1, <1>2, StoreStutters DEF Procs

(* A call that begins. *)
LEMMA CallBegins ==
    ASSUME CompletionInv, NEW p \in Procs, Call(p)
    PROVE  \E c \in ReadCalls \cup WriteCalls : Store!Begin(p, c)
<1>1. PICK c \in Calls(p) : req' = [req EXCEPT ![p] = c]
  BY DEF Call
<1>2. c \in ReadCalls \cup WriteCalls
  BY DEF Calls
<1>3. /\ fpc[p] = "idle" /\ fpc' = [fpc EXCEPT ![p] = "loop"]
      /\ result' = [result EXCEPT ![p] = 0] /\ UNCHANGED <<storage, pos, userbuf>>
  BY DEF Call, At, deviceVars, dataVars
<1>4. PatientStep(p) /\ fpc \in [Procs -> {"idle", "loop", "set_size", "set_addr", "fill", "start",
                       "wait", "copy", "check"}]
  BY DEF PatientStep, CompletionInv, FlashInv, DriverTypeOK
<1>5. [q \in Procs |-> fpc[q] # "idle"]' = [[q \in Procs |-> fpc[q] # "idle"] EXCEPT ![p] = TRUE]
  BY <1>3, <1>4
<1>6. Moved(p)' = Moved(p) /\ (p \in Readers => Got(p)' = Got(p))
  <2>1. CopiedOfChunk(p) = 0 /\ CopiedOfChunk(p)' = 0
    BY <1>3, <1>4 DEF CopiedOfChunk
  <2>2. GotOfChunk(p) = <<>> /\ GotOfChunk(p)' = <<>>
    BY <1>3, <1>4, <2>1 DEF GotOfChunk
  <2>. QED  BY <1>3, <2>1, <2>2 DEF Moved, Got
<1>7. \A q \in Procs : Moved(q)' = Moved(q) /\ (q \in Readers => Got(q)' = Got(q))
  BY <1>4, <1>6, OthersKeep
<1>8. [q \in Procs |-> Moved(q)]' = [q \in Procs |-> Moved(q)]
  BY <1>7
<1>9. [q \in Readers |-> Got(q)]' = [q \in Readers |-> Got(q)]
  BY <1>7 DEF Procs
<1>10. ~[q \in Procs |-> fpc[q] # "idle"][p]
  BY <1>3
<1>11. Store!Begin(p, c)
  BY <1>1, <1>3, <1>5, <1>8, <1>9, <1>10 DEF Store!Begin, Moved, Got
<1>. QED  BY <1>2, <1>11

(* A call that ends as a call of the store may end. *)
LEMMA CallEnds ==
    ASSUME CompletionInv, NEW p \in Procs, PatientStep(p), NEW here, here # "idle", NEW n,
           Return(p, here, n),
           \/ Moved(p) = req[p].count /\ n = req[p].count
           \/ req[p].addr + req[p].count > DiskSize /\ n \in {0, ADDRINVAL}
    PROVE  Store!Finish(p)
<1>1. /\ fpc[p] # "idle" /\ fpc' = [fpc EXCEPT ![p] = "idle"]
      /\ req' = [req EXCEPT ![p] = NoCall] /\ pos'[p] = 0 /\ userbuf'[p] = <<>>
      /\ result' = [result EXCEPT ![p] = n] /\ fpc'[p] = "idle"
  BY DEF Return, At, CompletionInv, FlashInv, DriverTypeOK
<1>2. storage' = storage
  BY CallFrame
<1>3. [q \in Procs |-> fpc[q] # "idle"]' = [[q \in Procs |-> fpc[q] # "idle"] EXCEPT ![p] = FALSE]
  <2>1. \A q \in Procs : (fpc[q] # "idle")' = IF q = p THEN FALSE ELSE fpc[q] # "idle"
    BY <1>1, OthersKeep
  <2>. QED  BY <2>1
<1>4. CopiedOfChunk(p)' = 0 /\ GotOfChunk(p)' = <<>>
  <2>1. CopiedOfChunk(p)' = 0
    BY <1>1 DEF CopiedOfChunk
  <2>. QED  BY <1>1, <2>1 DEF GotOfChunk
<1>5. Moved(p)' = 0
  BY <1>1, <1>4 DEF Moved
<1>6. Got(p)' = <<>>
  <2>1. Got(p)' = SubSeq(userbuf'[p], 1, pos'[p]) \o <<>>
    BY <1>4 DEF Got
  <2>. QED  BY <1>1, <2>1, NothingReceived
<1>7. [q \in Procs |-> Moved(q)]' = [[q \in Procs |-> Moved(q)] EXCEPT ![p] = 0]
  <2>1. \A q \in Procs : Moved(q)' = IF q = p THEN 0 ELSE Moved(q)
    BY <1>5, OthersKeep
  <2>. QED  BY <2>1
<1>8. [q \in Readers |-> Got(q)]' =
        [r \in Readers |-> IF r = p THEN <<>> ELSE [q \in Readers |-> Got(q)][r]]
  <2>1. \A r \in Readers : Got(r)' = IF r = p THEN <<>> ELSE Got(r)
    BY <1>6, OthersKeep DEF Procs
  <2>. QED  BY <2>1
<1>9. [q \in Procs |-> fpc[q] # "idle"][p] /\ [q \in Procs |-> Moved(q)][p] = Moved(p)
  BY <1>1
<1>10. \/ /\ [q \in Procs |-> Moved(q)][p] = req[p].count
          /\ result' = [result EXCEPT ![p] = req[p].count]
       \/ /\ req[p].addr + req[p].count > DiskSize
          /\ \E m \in {0, ADDRINVAL} : result' = [result EXCEPT ![p] = m]
  BY <1>1, <1>9
<1>. QED  BY <1>1, <1>2, <1>3, <1>7, <1>8, <1>9, <1>10 DEF Store!Finish, Moved, Got

(* A call that has moved all its bytes returns their number. *)
LEMMA ReturnAllStores ==
    ASSUME CompletionInv, NEW p \in Procs, ReturnAll(p)
    PROVE  Store!Finish(p)
<1>1. fpc[p] = "loop" /\ Return(p, "loop", pos[p]) /\ PatientStep(p)
  BY DEF ReturnAll, Return, At, PatientStep
<1>2. pos[p] = req[p].count
  BY CallNumbers DEF ReturnAll, Left
<1>3. Moved(p) = pos[p]
  BY <1>1, CallNumbers DEF Moved, CopiedOfChunk
<1>. QED  BY <1>1, <1>2, <1>3, CallEnds

(* A call ends with an error only when it asks for bytes outside. *)
LEMMA CheckErrorStores ==
    ASSUME CompletionInv, NEW p \in Procs, CheckError(p)
    PROVE  Store!Finish(p)
<1>1. fpc[p] = "check" /\ PatientStep(p)
  BY DEF CheckError, ReturnError, Return, At, PatientStep
<1>2. "addr_error" \in status[Side(p)] /\ ~Valid(Chunk(p))
  BY <1>1, ServedChunk DEF CheckError
<1>3. Return(p, "check", IF p \in Readers THEN 0 ELSE ADDRINVAL)
  BY <1>2 DEF CheckError, ReturnError
<1>4. req[p].addr + req[p].count > DiskSize
  <2>1. InChunk(p)
    BY <1>1 DEF InChunk
  <2>. QED  BY <1>2, <2>1, CallNumbers DEF Valid
<1>. QED  BY <1>1, <1>3, <1>4, CallEnds

(* The steps before the command is started, and the end of the wait. *)
LEMMA QuietSteps ==
    ASSUME CompletionInv, NEW p \in Procs,
           \/ LockChunk(p) \/ SetSize(p) \/ SetAddr(p) \/ Fill(p)
           \/ Start(p) \/ Completed(p)
    PROVE  UNCHANGED Store!storeVars
<1> USE DEF At
<1>1. /\ PatientStep(p) /\ Side(p) \in Threads
      /\ fpc \in [Procs -> {"idle", "loop", "set_size", "set_addr", "fill", "start",
                       "wait", "copy", "check"}]
      /\ ctrl \in [Threads -> BOOLEAN]
  BY DEF PatientStep, CompletionInv, FlashInv, DriverTypeOK, DeviceInv, DeviceTypeOK, Side, Threads
<1>2. UNCHANGED <<req, pos, userbuf, result>> /\ fpc[p] # "idle" /\ fpc'[p] # "idle"
  BY <1>1 DEF LockChunk, SetSize, SetAddr, Fill, Start, Completed
<1>3. Chunk(p)' = Chunk(p)
  BY <1>2 DEF Chunk, Left
<1>4. CopiedOfChunk(p)' = CopiedOfChunk(p) /\ (p \in Readers => GotOfChunk(p)' = GotOfChunk(p))
  <2>1. CASE LockChunk(p) \/ SetSize(p) \/ SetAddr(p) \/ Fill(p) \/ Start(p)
    <3>1. fpc[p] \notin {"wait", "copy", "check"}
      BY <2>1 DEF LockChunk, SetSize, SetAddr, Fill, Start
    <3>2. fpc'[p] \notin {"wait", "copy", "check"} \/ ctrl'[Side(p)]
      BY <1>1, <2>1 DEF LockChunk, SetSize, SetAddr, Fill, Start
    <3>3. CopiedOfChunk(p) = 0 /\ CopiedOfChunk(p)' = 0
      BY <3>1, <3>2 DEF CopiedOfChunk, Side
    <3>4. fpc'[p] # "check"
      BY <1>1, <2>1 DEF LockChunk, SetSize, SetAddr, Fill, Start
    <3>. QED  BY <3>1, <3>3, <3>4 DEF GotOfChunk
  <2>2. CASE Completed(p)
    <3>1. /\ UNCHANGED <<ctrl, epc, copied, rd_data>> /\ fpc[p] = "wait"
          /\ fpc'[p] = IF p \in Readers THEN "copy" ELSE "check"
      BY <1>1, <2>2 DEF Completed, deviceVars, csrVars, engineVars, dataVars
    <3>2. CopiedOfChunk(p)' = CopiedOfChunk(p)
      BY <1>3, <3>1 DEF CopiedOfChunk, Side, Valid
    <3>. QED  BY <3>1, <3>2 DEF GotOfChunk
  <2>. QED  BY <2>1, <2>2
<1>5. Moved(p)' = Moved(p) /\ (p \in Readers => Got(p)' = Got(p))
  BY <1>2, <1>4 DEF Moved, Got
<1>. QED  BY <1>1, <1>2, <1>5, CallStutters

(* When the process is past its wait the engine has moved the whole chunk, *)
(* or nothing.                                                             *)
LEMMA CopiedAll ==
    ASSUME CompletionInv, NEW p \in Procs, fpc[p] \in {"copy", "check"}
    PROVE  CopiedOfChunk(p) = IF Valid(Chunk(p)) THEN Chunk(p).size ELSE 0
<1>1. Issued(p) /\ epc[Side(p)] \in {"poll", "send", "unlock"}
  BY ServedChunk
<1>. QED
  BY <1>1 DEF CompletionInv, ServiceInv, ServedAsAsked, Issued, CopiedOfChunk

(* copy_to_user gives the caller what the device has moved. *)
LEMMA CopyOutStores ==
    ASSUME CompletionInv, NEW p \in Procs, CopyOut(p)
    PROVE  UNCHANGED Store!storeVars
<1> DEFINE size == Chunk(p).size
           chunk == [i \in 1..size |-> rd_data[i - 1]]
           k == CopiedOfChunk(p)
<1>1. /\ fpc[p] = "copy" /\ fpc'[p] = "check" /\ PatientStep(p)
      /\ UNCHANGED <<req, pos, result, ctrl, epc, copied, rd_data>>
  BY DEF CopyOut, At, PatientStep, deviceVars, csrVars, engineVars, dataVars, CompletionInv,
         FlashInv, DriverTypeOK
<1>a. userbuf'[p] = SubSeq(userbuf[p], 1, pos[p]) \o chunk
  <2>1. PICK beyond : userbuf' = [userbuf EXCEPT ![p] =
            SubSeq(@, 1, pos[p]) \o [i \in 1..size |-> WindowByte(i - 1, beyond)]]
    BY DEF CopyOut
  <2>2. size \in 1..WinSize /\ WinSize \in Nat
    BY <1>1, CallNumbers DEF InChunk
  <2> HIDE DEF size
  <2>3. [i \in 1..size |-> WindowByte(i - 1, beyond)] = chunk
    BY <2>2 DEF WindowByte
  <2>. QED  BY <2>1, <2>3 DEF CompletionInv, FlashInv, DriverTypeOK
<1>2. Chunk(p)' = Chunk(p)
  BY <1>1 DEF Chunk, Left
<1>3. CopiedOfChunk(p)' = k
  BY <1>1, <1>2 DEF CopiedOfChunk, Side, Valid
<1>4. p \in Readers
  BY <1>1 DEF CompletionInv, FlashInv, CallsOK, CallOK
<1>5. Got(p)' = Got(p)
  <2>1. /\ userbuf[p] \in Seq(Values) /\ pos[p] \in Nat /\ pos[p] <= Len(userbuf[p])
    BY <1>4 DEF CompletionInv, FlashInv, DriverTypeOK, CallsOK, CallOK
  <2>2. chunk \in Seq(Values) /\ Len(chunk) = size
    <3>1. size \in 1..WinSize /\ WinSize \in Nat
      BY <1>1, CallNumbers DEF InChunk
    <3>2. \A i \in 1..size : rd_data[i - 1] \in Values
      BY <3>1 DEF CompletionInv, FlashInv, DeviceInv, DeviceTypeOK
    <3>3. size \in Nat /\ chunk \in [1..size -> Values]
      BY <3>1, <3>2
    <3> HIDE DEF size, chunk
    <3>. QED  BY <3>3, ChunkSequence
  <2>3. k = size \/ k = 0
    BY <1>1, CopiedAll
  <2>4. GotOfChunk(p) = [i \in 1..k |-> rd_data[i - 1]]
    BY <1>1 DEF GotOfChunk
  <2>5. GotOfChunk(p)' = SubSeq(userbuf'[p], pos[p] + 1, pos[p] + k)
    BY <1>1, <1>3 DEF GotOfChunk
  <2>6. k = 0 => GotOfChunk(p) = <<>>
    BY <2>4
  <2>7. k = size => GotOfChunk(p) = chunk
    BY <2>4
  <2> HIDE DEF chunk, size, k
  <2>8. /\ SubSeq(userbuf'[p], 1, pos[p]) = SubSeq(userbuf[p], 1, pos[p])
        /\ SubSeq(userbuf'[p], pos[p] + 1, pos[p] + size) = chunk
        /\ SubSeq(userbuf'[p], pos[p] + 1, pos[p] + 0) = <<>>
    <3> DEFINE u == userbuf[p]
               n == pos[p]
               t == userbuf'[p]
    <3>1. t = SubSeq(u, 1, n) \o chunk /\ u \in Seq(Values) /\ n \in Nat /\ n <= Len(u)
      BY <1>1, <1>a, <2>1
    <3> HIDE DEF u, n, t
    <3>2. /\ SubSeq(t, 1, n) = SubSeq(u, 1, n)
          /\ SubSeq(t, n + 1, n + Len(chunk)) = chunk
          /\ SubSeq(t, n + 1, n + 0) = <<>>
      BY <2>2, <3>1, ChunkBehind
    <3>. QED  BY <2>2, <3>2 DEF u, n, t
  <2>9. GotOfChunk(p)' = GotOfChunk(p)
    BY <2>3, <2>5, <2>6, <2>7, <2>8
  <2>. QED  BY <1>1, <2>8, <2>9 DEF Got
<1>6. Moved(p)' = Moved(p)
  BY <1>1, <1>3 DEF Moved
<1>. QED  BY <1>1, <1>5, <1>6, CallStutters

(* A chunk that is done has been moved before. *)
LEMMA NextChunkStores ==
    ASSUME CompletionInv, NEW p \in Procs, NextChunk(p)
    PROVE  UNCHANGED Store!storeVars
<1> DEFINE size == Chunk(p).size
<1>1. /\ fpc[p] = "check" /\ fpc'[p] = "loop" /\ PatientStep(p)
      /\ pos'[p] = pos[p] + size /\ UNCHANGED <<req, userbuf, result>>
  BY DEF NextChunk, At, PatientStep, CompletionInv, FlashInv, DriverTypeOK
<1>2. CopiedOfChunk(p) = size
  BY <1>1, ServedChunk, CopiedAll DEF NextChunk
<1>3. size \in Nat /\ pos[p] \in Nat
  BY <1>1, CallNumbers DEF InChunk
<1>4. CopiedOfChunk(p)' = 0 /\ GotOfChunk(p)' = <<>>
  <2>1. CopiedOfChunk(p)' = 0
    BY <1>1 DEF CopiedOfChunk
  <2>. QED  BY <1>1, <2>1 DEF GotOfChunk
<1>5. Moved(p)' = Moved(p)
  BY <1>1, <1>2, <1>3, <1>4 DEF Moved
<1>6. ASSUME p \in Readers
      PROVE  Got(p)' = Got(p)
  <2>1. userbuf[p] \in Seq(Values) /\ pos[p] + size <= Len(userbuf[p])
    BY <1>1, <1>6 DEF CompletionInv, FlashInv, DriverTypeOK, CallsOK, CallOK
  <2>2. GotOfChunk(p) = SubSeq(userbuf[p], pos[p] + 1, pos[p] + size)
    BY <1>1, <1>2 DEF GotOfChunk
  <2> HIDE DEF size
  <2>3. Got(p) = SubSeq(userbuf[p], 1, pos[p] + size)
    BY <1>3, <2>1, <2>2, FrontGrows DEF Got
  <2>4. SubSeq(userbuf[p], 1, pos[p] + size) \in Seq(Values)
    <3>1. Len(userbuf[p]) \in Nat
      BY <2>1, LenProperties
    <3>2. \A i \in 1..pos[p] + size : userbuf[p][i] \in Values
      BY <1>3, <2>1, <3>1, ElementOfSeq
    <3>. QED  BY <1>3, <3>2, SubSeqProperties
  <2>5. Got(p)' = SubSeq(userbuf[p], 1, pos[p] + size) \o <<>>
    BY <1>1, <1>4 DEF Got
  <2>. QED  BY <2>3, <2>4, <2>5, ConcatEmptySeq
<1>. QED  BY <1>1, <1>5, <1>6, CallStutters

(* A step of a call begins a call of the store, ends one, or stutters. *)
LEMMA CallStores ==
    ASSUME PatientHosts, CompletionInv, NEW p \in Procs, Call(p) \/ CallStep(p)
    PROVE  [Store!Next]_(Store!storeVars)
<1>1. CASE Call(p)
  BY <1>1, CallBegins DEF Store!Next
<1>2. CASE ReturnAll(p) \/ CheckError(p)
  BY <1>2, ReturnAllStores, CheckErrorStores DEF Store!Next
<1>3. CASE LockChunk(p) \/ SetSize(p) \/ SetAddr(p) \/ Fill(p) \/ Start(p) \/ Completed(p)
  BY <1>3, QuietSteps
<1>4. CASE CopyOut(p) \/ NextChunk(p)
  BY <1>4, CopyOutStores, NextChunkStores
<1>. QED  BY <1>1, <1>2, <1>3, <1>4, OnlyPatientSteps DEF PatientStep

(* So does a step that changes nothing. *)
LEMMA StutterStores ==
    ASSUME UNCHANGED vars
    PROVE  UNCHANGED Store!storeVars
<1>1. UNCHANGED <<fpc, req, pos, userbuf, result, storage, rd_data, ctrl, epc, copied>>
  BY DEF vars, procVars, deviceVars, csrVars, engineVars, dataVars
<1>2. \A p \in Procs : Moved(p)' = Moved(p) /\ (p \in Readers => Got(p)' = Got(p))
  BY <1>1, MovedFrame
<1>. QED  BY <1>1, <1>2, StoreStutters DEF Procs

(* Every step of the driver and the device maps to a step of the store.    *)
LEMMA StoreSteps ==
    ASSUME PatientHosts, CompletionInv, [FlashNext]_vars
    PROVE  [Store!Next]_(Store!storeVars)
  BY DeviceStores, HandlerStores, CallStores, StutterStores DEF FlashNext

-----------------------------------------------------------------------------
(* Whatever readers and writers do together, a call that returns its count *)
(* has moved each of its bytes once and in order, from or to its own place *)
(* of the storage; one that returns an error has asked for bytes outside.  *)
THEOREM PatientImplementsBlockStore ==
    ASSUME PatientHosts
    PROVE  FlashSpec => ImplementsBlockStore
<1>1. CompletionInv /\ [FlashNext]_vars => [Store!Next]_(Store!storeVars)
  BY StoreSteps
<1>. QED
  BY <1>1, StoreInit, CompletionInvariant, PTL DEF FlashSpec, ImplementsBlockStore, Store!Spec
=============================================================================
