------------------------- MODULE DriverLifecycleProofs -------------------------
(***************************************************************************)
(* Theorems about probe, remove and the users of the driver, for any       *)
(* number of open files, any window size, any width of a u32 and any       *)
(* numbers that users give.                                                *)
(***************************************************************************)
EXTENDS DriverLifecycle, TLAPS

(* What an order has behind its place n, and what it still has to do.      *)
Behind(order, n) == {order[i] : i \in 1..n - 1}
Ahead(order, n) == {order[i] : i \in n..Len(order)}

(* The orders have as many places as they show. *)
LEMMA Lengths ==
    /\ Len(ProbeOrder) = 9 /\ DOMAIN ProbeOrder = 1..9
    /\ Len(LabelOrder) = 8 /\ DOMAIN LabelOrder = 1..8
    /\ Len(PublishOrder) = 9 /\ DOMAIN PublishOrder = 1..9
    /\ Len(RemoveOrder) = 14 /\ DOMAIN RemoveOrder = 1..14
  BY DEF ProbeOrder, LabelOrder, PublishOrder, RemoveOrder

(* One place further on. *)
LEMMA NextPlace ==
    ASSUME NEW order, NEW n \in Nat \ {0}
    PROVE  /\ Behind(order, 1) = {}
           /\ Behind(order, n + 1) = Behind(order, n) \cup {order[n]}
           /\ n <= Len(order) /\ Len(order) \in Nat
                => Ahead(order, n) = Ahead(order, n + 1) \cup {order[n]}
  BY DEF Behind, Ahead

(* Probe ends with everything, and remove gives everything back but the    *)
(* cdev.                                                                   *)
LEMMA AllResources ==
    /\ Resources = {"device", "region", "vectors", "irq", "dev", "rd_buf", "wr_buf", "csr",
                    "data"}
    /\ Behind(ProbeOrder, 10) = Resources
    /\ Ahead(RemoveOrder, 1) = Resources \cup (Published \ {"cdev"}) \cup {"class_destroy"}
    /\ Ahead(RemoveOrder, 15) = {}
    /\ Ahead(LabelOrder, 9) = {}
  BY Lengths DEF Resources, Published, Behind, Ahead, ProbeOrder, RemoveOrder, LabelOrder

(* A label from which the resources behind a place are freed, and nothing  *)
(* else but the interrupt, which is freed without being there only         *)
(* together with forgotten vectors; and only those may be forgotten.       *)
LEMMA LabelFrees ==
    ASSUME NEW k \in 2..9, NEW l \in 1..8, LabelOrder[l] = Label(ProbeOrder[k])
    PROVE  /\ Ahead(LabelOrder, l) \ {"irq"} \subseteq Behind(ProbeOrder, k)
           /\ Behind(ProbeOrder, k) \subseteq Ahead(LabelOrder, l) \cup {"vectors"}
           /\ l < 6 => "irq" \in Behind(ProbeOrder, k)
           /\ l = 6 => "vectors" \in Behind(ProbeOrder, k)
  BY Lengths DEF Behind, Ahead, Label, ProbeOrder, LabelOrder

(* The label of each failure is such a label. *)
LEMMA LabelsMatch ==
    ASSUME NEW k \in 2..9,
           NEW l, l = CHOOSE i \in DOMAIN LabelOrder : LabelOrder[i] = Label(ProbeOrder[k])
    PROVE  /\ l \in 1..8
           /\ Ahead(LabelOrder, l) \ {"irq"} \subseteq Behind(ProbeOrder, k)
           /\ Behind(ProbeOrder, k) \subseteq Ahead(LabelOrder, l) \cup {"vectors"}
           /\ l < 6 => "irq" \in Behind(ProbeOrder, k)
           /\ l = 6 => "vectors" \in Behind(ProbeOrder, k)
<1>1. \E i \in DOMAIN LabelOrder : LabelOrder[i] = Label(ProbeOrder[k])
  BY Lengths DEF Label, ProbeOrder, LabelOrder
<1>2. l \in 1..8 /\ LabelOrder[l] = Label(ProbeOrder[k])
  BY <1>1, Lengths
<1>. QED  BY <1>2, LabelFrees

-----------------------------------------------------------------------------
(* What is acquired, at each place of each stage. *)
Acquiring ==
    /\ at \in 1..9
    /\ Behind(ProbeOrder, at) \subseteq held
    /\ held \subseteq Behind(ProbeOrder, at) \cup {"vectors"}
    /\ priv # "live" /\ ready = {}

Undoing ==
    /\ at \in 1..8
    /\ Ahead(LabelOrder, at) \ {"irq"} \subseteq held
    /\ held \subseteq Ahead(LabelOrder, at) \cup {"vectors"}
    /\ at < 6 => "irq" \in held
    /\ at = 6 => "irq" \in held \/ "vectors" \in held
    /\ priv # "live" /\ ready = {}

Publishing ==
    /\ at \in 1..9
    /\ ready = Behind(PublishOrder, at)
    /\ Resources \subseteq held /\ held \subseteq Resources \cup (ready \cap Published)
    /\ priv = "live" <=> at > 2

Oopsed ==
    /\ at = 1
    /\ ready = Behind(PublishOrder, 6)
    /\ Resources \subseteq held /\ held \subseteq Resources \cup {"number", "cdev", "class"}
    /\ priv = "live"

Bound ==
    /\ at = 1
    /\ ready = Behind(PublishOrder, 10)
    /\ Resources \subseteq held /\ held \subseteq Resources \cup Published
    /\ priv = "live"

(* The state is freed at the tenth place. *)
Removing ==
    /\ at \in 1..14
    /\ Ahead(RemoveOrder, at) \cap Resources \subseteq held
    /\ held \subseteq Ahead(RemoveOrder, at) \cup (IF at <= 10 THEN {"cdev"} ELSE {})
    /\ held \subseteq Resources \cup Published
    /\ ready = IF at <= 10 THEN Behind(PublishOrder, 10) ELSE {}
    /\ priv = IF at <= 10 THEN "live" ELSE "dangling"

StageInv ==
    /\ stage \in {"unbound", "acquire", "undo", "publish", "oops", "bound", "remove"}
    /\ stage = "unbound" => at = 1 /\ held \subseteq {"vectors"} /\ priv # "live" /\ ready = {}
    /\ stage = "acquire" => Acquiring
    /\ stage = "undo" => Undoing
    /\ stage = "publish" => Publishing
    /\ stage = "oops" => Oopsed
    /\ stage = "bound" => Bound
    /\ stage = "remove" => Removing
    /\ leaked \in SUBSET {"number", "cdev"}
    /\ priv \in {"null", "live", "dangling"}
    /\ going \in BOOLEAN

(* A file that has its device is open from the creation of the node to the *)
(* unloading.                                                              *)
OpenInv ==
    /\ early \subseteq opened /\ orphans \subseteq opened
    /\ opened \ orphans # {} => stage \in {"publish", "bound"} /\ "node" \in held
    /\ \A h \in Handles : transfer[h] # NoTransfer => h \in opened

-----------------------------------------------------------------------------
(* The driver's own steps. *)

(* Probe begins with nothing but forgotten vectors. *)
LEMMA BindStage ==
    ASSUME StageInv, Bind
    PROVE  StageInv'
<1>1. Behind(ProbeOrder, 1) = {}
  BY NextPlace
<1>2. /\ stage = "unbound" /\ at = 1 /\ held \subseteq {"vectors"} /\ priv # "live" /\ ready = {}
      /\ stage' = "acquire" /\ UNCHANGED <<at, held, leaked, ready>>
      /\ priv' \in {"null", priv} /\ going' = FALSE
  BY DEF Bind, InStage, StageInv
<1>3. Acquiring'
  BY <1>1, <1>2 DEF Acquiring
<1>. QED  BY <1>2, <1>3 DEF StageInv

(* Each acquisition adds its resource; the last one completes the list. *)
LEMMA AcquireStage ==
    ASSUME StageInv, Acquire
    PROVE  StageInv'
<1>1. /\ stage = "acquire" /\ at \in 1..9
      /\ held' = held \cup {ProbeOrder[at]} /\ UNCHANGED <<leaked, priv, ready, going>>
  BY DEF Acquire, InStage, StageInv, Acquiring
<1>2. Behind(ProbeOrder, at + 1) = Behind(ProbeOrder, at) \cup {ProbeOrder[at]}
  <2>1. at \in Nat \ {0}
    BY <1>1
  <2>. QED  BY <2>1, NextPlace
<1>3. CASE at < 9
  BY <1>1, <1>2, <1>3, Lengths DEF Acquire, Advance, StageInv, Acquiring
<1>4. CASE at = 9
  <2>1. stage' = "publish" /\ at' = 1
    BY <1>1, <1>4, Lengths DEF Acquire, Advance
  <2>2. held' = Resources
    BY <1>1, <1>2, <1>4, AllResources DEF StageInv, Acquiring
  <2>3. ready' = Behind(PublishOrder, 1) /\ ready' = {}
    <3>1. Behind(PublishOrder, 1) = {}
      BY NextPlace
    <3>2. ready = {}
      BY <1>1 DEF StageInv, Acquiring
    <3>. QED  BY <1>1, <3>1, <3>2
  <2>4. priv' # "live"
    BY <1>1 DEF StageInv, Acquiring
  <2>5. Publishing'
    BY <2>1, <2>2, <2>3, <2>4 DEF Publishing
  <2>. QED  BY <1>1, <2>1, <2>5 DEF StageInv
<1>. QED  BY <1>1, <1>3, <1>4

(* A failure goes to the label that covers what is acquired so far. *)
LEMMA FailStage ==
    ASSUME StageInv, AcquireFails
    PROVE  StageInv'
<1>1. stage = "acquire" /\ Acquiring /\ UNCHANGED <<held, leaked, priv, ready, going>>
  BY DEF AcquireFails, InStage, StageInv
<1>2. CASE ProbeOrder[at] = "device"
  <2>1. at = 1
    BY <1>1, <1>2 DEF Acquiring, ProbeOrder
  <2>2. Behind(ProbeOrder, 1) = {}
    BY NextPlace
  <2>. QED  BY <1>1, <1>2, <2>1, <2>2 DEF AcquireFails, StageInv, Acquiring
<1>3. CASE ProbeOrder[at] # "device"
  <2>1. at \in 2..9
    BY <1>1, <1>3 DEF Acquiring, ProbeOrder
  <2>2. /\ stage' = "undo"
        /\ at' = CHOOSE i \in DOMAIN LabelOrder : LabelOrder[i] = Label(ProbeOrder[at])
    BY <1>3 DEF AcquireFails
  <2>3. /\ at' \in 1..8
        /\ Ahead(LabelOrder, at') \ {"irq"} \subseteq Behind(ProbeOrder, at)
        /\ Behind(ProbeOrder, at) \subseteq Ahead(LabelOrder, at') \cup {"vectors"}
        /\ at' < 6 => "irq" \in Behind(ProbeOrder, at)
        /\ at' = 6 => "vectors" \in Behind(ProbeOrder, at)
    BY <2>1, <2>2, LabelsMatch
  <2>. QED  BY <1>1, <2>2, <2>3 DEF StageInv, Acquiring, Undoing
<1>. QED  BY <1>2, <1>3

(* Each label gives back one resource; what is left lies ahead. *)
LEMMA UndoStage ==
    ASSUME StageInv, Undo
    PROVE  StageInv'
<1>1. stage = "undo" /\ Undoing /\ UNCHANGED going
  BY DEF Undo, InStage, StageInv
<1>a. /\ UNCHANGED priv /\ ready' = {}
      /\ held' = held \ {LabelOrder[at]}
      /\ leaked' \in SUBSET {"number", "cdev"}
  <2>1. Forgotten(LabelOrder[at]) \subseteq {"number", "cdev"}
    BY DEF Forgotten
  <2>2. /\ Forgotten(LabelOrder[at]) \cap held = {}
    BY <1>1, <2>1, Lengths DEF Undoing, Ahead, LabelOrder
  <2>. QED  BY <1>1, <2>1, <2>2 DEF Undo, GiveBack, Undoing, StageInv
<1>2. /\ Ahead(LabelOrder, at) = Ahead(LabelOrder, at + 1) \cup {LabelOrder[at]}
      /\ LabelOrder[at] \notin Ahead(LabelOrder, at + 1)
      /\ LabelOrder[at] = "irq" <=> at = 6
      /\ LabelOrder[at] = "vectors" <=> at = 5
  <2>1. at \in 1..8
    BY <1>1 DEF Undoing
  <2>. QED  BY <2>1, Lengths, NextPlace DEF Ahead, LabelOrder
<1>3. CASE at < 8
  BY <1>1, <1>a, <1>2, <1>3, Lengths DEF Undo, Advance, StageInv, Undoing
<1>4. CASE at = 8
  BY <1>1, <1>a, <1>2, <1>4, Lengths, AllResources DEF Undo, Advance, StageInv, Undoing
<1>. QED  BY <1>1, <1>3, <1>4 DEF Undoing

(* Publishing keeps the resources, whatever of it fails.                   *)
LEMMA PublishStage ==
    ASSUME StageInv, Publish \/ PublishFails
    PROVE  StageInv'
<1>1. /\ stage = "publish" /\ Publishing
      /\ ready' = ready \cup {PublishOrder[at]}
      /\ UNCHANGED <<leaked, going>>
  BY DEF Publish, PublishFails, InStage, StageInv
<1>2. /\ Behind(PublishOrder, at + 1) = Behind(PublishOrder, at) \cup {PublishOrder[at]}
      /\ PublishOrder[at] = "priv" <=> at = 2
  <2>1. at \in 1..9
    BY <1>1 DEF Publishing
  <2>2. PublishOrder[at] = "priv" <=> at = 2
    BY <2>1 DEF PublishOrder
  <2>3. at \in Nat \ {0}
    BY <2>1
  <2>. QED  BY <2>2, <2>3, NextPlace
<1>3. priv' \in {"null", "live", "dangling"} /\ (priv' = "live" <=> at > 1)
  <2>1. CASE Publish
    BY <1>1, <1>2, <2>1 DEF Publish, Publishing, StageInv
  <2>2. CASE PublishFails
    BY <1>1, <1>2, <2>2 DEF PublishFails, Publishing, StageInv, Published
  <2>. QED  BY <2>1, <2>2
<1>4. Resources \subseteq held' /\ held' \subseteq Resources \cup (ready' \cap Published)
  BY <1>1 DEF Publish, PublishFails, Publishing
<1>5. CASE at < 9
  <2>1. stage' = "publish" /\ at' = at + 1
    BY <1>1, <1>5, Lengths DEF Publish, PublishFails, Advance
  <2>. QED  BY <1>1, <1>2, <1>3, <1>4, <1>5, <2>1 DEF StageInv, Publishing
<1>6. CASE at = 9
  <2>1. stage' = "bound" /\ at' = 1
    BY <1>1, <1>6, Lengths DEF Publish, PublishFails, Advance
  <2>. QED  BY <1>1, <1>2, <1>3, <1>4, <1>6, <2>1 DEF StageInv, Bound, Publishing
<1>. QED  BY <1>1, <1>5, <1>6 DEF Publishing

(* Nothing is given back by an oops; all is gone after it. *)
LEMMA OopsStage ==
    ASSUME StageInv, Oops \/ Reboot
    PROVE  StageInv'
<1>1. CASE Oops
  <2>1. stage = "publish" /\ Publishing /\ at = 6 /\ "node" \notin held
    BY <1>1 DEF Oops, InStage, StageInv, Publishing, PublishOrder
  <2>2. "attributes" \notin Behind(PublishOrder, 6)
    BY DEF Behind, PublishOrder
  <2>3. "attributes" \notin Resources
    BY AllResources
  <2>4. held \subseteq Resources \cup {"number", "cdev", "class"}
    BY <2>1, <2>2, <2>3 DEF Publishing, Published
  <2>. QED  BY <1>1, <2>1, <2>4 DEF Oops, StageInv, Publishing, Oopsed
<1>2. CASE Reboot
  BY <1>2 DEF Reboot, StageInv
<1>. QED  BY <1>1, <1>2

(* Remove begins with everything. *)
LEMMA UnloadStage ==
    ASSUME StageInv, Unload \/ Unbind
    PROVE  StageInv'
<1>1. /\ Bound /\ stage' = "remove" /\ UNCHANGED <<at, held, leaked, priv, ready>>
      /\ going' \in BOOLEAN
  BY DEF Unload, Unbind, InStage, StageInv
<1>2. Removing'
  BY <1>1, AllResources DEF Bound, Removing
<1>. QED  BY <1>1, <1>2 DEF StageInv

(* What is left to remove lies ahead in its order. *)
LEMMA RemoveStage ==
    ASSUME StageInv, Remove
    PROVE  StageInv'
<1> DEFINE r == RemoveOrder[at]
<1>1. stage = "remove" /\ Removing /\ UNCHANGED going
  BY DEF Remove, InStage, StageInv
<1>2. at \in 1..14
  BY <1>1 DEF Removing
<1>3. /\ Ahead(RemoveOrder, at) = Ahead(RemoveOrder, at + 1) \cup {r}
      /\ r \notin Ahead(RemoveOrder, at + 1)
      /\ r = "dev" <=> at = 10
  BY <1>2, Lengths, NextPlace DEF Ahead, RemoveOrder
<1>4. /\ Forgotten(r) \subseteq {"number", "cdev"}
      /\ r = "dev" => "cdev" \in Forgotten(r)
      /\ {"number", "cdev"} \cap Resources = {}
  BY AllResources DEF Forgotten
<1>5. /\ held' = held \ ({r} \cup Forgotten(r))
      /\ leaked' \in SUBSET {"number", "cdev"}
      /\ priv' = IF at < 10 THEN "live" ELSE "dangling"
      /\ ready' = IF at < 10 THEN Behind(PublishOrder, 10) ELSE {}
  <2>1. /\ held' = held \ ({r} \cup Forgotten(r))
        /\ leaked' = leaked \cup (held \cap Forgotten(r))
        /\ priv' = IF r = "dev" /\ priv = "live" THEN "dangling" ELSE priv
        /\ ready' = IF r = "dev" THEN {} ELSE ready
    BY DEF Remove, GiveBack
  <2>2. /\ priv = IF at <= 10 THEN "live" ELSE "dangling"
        /\ ready = IF at <= 10 THEN Behind(PublishOrder, 10) ELSE {}
        /\ leaked \in SUBSET {"number", "cdev"}
    BY <1>1 DEF Removing, StageInv
  <2> HIDE DEF r
  <2>3. leaked' \in SUBSET {"number", "cdev"}
    BY <1>4, <2>1, <2>2
  <2>4. CASE at < 10
    BY <1>2, <1>3, <2>1, <2>2, <2>3, <2>4
  <2>5. CASE at = 10
    BY <1>2, <1>3, <2>1, <2>2, <2>3, <2>5
  <2>6. CASE at > 10
    BY <1>2, <1>3, <2>1, <2>2, <2>3, <2>6
  <2>. QED  BY <1>2, <2>4, <2>5, <2>6
<1> HIDE DEF r
<1>6. /\ Ahead(RemoveOrder, at + 1) \cap Resources \subseteq held'
      /\ held' \subseteq Ahead(RemoveOrder, at + 1) \cup (IF at < 10 THEN {"cdev"} ELSE {})
      /\ held' \subseteq Resources \cup Published
  <2>1. Ahead(RemoveOrder, at + 1) \cap Resources \subseteq held'
    BY <1>1, <1>3, <1>4, <1>5 DEF Removing
  <2>5. held' \subseteq Resources \cup Published
    BY <1>1, <1>5 DEF Removing
  <2>a. held \subseteq Ahead(RemoveOrder, at) \cup (IF at <= 10 THEN {"cdev"} ELSE {})
    BY <1>1 DEF Removing
  <2>2. CASE at < 10
    <3>1. held \subseteq Ahead(RemoveOrder, at + 1) \cup {r} \cup {"cdev"}
      BY <1>2, <1>3, <2>a, <2>2
    <3>2. held' = held \ ({r} \cup Forgotten(r))
      BY <1>5
    <3>3. held' \subseteq Ahead(RemoveOrder, at + 1) \cup {"cdev"}
      BY <3>1, <3>2
    <3>. QED  BY <2>1, <2>2, <2>5, <3>3
  <2>3. CASE at = 10
    BY <1>1, <1>3, <1>4, <1>5, <2>3, <2>5 DEF Removing
  <2>4. CASE at > 10
    <3>1. held \subseteq Ahead(RemoveOrder, at + 1) \cup {r}
      BY <1>2, <1>3, <2>a, <2>4
    <3>2. held' = held \ ({r} \cup Forgotten(r))
      BY <1>5
    <3>3. held' \subseteq Ahead(RemoveOrder, at + 1)
      BY <3>1, <3>2
    <3>. QED  BY <1>2, <2>1, <2>4, <2>5, <3>3
  <2>. QED  BY <1>2, <2>1, <2>2, <2>3, <2>4, <2>5
<1>7. CASE at < 14
  <2>1. stage' = "remove" /\ at' = at + 1
    BY <1>1, <1>7, Lengths DEF Remove, Advance
  <2>2. Removing'
    BY <1>2, <1>5, <1>6, <1>7, <2>1 DEF Removing
  <2>. QED  BY <1>1, <1>5, <2>1, <2>2 DEF StageInv
<1>8. CASE at = 14
  <2>1. stage' = "unbound" /\ at' = 1
    BY <1>1, <1>8, Lengths DEF Remove, Advance
  <2>. QED  BY <1>1, <1>5, <1>6, <1>8, <2>1, AllResources DEF StageInv
<1>. QED  BY <1>2, <1>7, <1>8

(* The users leave the driver's state alone. *)
LEMMA UsersLeaveStage ==
    ASSUME StageInv, UNCHANGED driverVars
    PROVE  StageInv'
  BY DEF StageInv, Acquiring, Undoing, Publishing, Oopsed, Bound, Removing, driverVars

(* Only the driver's steps change driverVars. *)
LEMMA UserSteps ==
    ASSUME NEW h \in Handles, UserStep(h)
    PROVE  UNCHANGED driverVars
  BY DEF UserStep, Open, Release, Enter, LoadSize, Leave, GiveUp, Begin, Ioctl

(* Every step keeps what is acquired at each place. *)
LEMMA StageSteps ==
    ASSUME StageInv, [LifeNext]_lifeVars
    PROVE  StageInv'
<1>1. CASE Bind \/ Unload \/ Unbind \/ DriverStep \/ Reboot
  BY <1>1, BindStage, AcquireStage, FailStage, UndoStage, PublishStage, OopsStage, UnloadStage,
     RemoveStage
     DEF DriverStep
<1>2. CASE UNCHANGED driverVars
  BY <1>2, UsersLeaveStage
<1>. QED  BY <1>1, <1>2, UserSteps DEF LifeNext, SysfsStore, lifeVars

-----------------------------------------------------------------------------
(* The settings, the files and the transfers. *)
Transfers == [side : Sides \cup {"none"}, left : 0..U64 - 1,
              chunk : 0..U32 - 1 \cup {NoChunk, Loading}]

UserTypes ==
    /\ settings \in [Sides -> [addr : Nat, size : 0..WIN_SIZE, timeout : Int]]
    /\ opened \in SUBSET Handles
    /\ file \in [Handles -> [Sides -> [addr : Nat, size : 0..U32 - 1, timeout : Int]]]
    /\ early \in SUBSET Handles
    /\ raw \in [Handles -> SUBSET (Sides \X Fields)]
    /\ transfer \in [Handles -> Transfers]
    /\ lock \in [Sides -> Handles \cup {Nobody}]
    /\ disturbed \in BOOLEAN

(* A transfer has a side and something left to do. *)
TransfersOK ==
    \A h \in Handles : InTransfer(h) => transfer[h].side \in Sides /\ transfer[h].left > 0

(* No settings, and no transfer. *)
LEMMA Nothing ==
    /\ Zeroed \in [Sides -> [addr : Nat, size : 0..WIN_SIZE, timeout : Int]]
    /\ Zeroed \in [Sides -> [addr : Nat, size : 0..U32 - 1, timeout : Int]]
    /\ NoTransfer \in Transfers /\ NoTransfer.chunk = NoChunk
<1>1. \A s \in Sides : Zeroed[s] = [addr |-> 0, size |-> 0, timeout |-> 0]
  BY DEF Zeroed, Fields
<1>2. 0 \in 0..WIN_SIZE /\ 0 \in 0..U32 - 1 /\ 0 \in 0..U64 - 1
  BY DriverAssumption
<1>. QED  BY <1>1, <1>2 DEF Zeroed, NoTransfer, Transfers

(* What sysfs and ioctl store fits its field. *)
LEMMA StoredFits ==
    ASSUME NEW f \in Fields, NEW v \in Nat
    PROVE  /\ f = "addr" => Stored(f, v) \in Nat /\ Cut(f, v) \in Nat
           /\ f = "size" => Stored(f, v) \in 1..WIN_SIZE /\ Cut(f, v) \in 0..U32 - 1
           /\ f = "timeout" => Stored(f, v) \in Int /\ Cut(f, v) \in Int
           /\ f = "timeout" /\ v < U32 => Stored(f, v) # 0
<1>1. U32 \in Nat \ {0} /\ WIN_SIZE \in Nat \ {0} /\ DEFAULT_TIMEOUT \in Nat \ {0}
  BY DriverAssumption
<1>2. v % U32 \in 0..U32 - 1
  BY <1>1
<1>3. CASE f = "addr"
  BY <1>3 DEF Stored, Cut
<1>4. CASE f = "size"
  BY <1>1, <1>2, <1>4 DEF Stored, Cut
<1>5. CASE f = "timeout"
  BY <1>1, <1>2, <1>5 DEF Stored, Cut, AsInt
<1>. QED  BY <1>3, <1>4, <1>5 DEF Fields

(* The driver's steps leave files and transfers alone. *)
LEMMA TypesOfDriver ==
    ASSUME UserTypes, TransfersOK, Bind \/ DriverStep \/ Unload \/ Unbind
    PROVE  UserTypes' /\ TransfersOK'
<1> USE DEF Bind, Unload, Unbind, DriverStep, Acquire, AcquireFails, Undo, Publish, PublishFails,
            Oops, Remove
<1>1. UNCHANGED <<opened, file, early, raw, transfer>>
  BY DEF userVars, openVars
<1>2. Defaults \in [Sides -> [addr : Nat, size : 0..WIN_SIZE, timeout : Int]]
  BY DriverAssumption DEF Defaults
<1>3. settings' \in [Sides -> [addr : Nat, size : 0..WIN_SIZE, timeout : Int]]
  BY <1>2, Nothing DEF UserTypes
<1>4. lock' \in [Sides -> Handles \cup {Nobody}] /\ disturbed' \in BOOLEAN
  BY DEF UserTypes, lockVars
<1>. QED  BY <1>1, <1>3, <1>4 DEF UserTypes, TransfersOK, InTransfer

(* A file's transfer becomes another one. *)
LEMMA TransferChanges ==
    ASSUME UserTypes, TransfersOK, NEW h \in Handles, NEW t \in Transfers,
           transfer' = [transfer EXCEPT ![h] = t],
           t # NoTransfer => t.side \in Sides /\ t.left > 0
    PROVE  transfer' \in [Handles -> Transfers] /\ TransfersOK'
  BY DEF UserTypes, TransfersOK, InTransfer

(* The users' steps keep types, and a transfer keeps something to do. *)
LEMMA TypesOfUsers ==
    ASSUME UserTypes, TransfersOK, NEW h \in Handles, UserStep(h)
    PROVE  UserTypes' /\ TransfersOK'
<1> USE DEF UserTypes, openVars, lockVars
<1>a. transfer[h] \in Transfers /\ (InTransfer(h) => transfer[h].side \in Sides
                                                  /\ transfer[h].left > 0)
  BY DEF TransfersOK
<1>b. UNCHANGED transfer => TransfersOK'
  BY DEF TransfersOK, InTransfer
<1>c. \A s \in Sides : file[h][s].size \in 0..U32 - 1
  <2>1. \A s \in Sides : file[h][s] \in [addr : Nat, size : 0..U32 - 1, timeout : Int]
    OBVIOUS
  <2>. QED  BY <2>1
<1>1. CASE Open(h)
  <2>1. \A r \in [addr : Nat, size : 0..WIN_SIZE, timeout : Int] :
           r \in [addr : Nat, size : 0..U32 - 1, timeout : Int]
    BY DriverAssumption
  <2>2. settings \in [Sides -> [addr : Nat, size : 0..U32 - 1, timeout : Int]]
    BY <2>1
  <2>. QED  BY <1>1, <1>b, <2>2 DEF Open
<1>2. CASE Release(h)
  BY <1>2, <1>b, Nothing DEF Release
<1>3. CASE Enter(h)
  <2> DEFINE size == file[h][transfer[h].side].size
             chunk == IF transfer[h].left < size THEN transfer[h].left ELSE Loading
             t == [transfer[h] EXCEPT !.chunk = chunk]
  <2>1. transfer[h].side \in Sides /\ transfer[h].left > 0
    BY <1>3, <1>a DEF Enter
  <2>2. chunk \in 0..U32 - 1 \cup {Loading}
    <3>1. size \in 0..U32 - 1
      BY <1>c, <2>1
    <3>2. transfer[h].left \in 0..U64 - 1
      BY <1>a DEF Transfers
    <3>3. U32 \in Nat /\ U64 \in Nat
      BY DriverAssumption
    <3>. QED  BY <3>1, <3>2, <3>3
  <2>3. /\ transfer' = [transfer EXCEPT ![h] = t]
        /\ lock' = [lock EXCEPT ![transfer[h].side] = h]
        /\ UNCHANGED <<settings, opened, early, file, raw, disturbed>>
    BY <1>3 DEF Enter
  <2> HIDE DEF chunk
  <2>4. t \in Transfers /\ t.side = transfer[h].side /\ t.left = transfer[h].left
    BY <1>a, <2>2 DEF Transfers
  <2> HIDE DEF t
  <2>5. transfer' \in [Handles -> Transfers] /\ TransfersOK'
    BY <2>1, <2>3, <2>4, TransferChanges
  <2>. QED  BY <2>1, <2>3, <2>5
<1>4. CASE LoadSize(h)
  <2> DEFINE t == [transfer[h] EXCEPT !.chunk = file[h][transfer[h].side].size]
  <2>1. InTransfer(h)
    BY <1>4 DEF LoadSize, InTransfer, NoTransfer, NoChunk, Loading
  <2>2. /\ transfer' = [transfer EXCEPT ![h] = t]
        /\ UNCHANGED <<settings, opened, early, file, raw, lock, disturbed>>
    BY <1>4 DEF LoadSize
  <2>3. t \in Transfers /\ t.side = transfer[h].side /\ t.left = transfer[h].left
    BY <1>a, <1>c, <2>1 DEF Transfers
  <2> HIDE DEF t
  <2>4. transfer' \in [Handles -> Transfers] /\ TransfersOK'
    BY <1>a, <2>1, <2>2, <2>3, TransferChanges
  <2>. QED  BY <2>2, <2>4
<1>5. CASE Leave(h)
  <2> DEFINE rest == (transfer[h].left - transfer[h].chunk) % U64
             t == [transfer[h] EXCEPT !.left = rest, !.chunk = NoChunk]
  <2>1. InTransfer(h)
    BY <1>5 DEF Leave, InChunk, InTransfer, NoTransfer
  <2>2. /\ lock' = [lock EXCEPT ![transfer[h].side] = Nobody]
        /\ UNCHANGED <<settings, opened, early, file, raw, disturbed>>
        /\ \/ rest # 0 /\ transfer' = [transfer EXCEPT ![h] = t]
           \/ transfer' = [transfer EXCEPT ![h] = NoTransfer]
    BY <1>5 DEF Leave
  <2>3. rest \in 0..U64 - 1
    <3>1. transfer[h].left \in Int /\ transfer[h].chunk \in Int /\ U64 \in Nat \ {0}
      BY <1>a, DriverAssumption DEF Transfers, NoChunk, Loading
    <3>. QED  BY <3>1
  <2> HIDE DEF rest
  <2>4. t \in Transfers /\ t.side = transfer[h].side /\ t.left = rest
    BY <1>a, <2>3 DEF Transfers
  <2> HIDE DEF t
  <2>5. transfer' \in [Handles -> Transfers] /\ TransfersOK'
    <3>1. CASE rest # 0 /\ transfer' = [transfer EXCEPT ![h] = t]
      <4>1. t.left > 0
        BY <2>3, <2>4, <3>1, DriverAssumption
      <4>2. transfer' = [transfer EXCEPT ![h] = t]
        BY <3>1
      <4>. QED  BY <1>a, <2>1, <2>4, <4>1, <4>2, TransferChanges
    <3>2. CASE transfer' = [transfer EXCEPT ![h] = NoTransfer]
      BY <3>2, Nothing, TransferChanges
    <3>. QED  BY <2>2, <3>1, <3>2
  <2>. QED  BY <1>a, <2>1, <2>2, <2>5
<1>6. CASE GiveUp(h)
  <2>1. transfer' \in [Handles -> Transfers] /\ TransfersOK'
    BY <1>6, Nothing, TransferChanges DEF GiveUp
  <2>. QED  BY <1>6, <2>1 DEF GiveUp
<1>7. ASSUME NEW s \in Sides, NEW n \in Counts, Begin(h, s, n) PROVE UserTypes' /\ TransfersOK'
  <2> DEFINE t == [side |-> s, left |-> n, chunk |-> NoChunk]
  <2>1. n \in 0..U64 - 1 /\ n > 0
    BY <1>7, DriverAssumption DEF Begin
  <2>2. t \in Transfers /\ t.side = s /\ t.left = n
    BY <2>1 DEF Transfers
  <2>3. transfer' = [transfer EXCEPT ![h] = t]
    BY <1>7 DEF Begin
  <2> HIDE DEF t
  <2>4. transfer' \in [Handles -> Transfers] /\ TransfersOK'
    BY <2>1, <2>2, <2>3, TransferChanges
  <2>. QED  BY <1>7, <2>4 DEF Begin
<1>8. ASSUME NEW s \in Sides, NEW f \in Fields, NEW v \in Inputs[f], Ioctl(h, s, f, v)
      PROVE  UserTypes' /\ TransfersOK'
  <2>1. v \in Nat
    BY DriverAssumption
  <2>2. [file[h][s] EXCEPT ![f] = Cut(f, v)] \in [addr : Nat, size : 0..U32 - 1, timeout : Int]
    <3>1. file[h][s] \in [addr : Nat, size : 0..U32 - 1, timeout : Int]
      OBVIOUS
    <3>. QED  BY <2>1, <3>1, StoredFits DEF Fields
  <2>3. file' \in [Handles -> [Sides -> [addr : Nat, size : 0..U32 - 1, timeout : Int]]]
    BY <1>8, <2>2 DEF Ioctl
  <2>. QED  BY <1>8, <1>b, <2>3 DEF Ioctl
<1>. QED  BY <1>1, <1>2, <1>3, <1>4, <1>5, <1>6, <1>7, <1>8 DEF UserStep

(* A rebooted machine has no file open. *)
LEMMA TypesOfReboot ==
    ASSUME Reboot
    PROVE  UserTypes' /\ TransfersOK'
  BY Nothing DEF Reboot, UserTypes, TransfersOK, InTransfer

(* Every step keeps the types. *)
LEMMA TypeSteps ==
    ASSUME UserTypes, TransfersOK, [LifeNext]_lifeVars
    PROVE  UserTypes' /\ TransfersOK'
<1>1. ASSUME NEW s \in Sides, NEW f \in Fields, NEW v \in Inputs[f], SysfsStore(s, f, v)
      PROVE  UserTypes' /\ TransfersOK'
  <2>1. v \in Nat /\ WIN_SIZE \in Nat
    BY DriverAssumption
  <2>2. [settings[s] EXCEPT ![f] = Stored(f, v)] \in [addr : Nat, size : 0..WIN_SIZE, timeout : Int]
    BY <2>1, StoredFits DEF Fields, UserTypes
  <2>3. settings' \in [Sides -> [addr : Nat, size : 0..WIN_SIZE, timeout : Int]]
    BY <1>1, <2>2 DEF SysfsStore, UserTypes
  <2>. QED  BY <1>1, <2>3
            DEF SysfsStore, UserTypes, TransfersOK, InTransfer, userVars, openVars, lockVars
<1>2. CASE UNCHANGED lifeVars
  BY <1>2 DEF lifeVars, UserTypes, TransfersOK, InTransfer, userVars, openVars, lockVars
<1>. QED  BY <1>1, <1>2, TypesOfDriver, TypesOfUsers, TypesOfReboot DEF LifeNext

(* Files that have their device are open only while the node is there. *)
LEMMA OpenSteps ==
    ASSUME StageInv, UserTypes, OpenInv, [LifeNext]_lifeVars
    PROVE  OpenInv'
<1> USE DEF OpenInv
<1>1. CASE Bind \/ DriverStep \/ Unload
  <2> USE DEF Bind, Unload, DriverStep, Acquire, AcquireFails, Undo, Publish, PublishFails, Oops,
              Remove
  <2>1. UNCHANGED <<opened, orphans, early, transfer>>
    BY <1>1 DEF userVars, openVars
  <2>2. CASE opened \ orphans = {}
    BY <2>1, <2>2
  <2>3. CASE opened \ orphans # {}
    <3>1. Publish \/ PublishFails
      BY <1>1, <2>3 DEF InStage
    <3>2. stage' \in {"publish", "bound"} /\ "node" \in held'
      BY <2>3, <3>1 DEF Advance, InStage
    <3>. QED  BY <2>1, <3>2
  <2>. QED  BY <2>2, <2>3
<1>2. CASE Unbind
  BY <1>2 DEF Unbind
<1>3. CASE Reboot
  BY <1>3 DEF Reboot
<1>4. ASSUME NEW h \in Handles, UserStep(h) PROVE OpenInv'
  <2>1. UNCHANGED <<stage, held>>
    BY <1>4, UserSteps DEF driverVars
  <2>2. CASE Open(h)
    <3>1. "node" \in held
      BY <2>2 DEF Open
    <3>2. stage # "acquire"
      BY <3>1, Lengths DEF StageInv, Acquiring, Behind, ProbeOrder
    <3>3. stage # "undo"
      BY <3>1, Lengths DEF StageInv, Undoing, Ahead, LabelOrder
    <3>4. stage # "oops"
      BY <3>1, AllResources DEF StageInv, Oopsed
    <3>5. stage \in {"publish", "bound", "remove"}
      BY <3>1, <3>2, <3>3, <3>4 DEF StageInv
    <3>. QED  BY <2>1, <2>2, <3>1, <3>5 DEF Open
  <2>3. CASE Release(h)
    BY <2>1, <2>3 DEF Release, InTransfer
  <2>4. CASE Enter(h) \/ LoadSize(h) \/ Leave(h) \/ GiveUp(h)
    <3>1. UNCHANGED openVars
      BY <2>4 DEF Enter, LoadSize, Leave, GiveUp
    <3>2. transfer[h] # NoTransfer
      BY <2>4 DEF Enter, LoadSize, Leave, GiveUp, InTransfer, InChunk, NoTransfer, NoChunk, Loading
    <3>3. \A g \in Handles : g # h => transfer'[g] = transfer[g]
      BY <2>4 DEF Enter, LoadSize, Leave, GiveUp, UserTypes
    <3>. QED  BY <2>1, <3>1, <3>2, <3>3 DEF openVars
  <2>5. ASSUME NEW s \in Sides, NEW n \in Counts, Begin(h, s, n) PROVE OpenInv'
    BY <2>1, <2>5 DEF Begin, openVars
  <2>6. ASSUME NEW s \in Sides, NEW f \in Fields, NEW v \in Inputs[f], Ioctl(h, s, f, v)
        PROVE  OpenInv'
    BY <2>1, <2>6 DEF Ioctl, openVars
  <2>. QED  BY <1>4, <2>2, <2>3, <2>4, <2>5, <2>6 DEF UserStep
<1>5. ASSUME NEW s \in Sides, NEW f \in Fields, NEW v \in Inputs[f], SysfsStore(s, f, v)
      PROVE  OpenInv'
  BY <1>5 DEF SysfsStore, driverVars, userVars, openVars
<1>6. CASE UNCHANGED lifeVars
  BY <1>6 DEF lifeVars, driverVars, userVars, openVars
<1>. QED  BY <1>1, <1>2, <1>3, <1>4, <1>5, <1>6 DEF LifeNext

-----------------------------------------------------------------------------
(* The invariants so far, together. *)
LifeInv == StageInv /\ UserTypes /\ TransfersOK /\ OpenInv

(* They hold in every state. *)
LEMMA LifeInvariant == LifeSpec => []LifeInv
<1>1. LifeInit => LifeInv
  <2> SUFFICES ASSUME LifeInit PROVE LifeInv
    OBVIOUS
  <2>1. StageInv /\ OpenInv
    BY DEF LifeInit, StageInv, OpenInv
  <2>2. UserTypes /\ TransfersOK
    BY Nothing DEF LifeInit, UserTypes, TransfersOK, InTransfer
  <2>. QED  BY <2>1, <2>2 DEF LifeInv
<1>2. LifeInv /\ [LifeNext]_lifeVars => LifeInv'
  BY StageSteps, TypeSteps, OpenSteps DEF LifeInv
<1>. QED  BY <1>1, <1>2, PTL DEF LifeSpec

(* Every variable keeps its type, and the place stays inside its order.    *)
THEOREM LifeTypes == LifeSpec => []LifeTypeOK
<1>1. LifeInv => LifeTypeOK
  <2> SUFFICES ASSUME LifeInv PROVE LifeTypeOK
    OBVIOUS
  <2>1. at \in CASE stage = "acquire" -> DOMAIN ProbeOrder
                 [] stage = "undo" -> DOMAIN LabelOrder
                 [] stage = "publish" -> DOMAIN PublishOrder
                 [] stage = "remove" -> DOMAIN RemoveOrder
                 [] OTHER -> {1}
    BY Lengths DEF LifeInv, StageInv, Acquiring, Undoing, Publishing, Oopsed, Bound, Removing
  <2>2. held \in SUBSET (Resources \cup Published)
    <3>1. CASE stage = "acquire"
      BY <3>1, AllResources, Lengths DEF LifeInv, StageInv, Acquiring, Behind, ProbeOrder
    <3>2. CASE stage = "undo"
      BY <3>2, AllResources, Lengths DEF LifeInv, StageInv, Undoing, Ahead, LabelOrder
    <3>3. CASE stage = "remove"
      BY <3>3 DEF LifeInv, StageInv, Removing
    <3>4. CASE stage \in {"unbound", "publish", "oops", "bound"}
      BY <3>4, AllResources DEF LifeInv, StageInv, Publishing, Oopsed, Bound, Published
    <3>. QED  BY <3>1, <3>2, <3>3, <3>4 DEF LifeInv, StageInv
  <2>3. ready \in SUBSET {PublishOrder[i] : i \in DOMAIN PublishOrder}
    BY Lengths DEF LifeInv, StageInv, Acquiring, Undoing, Publishing, Oopsed, Bound, Removing, Behind
  <2>4. orphans \in SUBSET opened
    BY DEF LifeInv, OpenInv
  <2>. QED  BY <2>1, <2>2, <2>3, <2>4 DEF LifeInv, StageInv, UserTypes, Transfers, LifeTypeOK
<1>. QED  BY <1>1, LifeInvariant, PTL

(* Who uses the driver finds its state, buffers and windows, a file whose  *)
(* device was unbound under it excepted.                                   *)
THEOREM LifeUsersFindDriver == LifeSpec => []UsersFindDriver
<1>1. LifeInv => UsersFindDriver
  <2> SUFFICES ASSUME StageInv, OpenInv PROVE UsersFindDriver
    BY DEF LifeInv
  <2>1. ASSUME NEW h \in opened \ orphans, InTransfer(h)
        PROVE  /\ priv = "live" /\ Resources \subseteq held
               /\ {"completions", "mutexes"} \subseteq ready \/ stage = "publish"
    <3>1. stage \in {"publish", "bound"} /\ "node" \in held
      BY <2>1 DEF OpenInv
    <3>2. CASE stage = "bound"
      BY <3>2 DEF StageInv, Bound, Behind, PublishOrder
    <3>3. CASE stage = "publish"
      <4>1. "node" \in Behind(PublishOrder, at) /\ at \in 1..9
        BY <3>1, <3>3, AllResources DEF StageInv, Publishing
      <4>2. at > 2
        BY <4>1 DEF Behind, PublishOrder
      <4>. QED  BY <3>3, <4>2 DEF StageInv, Publishing
    <3>. QED  BY <3>1, <3>2, <3>3
  <2>2. ASSUME "attributes" \in held PROVE priv = "live" /\ "csr" \in held
    <3>1. stage \in {"publish", "bound", "remove"}
      BY <2>2, Lengths, AllResources
         DEF StageInv, Acquiring, Undoing, Oopsed, Behind, Ahead, ProbeOrder, LabelOrder
    <3>2. CASE stage = "bound"
      BY <3>2, AllResources DEF StageInv, Bound
    <3>3. CASE stage = "publish"
      <4>1. "attributes" \in Behind(PublishOrder, at) /\ at \in 1..9
        BY <2>2, <3>3, AllResources DEF StageInv, Publishing
      <4>2. at > 2
        BY <4>1 DEF Behind, PublishOrder
      <4>. QED  BY <3>3, <4>2, AllResources DEF StageInv, Publishing
    <3>4. CASE stage = "remove"
      <4>1. at = 1
        BY <2>2, <3>4, Lengths DEF StageInv, Removing, Ahead, RemoveOrder
      <4>. QED  BY <3>4, <4>1, AllResources DEF StageInv, Removing
    <3>. QED  BY <3>1, <3>2, <3>3, <3>4
  <2>. QED  BY <2>1, <2>2 DEF UsersFindDriver
<1>. QED  BY <1>1, LifeInvariant, PTL

(* The interrupt handler finds the state once probe has published it.      *)
THEOREM LifeHandlerFindsDriver == LifeSpec => []HandlerFindsDriver
<1>1. LifeInv => HandlerFindsDriver
  <2> SUFFICES ASSUME StageInv, "irq" \in held, stage \notin {"acquire", "undo"},
                      ~(stage = "publish" /\ "priv" \notin ready)
               PROVE  priv = "live" /\ {"dev", "csr"} \subseteq held
    BY DEF LifeInv, HandlerFindsDriver
  <2>1. stage \in {"publish", "oops", "bound", "remove"}
    BY DEF StageInv
  <2>2. CASE stage \in {"oops", "bound"}
    BY <2>2, AllResources DEF StageInv, Oopsed, Bound
  <2>3. CASE stage = "publish"
    <3>1. "priv" \in Behind(PublishOrder, at) /\ at \in 1..9
      BY <2>3 DEF StageInv, Publishing
    <3>2. at > 2
      BY <3>1 DEF Behind, PublishOrder
    <3>. QED  BY <2>3, <3>2, AllResources DEF StageInv, Publishing
  <2>4. CASE stage = "remove"
    <3>1. at \in 1..6
      BY <2>4, Lengths DEF StageInv, Removing, Ahead, RemoveOrder
    <3>2. {"dev", "csr"} \subseteq Ahead(RemoveOrder, at)
      BY <3>1, Lengths DEF Ahead, RemoveOrder
    <3>. QED  BY <2>4, <3>1, <3>2, AllResources DEF StageInv, Removing
  <2>. QED  BY <2>1, <2>2, <2>3, <2>4
<1>. QED  BY <1>1, LifeInvariant, PTL

(* After any failures and removals, at most vectors, a number and a cdev   *)
(* are left.                                                               *)
THEOREM LifeLeftBehind == LifeSpec => []LeftBehind
<1>1. LifeInv => LeftBehind
  BY DEF LifeInv, StageInv, LeftBehind
<1>. QED  BY <1>1, LifeInvariant, PTL

(* The labels undo in reverse order, but for the vectors and a refused     *)
(* interrupt.                                                              *)
THEOREM LifeUndoIsReverse == LifeSpec => []UndoIsReverse
<1>1. LifeInv => UndoIsReverse
  <2> DEFINE r == LabelOrder[at]
  <2> SUFFICES ASSUME StageInv, stage = "undo"
               PROVE  /\ r \in held \/ (r = "irq" /\ "vectors" \in held)
                      /\ held \ {"vectors"} \subseteq {LabelOrder[i] : i \in at..Len(LabelOrder)}
    BY DEF LifeInv, UndoIsReverse
  <2>1. r \in Ahead(LabelOrder, at) /\ at \in 1..8
    BY Lengths DEF StageInv, Undoing, Ahead
  <2>2. r = "irq" => at = 6
    BY <2>1 DEF LabelOrder
  <2>. QED  BY <2>1, <2>2 DEF StageInv, Undoing, Ahead
<1>. QED  BY <1>1, LifeInvariant, PTL

-----------------------------------------------------------------------------
(* The driver has its defaults only while it is published or bound, so     *)
(* nothing zeroes the settings behind them.                                *)
SettingsOK ==
    "defaults" \in ready => \A s \in Sides :
        settings[s].size \in 1..WIN_SIZE /\ settings[s].timeout # 0

(* What sysfs and open keep in range. *)
LEMMA RangeSteps ==
    ASSUME LifeInv, SettingsOK, SysfsKeepsRanges, [LifeNext]_lifeVars
    PROVE  SettingsOK' /\ SysfsKeepsRanges'
<1> USE DEF SettingsOK, SysfsKeepsRanges, LifeInv, UserTypes
<1>1. CASE Bind \/ AcquireFails \/ Undo \/ PublishFails \/ Oops \/ Remove \/ Unload \/ Unbind
  <2>1. UNCHANGED <<settings, opened, early, file, raw>>
    BY <1>1 DEF Bind, Unload, Unbind, AcquireFails, Undo, PublishFails, Oops, Remove, userVars,
                openVars
  <2>2. "defaults" \in ready' => "defaults" \in ready
    BY <1>1 DEF Bind, Unload, Unbind, AcquireFails, Undo, PublishFails, Oops, Remove, GiveBack,
                Published
  <2>. QED  BY <2>1, <2>2
<1>2. CASE Acquire
  <2>1. ready' = {} /\ UNCHANGED userVars
    BY <1>2 DEF Acquire, InStage, StageInv, Acquiring
  <2>. QED  BY <2>1 DEF userVars, openVars
<1>3. CASE Publish
  <2>1. UNCHANGED userVars
    BY <1>3 DEF Publish
  <2>2. \A s \in Sides : Defaults[s].size \in 1..WIN_SIZE /\ Defaults[s].timeout # 0
    BY DriverAssumption DEF Defaults
  <2>3. CASE PublishOrder[at] = "defaults"
    BY <1>3, <2>1, <2>2, <2>3 DEF Publish, userVars, openVars
  <2>4. CASE PublishOrder[at] # "defaults"
    BY <1>3, <2>1, <2>4 DEF Publish, userVars, openVars
  <2>. QED  BY <2>3, <2>4
<1>7. CASE Reboot
  BY <1>7 DEF Reboot
<1>4. ASSUME NEW t \in Sides, NEW f \in Fields, NEW v \in Inputs[f], SysfsStore(t, f, v)
      PROVE  SettingsOK' /\ SysfsKeepsRanges'
  <2>1. v \in Nat
    BY DriverAssumption
  <2>2. settings' = [settings EXCEPT ![t][f] = Stored(f, v)] /\ UNCHANGED <<ready, userVars>>
    BY <1>4 DEF SysfsStore, driverVars
  <2>3. f = "size" => Stored(f, v) \in 1..WIN_SIZE
    BY <2>1, StoredFits
  <2>4. f = "timeout" => Stored(f, v) # 0
    BY <1>4, <2>1, StoredFits DEF SysfsStore
  <2>5. ASSUME NEW s \in Sides, settings[s].size \in 1..WIN_SIZE /\ settings[s].timeout # 0
        PROVE  settings'[s].size \in 1..WIN_SIZE /\ settings'[s].timeout # 0
    <3>1. settings[s] \in [addr : Nat, size : 0..WIN_SIZE, timeout : Int]
      OBVIOUS
    <3>. QED  BY <2>2, <2>3, <2>4, <2>5, <3>1 DEF Fields
  <2>. QED  BY <2>2, <2>5 DEF userVars, openVars
<1>5. ASSUME NEW h \in Handles, UserStep(h) PROVE SettingsOK' /\ SysfsKeepsRanges'
  <2>1. UNCHANGED <<settings, ready>>
    BY <1>5 DEF UserStep, Open, Release, Enter, LoadSize, Leave, GiveUp, Begin, Ioctl, driverVars
  <2>2. CASE Open(h)
    BY <2>1, <2>2 DEF Open
  <2>3. CASE Release(h)
    BY <2>1, <2>3 DEF Release
  <2>4. CASE Enter(h) \/ LoadSize(h) \/ Leave(h) \/ GiveUp(h)
    BY <2>1, <2>4 DEF Enter, LoadSize, Leave, GiveUp, openVars
  <2>5. ASSUME NEW s \in Sides, NEW n \in Counts, Begin(h, s, n)
        PROVE  SettingsOK' /\ SysfsKeepsRanges'
    BY <2>1, <2>5 DEF Begin, openVars
  <2>6. ASSUME NEW t \in Sides, NEW f \in Fields, NEW v \in Inputs[f], Ioctl(h, t, f, v)
        PROVE  SettingsOK' /\ SysfsKeepsRanges'
    <3>1. /\ file' = [file EXCEPT ![h][t][f] = Cut(f, v)]
          /\ raw' = [raw EXCEPT ![h] = @ \cup {<<t, f>>}]
          /\ UNCHANGED <<opened, early>>
      BY <2>6 DEF Ioctl, openVars
    <3>2. ASSUME NEW g \in Handles, NEW s \in Sides, NEW k \in {"size", "timeout"},
                 <<s, k>> \notin raw'[g]
          PROVE  <<s, k>> \notin raw[g] /\ file'[g][s][k] = file[g][s][k]
      <4>1. file[g][s] \in [addr : Nat, size : 0..U32 - 1, timeout : Int]
        OBVIOUS
      <4>2. CASE g # h
        BY <3>1, <3>2, <4>2
      <4>3. CASE g = h
        BY <3>1, <3>2, <4>1, <4>3 DEF Fields
      <4>. QED  BY <4>2, <4>3
    <3>. QED  BY <2>1, <3>1, <3>2
  <2>. QED  BY <1>5, <2>2, <2>3, <2>4, <2>5, <2>6 DEF UserStep
<1>6. CASE UNCHANGED lifeVars
  BY <1>6 DEF lifeVars, driverVars, userVars, openVars
<1>. QED  BY <1>1, <1>2, <1>3, <1>4, <1>5, <1>6, <1>7 DEF LifeNext, DriverStep

(* However sysfs, open and ioctl interleave, a file that found the         *)
(* defaults keeps sizes and timeouts in range in the fields its own ioctl  *)
(* has not set.                                                            *)
THEOREM LifeSysfsKeepsRanges == LifeSpec => []SysfsKeepsRanges
<1>1. LifeInit => SettingsOK /\ SysfsKeepsRanges
  BY DEF LifeInit, SettingsOK, SysfsKeepsRanges
<1>2. LifeInv /\ SettingsOK /\ SysfsKeepsRanges /\ [LifeNext]_lifeVars
        => SettingsOK' /\ SysfsKeepsRanges'
  BY RangeSteps
<1>. QED  BY <1>1, <1>2, LifeInvariant, PTL DEF LifeSpec

-----------------------------------------------------------------------------
(* Who is in a chunk holds the mutex of its side. *)
ChunkHoldsLock ==
    ~disturbed => \A h \in Handles : InChunk(h) => lock[transfer[h].side] = h

(* Every step keeps it; initialising the mutexes inside a chunk ends it. *)
LEMMA LockSteps ==
    ASSUME LifeInv, ChunkHoldsLock, [LifeNext]_lifeVars
    PROVE  ChunkHoldsLock'
<1> USE DEF ChunkHoldsLock, InChunk, LifeInv, UserTypes, TransfersOK
<1>1. CASE \/ Bind \/ Acquire \/ AcquireFails \/ Undo \/ PublishFails \/ Oops \/ Remove \/ Unload
           \/ Unbind
  BY <1>1 DEF Bind, Acquire, Unload, Unbind, AcquireFails, Undo, PublishFails, Oops, Remove,
              userVars, lockVars
<1>6. CASE Reboot
  BY <1>6 DEF Reboot, NoTransfer
<1>2. CASE Publish
  BY <1>2 DEF Publish, userVars
<1>3. ASSUME NEW s \in Sides, NEW f \in Fields, NEW v \in Inputs[f], SysfsStore(s, f, v)
      PROVE  ChunkHoldsLock'
  BY <1>3 DEF SysfsStore, userVars, lockVars
<1>4. ASSUME NEW h \in Handles, UserStep(h) PROVE ChunkHoldsLock'
  <2>1. CASE Open(h) \/ Release(h)
    BY <2>1 DEF Open, Release, lockVars
  <2>2. CASE Enter(h)
    <3>1. /\ lock[transfer[h].side] = Nobody /\ lock' = [lock EXCEPT ![transfer[h].side] = h]
          /\ transfer[h].side \in Sides /\ UNCHANGED disturbed
      BY <2>2 DEF Enter
    <3>2. \A g \in Handles : g # h => transfer'[g] = transfer[g]
      BY <2>2 DEF Enter
    <3>3. transfer'[h].side = transfer[h].side
      BY <2>2 DEF Enter, Transfers
    <3>. QED  BY <3>1, <3>2, <3>3, DriverAssumption
  <2>7. CASE LoadSize(h)
    <3>1. transfer[h].chunk # NoChunk /\ UNCHANGED lockVars
      BY <2>7 DEF LoadSize, NoChunk, Loading
    <3>2. transfer'[h].side = transfer[h].side
      BY <2>7 DEF LoadSize, Transfers
    <3>3. \A g \in Handles : g # h => transfer'[g] = transfer[g]
      BY <2>7 DEF LoadSize
    <3>. QED  BY <3>1, <3>2, <3>3 DEF lockVars
  <2>3. CASE Leave(h)
    <3>1. /\ lock' = [lock EXCEPT ![transfer[h].side] = Nobody] /\ UNCHANGED disturbed
          /\ InChunk(h) /\ transfer[h].side \in Sides
      BY <2>3 DEF Leave, InTransfer, NoTransfer
    <3>2. \A g \in Handles : g # h => transfer'[g] = transfer[g]
      BY <2>3 DEF Leave
    <3>3. transfer'[h].chunk = NoChunk
      <4>1. transfer[h] \in Transfers
        OBVIOUS
      <4>2. \/ transfer'[h] = NoTransfer
            \/ transfer'[h] = [transfer[h] EXCEPT
                                 !.left = (transfer[h].left - transfer[h].chunk) % U64,
                                 !.chunk = NoChunk]
        BY <2>3 DEF Leave
      <4>. QED  BY <4>1, <4>2, Nothing DEF Transfers
    <3>4. ASSUME NEW g \in Handles, ~disturbed, transfer'[g].chunk # NoChunk
          PROVE  lock'[transfer'[g].side] = g
      <4>1. g # h /\ transfer'[g] = transfer[g] /\ lock[transfer[g].side] = g
        BY <3>2, <3>3, <3>4
      <4>2. lock[transfer[h].side] = h
        BY <3>1, <3>4
      <4>3. transfer[g].side # transfer[h].side
        BY <4>1, <4>2
      <4>4. transfer[g].side \in Sides
        BY <3>4, <4>1 DEF InTransfer, NoTransfer
      <4>. QED  BY <3>1, <4>1, <4>3, <4>4
    <3>. QED  BY <3>1, <3>4
  <2>4. CASE GiveUp(h)
    BY <2>4 DEF GiveUp, lockVars, NoTransfer
  <2>5. ASSUME NEW s \in Sides, NEW n \in Counts, Begin(h, s, n) PROVE ChunkHoldsLock'
    BY <2>5 DEF Begin, lockVars
  <2>6. ASSUME NEW s \in Sides, NEW f \in Fields, NEW v \in Inputs[f], Ioctl(h, s, f, v)
        PROVE  ChunkHoldsLock'
    BY <2>6 DEF Ioctl, lockVars
  <2>. QED  BY <1>4, <2>1, <2>2, <2>3, <2>4, <2>5, <2>6, <2>7 DEF UserStep
<1>5. CASE UNCHANGED lifeVars
  BY <1>5 DEF lifeVars, userVars, lockVars
<1>. QED  BY <1>1, <1>2, <1>3, <1>4, <1>5, <1>6 DEF LifeNext, DriverStep

(* The chunks of a side exclude each other, until probe initialises a      *)
(* mutex that is held.                                                     *)
THEOREM LifeOneChunkPerSide == LifeSpec => []OneChunkPerSide
<1>1. LifeInit => ChunkHoldsLock
  BY DEF LifeInit, ChunkHoldsLock, InChunk, NoTransfer
<1>2. LifeInv /\ ChunkHoldsLock /\ [LifeNext]_lifeVars => ChunkHoldsLock'
  BY LockSteps
<1>3. ChunkHoldsLock => OneChunkPerSide
  BY DEF ChunkHoldsLock, OneChunkPerSide
<1>. QED  BY <1>1, <1>2, <1>3, LifeInvariant, PTL DEF LifeSpec

-----------------------------------------------------------------------------
(* What bounds a chunk while the owner of the file leaves its size alone:  *)
(* the file's size fits the window, and so does the chunk; and a size that *)
(* was found not to exceed what is left stays there for the second load.   *)
FileFits ==
    \A h \in Handles, s \in Sides : <<s, "size">> \notin raw[h] => file[h][s].size <= WIN_SIZE

LoadFits ==
    \A h \in Handles : transfer[h].chunk = Loading /\ <<transfer[h].side, "size">> \notin raw[h]
        => file[h][transfer[h].side].size <= transfer[h].left

ChunkInv == FileFits /\ LoadFits /\ ChunkFitsBuffers

(* One file changes, with its transfer or its settings. *)
LEMMA ChunkChanges ==
    ASSUME LifeInv, ChunkInv, NEW h \in Handles,
           \A g \in Handles : g # h => file'[g] = file[g] /\ raw'[g] = raw[g]
                                         /\ transfer'[g] = transfer[g],
           \A s \in Sides : <<s, "size">> \notin raw'[h] => file'[h][s].size <= WIN_SIZE,
           transfer'[h].chunk = Loading /\ <<transfer'[h].side, "size">> \notin raw'[h]
             => file'[h][transfer'[h].side].size <= transfer'[h].left,
           transfer'[h] # NoTransfer /\ <<transfer'[h].side, "size">> \notin raw'[h]
             => transfer'[h].chunk <= WIN_SIZE /\ transfer'[h].chunk <= transfer'[h].left
    PROVE  ChunkInv'
<1>1. FileFits'
  BY DEF ChunkInv, FileFits
<1>2. LoadFits'
  BY DEF ChunkInv, LoadFits
<1>3. ChunkFitsBuffers'
  BY DEF ChunkInv, ChunkFitsBuffers, InTransfer
<1>. QED  BY <1>1, <1>2, <1>3 DEF ChunkInv

(* Every step of a user keeps the bounds. *)
LEMMA ChunkUsers ==
    ASSUME LifeInv, ChunkInv, NEW h \in Handles, UserStep(h)
    PROVE  ChunkInv'
<1> USE DEF LifeInv, UserTypes
<1>a. /\ transfer[h] \in Transfers
      /\ InTransfer(h) => transfer[h].side \in Sides
  BY DEF TransfersOK
<1>b. /\ \A s \in Sides : <<s, "size">> \notin raw[h] => file[h][s].size <= WIN_SIZE
      /\ transfer[h].chunk = Loading /\ <<transfer[h].side, "size">> \notin raw[h]
           => file[h][transfer[h].side].size <= transfer[h].left
      /\ transfer[h] # NoTransfer /\ <<transfer[h].side, "size">> \notin raw[h]
           => transfer[h].chunk <= WIN_SIZE /\ transfer[h].chunk <= transfer[h].left
  BY DEF ChunkInv, FileFits, LoadFits, ChunkFitsBuffers, InTransfer
<1>c. /\ WIN_SIZE \in Nat \ {0} /\ U64 \in Nat \ {0}
      /\ NoTransfer.chunk # Loading /\ NoChunk # Loading
      /\ NoChunk <= WIN_SIZE /\ \A n \in Nat : NoChunk <= n /\ Loading <= n
      /\ Loading <= WIN_SIZE
  BY DriverAssumption DEF NoTransfer, NoChunk, Loading
<1>d. \A s \in Sides : file[h][s].size \in Nat
  <2>1. \A s \in Sides : file[h][s] \in [addr : Nat, size : 0..U32 - 1, timeout : Int]
    OBVIOUS
  <2>. QED  BY <2>1, DriverAssumption
<1>1. CASE Open(h) \/ Release(h)
  <2>1. /\ \A g \in Handles : g # h => file'[g] = file[g] /\ raw'[g] = raw[g]
        /\ UNCHANGED transfer
        /\ transfer[h] = NoTransfer
    BY <1>1 DEF Open, Release, InTransfer, OpenInv
  <2>2. \A s \in Sides : file'[h][s].size <= WIN_SIZE
    <3>1. \A s \in Sides : settings[s] \in [addr : Nat, size : 0..WIN_SIZE, timeout : Int]
      OBVIOUS
    <3>2. \A s \in Sides : Zeroed[s] \in [addr : Nat, size : 0..WIN_SIZE, timeout : Int]
      BY Nothing
    <3>3. file'[h] = settings \/ file'[h] = Zeroed
      BY <1>1 DEF Open, Release
    <3>. QED  BY <1>c, <3>1, <3>2, <3>3
  <2>. QED  BY <1>c, <2>1, <2>2, ChunkChanges
<1>2. CASE Enter(h)
  <2> DEFINE size == file[h][transfer[h].side].size
  <2>1. /\ transfer'[h] = [transfer[h] EXCEPT
                             !.chunk = IF transfer[h].left < size THEN transfer[h].left ELSE Loading]
        /\ \A g \in Handles : g # h => transfer'[g] = transfer[g]
        /\ UNCHANGED <<file, raw>>
        /\ transfer[h].side \in Sides /\ transfer[h].left \in Nat
    BY <1>2, <1>a, DriverAssumption DEF Enter, Transfers
  <2>2. size \in Nat /\ (<<transfer[h].side, "size">> \notin raw[h] => size <= WIN_SIZE)
    BY <1>b, <1>d, <2>1
  <2> HIDE DEF size
  <2>3. transfer'[h].side = transfer[h].side /\ transfer'[h].left = transfer[h].left
    BY <1>a, <2>1 DEF Transfers
  <2>4. transfer'[h].chunk = IF transfer[h].left < size THEN transfer[h].left ELSE Loading
    BY <1>a, <2>1 DEF Transfers
  <2>5. transfer'[h].chunk = Loading => size <= transfer[h].left
    BY <2>1, <2>2, <2>4 DEF Loading
  <2>6. <<transfer[h].side, "size">> \notin raw[h]
          => transfer'[h].chunk <= WIN_SIZE /\ transfer'[h].chunk <= transfer[h].left
    BY <1>c, <2>1, <2>2, <2>4
  <2>. QED  BY <1>b, <2>1, <2>3, <2>5, <2>6, ChunkChanges DEF size
<1>3. CASE LoadSize(h)
  <2> DEFINE size == file[h][transfer[h].side].size
  <2>1. /\ transfer'[h] = [transfer[h] EXCEPT !.chunk = size]
        /\ \A g \in Handles : g # h => transfer'[g] = transfer[g]
        /\ UNCHANGED <<file, raw>>
        /\ transfer[h].chunk = Loading
    BY <1>3 DEF LoadSize
  <2>2. transfer[h].side \in Sides
    BY <1>a, <1>c, <2>1 DEF InTransfer
  <2>3. /\ size \in Nat
        /\ <<transfer[h].side, "size">> \notin raw[h]
             => size <= WIN_SIZE /\ size <= transfer[h].left
    BY <1>b, <1>d, <2>1, <2>2
  <2> HIDE DEF size
  <2>4. /\ transfer'[h].side = transfer[h].side /\ transfer'[h].left = transfer[h].left
        /\ transfer'[h].chunk = size
    BY <1>a, <2>1 DEF Transfers
  <2>5. size # Loading
    BY <2>3 DEF Loading
  <2>. QED  BY <1>b, <2>1, <2>3, <2>4, <2>5, ChunkChanges
<1>4. CASE Leave(h) \/ GiveUp(h)
  <2> DEFINE rest == (transfer[h].left - transfer[h].chunk) % U64
  <2>1. /\ \A g \in Handles : g # h => transfer'[g] = transfer[g]
        /\ UNCHANGED <<file, raw>>
        /\ \/ transfer'[h] = NoTransfer
           \/ transfer'[h] = [transfer[h] EXCEPT !.left = rest, !.chunk = NoChunk]
    BY <1>4 DEF Leave, GiveUp
  <2>2. rest \in Nat
    <3>1. transfer[h].left \in Int /\ transfer[h].chunk \in Int
      BY <1>a, DriverAssumption DEF Transfers, NoChunk, Loading
    <3>. QED  BY <1>c, <3>1
  <2> HIDE DEF rest
  <2>3. CASE transfer'[h] = NoTransfer
    BY <1>b, <1>c, <2>1, <2>3, ChunkChanges
  <2>4. CASE transfer'[h] = [transfer[h] EXCEPT !.left = rest, !.chunk = NoChunk]
    <3>1. transfer'[h].chunk = NoChunk /\ transfer'[h].left = rest
      BY <1>a, <2>4 DEF Transfers
    <3>. QED  BY <1>b, <1>c, <2>1, <2>2, <3>1, ChunkChanges
  <2>. QED  BY <2>1, <2>3, <2>4
<1>5. ASSUME NEW s \in Sides, NEW n \in Counts, Begin(h, s, n) PROVE ChunkInv'
  <2>1. /\ transfer'[h] = [side |-> s, left |-> n, chunk |-> NoChunk]
        /\ \A g \in Handles : g # h => transfer'[g] = transfer[g]
        /\ UNCHANGED <<file, raw>>
        /\ n \in Nat
    BY <1>5, DriverAssumption DEF Begin
  <2>2. transfer'[h].chunk = NoChunk /\ transfer'[h].left = n
    BY <2>1
  <2>. QED  BY <1>b, <1>c, <2>1, <2>2, ChunkChanges
<1>6. ASSUME NEW t \in Sides, NEW f \in Fields, NEW v \in Inputs[f], Ioctl(h, t, f, v)
      PROVE  ChunkInv'
  <2>1. /\ file' = [file EXCEPT ![h][t][f] = Cut(f, v)]
        /\ raw' = [raw EXCEPT ![h] = @ \cup {<<t, f>>}]
        /\ UNCHANGED transfer
    BY <1>6 DEF Ioctl
  <2>2. ASSUME NEW s \in Sides, <<s, "size">> \notin raw'[h]
        PROVE  <<s, "size">> \notin raw[h] /\ file'[h][s].size = file[h][s].size
    <3>1. file[h][s] \in [addr : Nat, size : 0..U32 - 1, timeout : Int]
      OBVIOUS
    <3>. QED  BY <2>1, <2>2, <3>1 DEF Fields
  <2>3. \A g \in Handles : g # h => file'[g] = file[g] /\ raw'[g] = raw[g]
    BY <2>1
  <2>4. transfer[h].chunk = Loading => transfer[h].side \in Sides
    BY <1>a, <1>c DEF InTransfer
  <2>5. transfer[h] # NoTransfer => transfer[h].side \in Sides
    BY <1>a DEF InTransfer
  <2>. QED  BY <1>b, <2>1, <2>2, <2>3, <2>4, <2>5, ChunkChanges
<1>. QED  BY <1>1, <1>2, <1>3, <1>4, <1>5, <1>6 DEF UserStep

(* No chunk overruns a bounce buffer or a window, and none takes more than *)
(* was asked for, unless the file's own ioctl has set that side's size.    *)
THEOREM LifeChunkFitsBuffers == LifeSpec => []ChunkFitsBuffers
<1>1. LifeInit => ChunkInv
  <2> SUFFICES ASSUME LifeInit PROVE ChunkInv
    OBVIOUS
  <2>1. \A s \in Sides : Zeroed[s] \in [addr : Nat, size : 0..WIN_SIZE, timeout : Int]
    BY Nothing
  <2>2. \A s \in Sides : Zeroed[s].size <= WIN_SIZE
    BY <2>1, DriverAssumption
  <2>. QED  BY <2>2 DEF LifeInit, ChunkInv, FileFits, LoadFits, ChunkFitsBuffers, InTransfer,
                        NoTransfer, NoChunk, Loading
<1>2. LifeInv /\ ChunkInv /\ [LifeNext]_lifeVars => ChunkInv'
  <2> SUFFICES ASSUME LifeInv, ChunkInv, [LifeNext]_lifeVars PROVE ChunkInv'
    OBVIOUS
  <2>1. ASSUME NEW h \in Handles, UserStep(h) PROVE ChunkInv'
    BY <2>1, ChunkUsers
  <2>2. CASE Reboot
    <3>1. \A s \in Sides : Zeroed[s] \in [addr : Nat, size : 0..WIN_SIZE, timeout : Int]
      BY Nothing
    <3>2. \A s \in Sides : Zeroed[s].size <= WIN_SIZE
      BY <3>1, DriverAssumption
    <3>. QED  BY <2>2, <3>2 DEF Reboot, ChunkInv, FileFits, LoadFits, ChunkFitsBuffers,
                                InTransfer, NoTransfer, NoChunk, Loading
  <2>3. CASE UNCHANGED <<file, raw, transfer>>
    BY <2>3 DEF ChunkInv, FileFits, LoadFits, ChunkFitsBuffers, InTransfer
  <2>4. CASE Bind \/ Unload \/ Unbind \/ DriverStep
    BY <2>3, <2>4 DEF Bind, Unload, Unbind, DriverStep, Acquire, AcquireFails, Undo, Publish,
                      PublishFails, Oops, Remove, userVars
  <2>5. ASSUME NEW s \in Sides, NEW f \in Fields, NEW v \in Inputs[f], SysfsStore(s, f, v)
        PROVE  ChunkInv'
    BY <2>3, <2>5 DEF SysfsStore, userVars
  <2>. QED  BY <2>1, <2>2, <2>3, <2>4, <2>5 DEF LifeNext, lifeVars, userVars
<1>3. ChunkInv => ChunkFitsBuffers
  BY DEF ChunkInv
<1>. QED  BY <1>1, <1>2, <1>3, LifeInvariant, PTL DEF LifeSpec
=============================================================================
