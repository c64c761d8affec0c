---------------------------- MODULE DriverLifecycle ----------------------------
(***************************************************************************)
(* The driver from probe to remove (pcie/r04flash.c): what it acquires, in *)
(* which order it publishes itself and takes everything back; and what its *)
(* users do meanwhile: open, release, ioctl, stores to the sysfs           *)
(* attributes, and the transfers that use the settings.                    *)
(*                                                                         *)
(* Flash models one transfer in detail, with fixed settings and a driver   *)
(* that is there.  Here a transfer is only its chunks: each takes the      *)
(* mutex of its side and looks up the maximum size again.                  *)
(***************************************************************************)
EXTENDS Integers, Sequences

CONSTANTS Handles,         \* open files
          Tuners,          \* those whose owner uses ioctl
          Sides,           \* "rd", "wr"
          WIN_SIZE,
          DEFAULT_TIMEOUT, \* R04FLASH_DEFAULT_TIMEOUT_U
          U32, U64,        \* how many values a u32 and a size_t have
          Inputs,          \* for each field, the numbers users give
          Counts           \* how many bytes a transfer asks for

Fields == {"addr", "size", "timeout"}
Nobody == "nobody"

ASSUME DriverAssumption ==
    /\ Tuners \subseteq Handles
    /\ Nobody \notin Handles
    /\ Sides \subseteq {"rd", "wr"}
    /\ U32 \in Nat /\ U64 \in Nat /\ U32 <= U64
    /\ WIN_SIZE \in 1..U32 - 1
    /\ DEFAULT_TIMEOUT \in Nat \ {0} /\ 2 * DEFAULT_TIMEOUT < U32
    /\ Inputs \in [Fields -> SUBSET Nat]
    /\ Counts \subseteq 0..U64 - 1

(* What probe acquires, in this order. *)
ProbeOrder ==
    <<"device", "region", "vectors", "irq", "dev", "rd_buf", "wr_buf", "csr", "data">>

(* Mutant: the labels of the state and of a buffer are exchanged. *)
LabelsExchanged ==
    <<"csr", "wr_buf", "dev", "rd_buf", "vectors", "irq", "region", "device">>

(* What its error labels give back, in the order of the labels. *)
LabelOrder ==
    <<"csr", "wr_buf", "rd_buf", "dev", "vectors", "irq", "region", "device">>

(* How the driver publishes itself once everything is there. *)
PublishOrder ==
    <<"number", "priv", "cdev", "class", "node", "attributes", "defaults", "completions",
      "mutexes">>

(* What create_char_devs registers; it looks at no error. *)
Published == {"number", "cdev", "class", "node", "attributes"}

(* Mutant: the interrupt is freed last. *)
RemoveInterruptLast ==
    <<"attributes", "node", "class", "class_destroy", "number", "vectors", "csr", "data",
      "dev", "rd_buf", "wr_buf", "irq", "region", "device">>

(* What remove gives back, in this order.  The class is unregistered twice,*)
(* the second time in vain.                                                *)
RemoveOrder ==
    <<"attributes", "node", "class", "class_destroy", "number", "irq", "vectors", "csr",
      "data", "dev", "rd_buf", "wr_buf", "region", "device">>

VARIABLES stage,     \* "unbound", "acquire", "undo", "publish", "oops", "bound", "remove"
          at,        \* the place in the order of the stage
          held,      \* what this probe has acquired and published
          leaked,    \* what removed drivers have left registered
          priv,      \* r04flash_priv: "null", "live", "dangling"
          ready,     \* of PublishOrder: what probe has come past
          going,     \* rmmod has taken the module
          settings,  \* the settings in *r04flash_priv
          opened,    \* the files that are open
          orphans,   \* those of them whose device was unbound
          file,      \* the copy of the settings in each open file
          early,     \* files opened before the settings had their defaults
          raw,       \* side and field pairs that a file's ioctl has set
          transfer,  \* each file's read or write in progress
          lock,      \* who holds read_lock and write_lock
          disturbed  \* history: a mutex was initialised inside a chunk

driverVars == <<stage, at, held, leaked, priv, ready, going>>
openVars == <<opened, orphans, early>>
userVars == <<openVars, file, raw, transfer>>
lockVars == <<lock, disturbed>>
lifeVars == <<driverVars, settings, userVars, lockVars>>

(* What kzalloc leaves in the settings. *)
Zeroed == [s \in Sides |-> [f \in Fields |-> 0]]

Defaults == [s \in Sides |-> [addr |-> 0, size |-> WIN_SIZE, timeout |-> DEFAULT_TIMEOUT]]

NoChunk == -1
Loading == -2   \* the size has been compared and is loaded again
NoTransfer == [side |-> "none", left |-> 0, chunk |-> NoChunk]

LifeInit ==
    /\ stage = "unbound"
    /\ at = 1
    /\ held = {}
    /\ leaked = {}
    /\ priv = "null"
    /\ ready = {}
    /\ going = FALSE
    /\ settings = Zeroed
    /\ opened = {}
    /\ orphans = {}
    /\ file = [h \in Handles |-> Zeroed]
    /\ early = {}
    /\ raw = [h \in Handles |-> {}]
    /\ transfer = [h \in Handles |-> NoTransfer]
    /\ lock = [s \in Sides |-> Nobody]
    /\ disturbed = FALSE

InStage(s) == stage = s

InTransfer(h) == transfer[h] # NoTransfer

(* Between taking and releasing the mutex of its side. *)
InChunk(h) == transfer[h].chunk # NoChunk

(* The stage goes on to the next place of its order, or to another stage.  *)
Advance(order, next) ==
    IF at < Len(order) THEN at' = at + 1 /\ UNCHANGED stage
                       ELSE at' = 1 /\ stage' = next

-----------------------------------------------------------------------------
(* probe and remove. *)

(* The module is loaded, which open files prevent, or the device is        *)
(* offered to the loaded module again.                                     *)
Bind ==
    /\ InStage("unbound")
    /\ \/ opened = {} /\ priv' = "null"
       \/ ~going /\ UNCHANGED priv
    /\ stage' = "acquire"
    /\ going' = FALSE
    /\ UNCHANGED <<at, held, leaked, ready, settings, userVars, lockVars>>

(* MSI vectors that are still allocated cannot be allocated again. *)
Acquire ==
    LET r == ProbeOrder[at] IN
    /\ InStage("acquire")
    /\ r \notin held
    /\ held' = held \cup {r}
    /\ settings' = IF r = "dev" THEN Zeroed ELSE settings
    /\ Advance(ProbeOrder, "publish")
    /\ UNCHANGED <<leaked, priv, ready, going, userVars, lockVars>>

(* Mutant: a failure to map the windows leaves the registers mapped. *)
LabelKeepsCsr(r) ==
    CASE r = "region" -> "device"
      [] r = "vectors" -> "region"
      [] r = "irq" -> "irq"
      [] r = "dev" -> "vectors"
      [] r = "rd_buf" -> "dev"
      [] r = "wr_buf" -> "rd_buf"
      [] r \in {"csr", "data"} -> "wr_buf"

(* The label that a failure goes to. *)
Label(r) ==
    CASE r = "region" -> "device"
      [] r = "vectors" -> "region"
      [] r = "irq" -> "irq"
      [] r = "dev" -> "vectors"
      [] r = "rd_buf" -> "dev"
      [] r = "wr_buf" -> "rd_buf"
      [] r = "csr" -> "wr_buf"
      [] r = "data" -> "csr"

AcquireFails ==
    LET r == ProbeOrder[at] IN
    /\ InStage("acquire")
    /\ \/ r = "device" /\ stage' = "unbound" /\ at' = 1
       \/ r # "device" /\ stage' = "undo"
            /\ at' = CHOOSE i \in DOMAIN LabelOrder : LabelOrder[i] = Label(r)
    /\ UNCHANGED <<held, leaked, priv, ready, going, settings, userVars, lockVars>>

(* What stays registered where r is given back: unregister_chrdev_region   *)
(* with MINORMASK numbers does not match the one number that was           *)
(* allocated, and the state is freed with its cdev, which nobody deletes.  *)
Forgotten(r) ==
    CASE r = "number" -> {"number"}
      [] r = "dev" -> {"cdev"}
      [] OTHER -> {}

(* r04flash_priv is left as it is when its target is freed. *)
GiveBack(r) ==
    /\ held' = held \ ({r} \cup Forgotten(r))
    /\ leaked' = leaked \cup (held \cap Forgotten(r))
    /\ priv' = IF r = "dev" /\ priv = "live" THEN "dangling" ELSE priv
    /\ ready' = IF r = "dev" THEN {} ELSE ready

Undo ==
    /\ InStage("undo")
    /\ GiveBack(LabelOrder[at])
    /\ Advance(LabelOrder, "unbound")
    /\ UNCHANGED <<going, settings, userVars, lockVars>>

(* create_char_devs, then the completions and the mutexes: initialising a  *)
(* mutex frees it, whoever holds it.                                       *)
Publish ==
    LET r == PublishOrder[at] IN
    /\ InStage("publish")
    /\ r = "node" => "class" \in held
    /\ r = "attributes" => "node" \in held
    /\ priv' = IF r = "priv" THEN "live" ELSE priv
    /\ held' = held \cup ({r} \cap Published)
    /\ settings' = IF r = "defaults" THEN Defaults ELSE settings
    /\ lock' = IF r = "mutexes" THEN [s \in Sides |-> Nobody] ELSE lock
    /\ disturbed' = (disturbed \/ (r = "mutexes" /\ \E h \in Handles : InChunk(h)))
    /\ ready' = ready \cup {r}
    /\ Advance(PublishOrder, "bound")
    /\ UNCHANGED <<leaked, going, userVars>>

(* create_char_devs goes on with whatever it got: an error of              *)
(* alloc_chrdev_region leaves any number in dev_major, an error of         *)
(* class_create is refused by device_create.                               *)
PublishFails ==
    LET r == PublishOrder[at] IN
    /\ InStage("publish")
    /\ r \in Published
    /\ r = "attributes" => "node" \in held
    /\ ready' = ready \cup {r}
    /\ Advance(PublishOrder, "bound")
    /\ UNCHANGED <<held, leaked, priv, going, settings, userVars, lockVars>>

(* The error of device_create is used as the device of the attributes: the *)
(* kernel oopses inside probe, which never goes on.                        *)
Oops ==
    /\ InStage("publish")
    /\ PublishOrder[at] = "attributes" /\ "node" \notin held
    /\ stage' = "oops" /\ at' = 1
    /\ UNCHANGED <<held, leaked, priv, ready, going, settings, userVars, lockVars>>

Reboot ==
    /\ InStage("oops")
    /\ stage' = "unbound" /\ at' = 1
    /\ held' = {} /\ leaked' = {}
    /\ priv' = "null" /\ ready' = {} /\ going' = FALSE
    /\ settings' = Zeroed
    /\ opened' = {} /\ orphans' = {} /\ early' = {}
    /\ file' = [h \in Handles |-> Zeroed]
    /\ raw' = [h \in Handles |-> {}]
    /\ transfer' = [h \in Handles |-> NoTransfer]
    /\ lock' = [s \in Sides |-> Nobody]
    /\ disturbed' = FALSE

(* Mutant: the operations have no owner, so open files do not count. *)
UnloadAnyTime ==
    /\ InStage("bound")
    /\ stage' = "remove"
    /\ going' = TRUE
    /\ UNCHANGED <<at, held, leaked, priv, ready, settings, userVars, lockVars>>

(* rmmod: open files keep the module (fops.owner is THIS_MODULE), and none *)
(* can be opened once it goes.                                             *)
Unload ==
    /\ InStage("bound")
    /\ opened = {}
    /\ stage' = "remove"
    /\ going' = TRUE
    /\ UNCHANGED <<at, held, leaked, priv, ready, settings, userVars, lockVars>>

(* The device is unplugged, or taken from the driver through sysfs.  Open  *)
(* files do not prevent it, and more can be opened while the node is there.*)
Unbind ==
    /\ InStage("bound")
    /\ stage' = "remove"
    /\ orphans' = opened
    /\ UNCHANGED <<at, held, leaked, priv, ready, going, settings, opened, early, file, raw,
                   transfer, lockVars>>

Remove ==
    /\ InStage("remove")
    /\ GiveBack(RemoveOrder[at])
    /\ Advance(RemoveOrder, "unbound")
    /\ UNCHANGED <<going, settings, userVars, lockVars>>

DriverStep ==
    Acquire \/ AcquireFails \/ Undo \/ Publish \/ PublishFails \/ Oops \/ Remove

-----------------------------------------------------------------------------
(* Settings. *)

(* int x = v, for a u32 v. *)
AsInt(v) == IF 2 * v < U32 THEN v ELSE v - U32

(* Mutant: sysfs stores any number that can be parsed. *)
StoredUnchecked(f, v) ==
    CASE f = "addr" -> v
      [] f = "size" -> v
      [] f = "timeout" -> AsInt(v)

(* What a sysfs attribute stores for the number v. *)
Stored(f, v) ==
    CASE f = "addr" -> v
      [] f = "size" -> IF v \in 1..WIN_SIZE THEN v ELSE WIN_SIZE
      [] f = "timeout" -> IF v = 0 THEN DEFAULT_TIMEOUT ELSE AsInt(v)

(* *_store: a size or a timeout that is no u32 is refused. *)
SysfsStore(s, f, v) ==
    /\ "attributes" \in held
    /\ f = "addr" \/ v < U32
    /\ settings' = [settings EXCEPT ![s][f] = Stored(f, v)]
    /\ UNCHANGED <<driverVars, userVars, lockVars>>

(* kmemdup of the settings as they are. *)
Open(h) ==
    /\ {"node", "cdev"} \subseteq held
    /\ ~going
    /\ h \notin opened
    /\ opened' = opened \cup {h}
    /\ orphans' = IF stage = "remove" THEN orphans \cup {h} ELSE orphans
    /\ file' = [file EXCEPT ![h] = settings]
    /\ early' = IF "defaults" \in ready THEN early ELSE early \cup {h}
    /\ raw' = [raw EXCEPT ![h] = {}]
    /\ UNCHANGED <<driverVars, settings, transfer, lockVars>>

(* The last reference to the file goes, so no call is in progress. *)
Release(h) ==
    /\ h \in opened
    /\ ~InTransfer(h)
    /\ opened' = opened \ {h}
    /\ orphans' = orphans \ {h}
    /\ file' = [file EXCEPT ![h] = Zeroed]
    /\ early' = early \ {h}
    /\ raw' = [raw EXCEPT ![h] = {}]
    /\ UNCHANGED <<driverVars, settings, transfer, lockVars>>

(* Mutant: the size is not cut to a u32. *)
CutTimeoutOnly(f, v) ==
    CASE f = "addr" -> v
      [] f = "size" -> v
      [] f = "timeout" -> AsInt(v % U32)

(* The u64 argument, cut to the width of the field. *)
Cut(f, v) ==
    CASE f = "addr" -> v
      [] f = "size" -> v % U32
      [] f = "timeout" -> AsInt(v % U32)

(* r04flash_ioctl; another thread may be in a transfer on the same file. *)
Ioctl(h, s, f, v) ==
    /\ h \in Tuners
    /\ h \in opened
    /\ file' = [file EXCEPT ![h][s][f] = Cut(f, v)]
    /\ raw' = [raw EXCEPT ![h] = @ \cup {<<s, f>>}]
    /\ UNCHANGED <<driverVars, settings, openVars, transfer, lockVars>>

-----------------------------------------------------------------------------
(* Transfers. *)

Begin(h, s, n) ==
    /\ h \in opened
    /\ ~InTransfer(h)
    /\ n > 0
    /\ transfer' = [transfer EXCEPT ![h] = [side |-> s, left |-> n, chunk |-> NoChunk]]
    /\ UNCHANGED <<driverVars, settings, openVars, file, raw, lockVars>>

(* Mutant: the mutex is not taken. *)
EnterUnlocked(h) ==
    LET t == transfer[h] IN
    /\ InTransfer(h) /\ ~InChunk(h)
    /\ lock' = [lock EXCEPT ![t.side] = h]
    /\ transfer' = [transfer EXCEPT ![h].chunk =
                       IF t.left < file[h][t.side].size THEN t.left ELSE Loading]
    /\ UNCHANGED <<driverVars, settings, openVars, file, raw, disturbed>>

(* The mutex of the side; what is left is compared with the maximum size   *)
(* as it is now.                                                           *)
Enter(h) ==
    LET t == transfer[h] IN
    /\ InTransfer(h) /\ ~InChunk(h)
    /\ lock[t.side] = Nobody
    /\ lock' = [lock EXCEPT ![t.side] = h]
    /\ transfer' = [transfer EXCEPT ![h].chunk =
                       IF t.left < file[h][t.side].size THEN t.left ELSE Loading]
    /\ UNCHANGED <<driverVars, settings, openVars, file, raw, disturbed>>

(* The maximum size is loaded a second time: it may be another by now.     *)
LoadSize(h) ==
    /\ transfer[h].chunk = Loading
    /\ transfer' = [transfer EXCEPT ![h].chunk = file[h][transfer[h].side].size]
    /\ UNCHANGED <<driverVars, settings, openVars, file, raw, lockVars>>

(* The chunk is done, or fails and ends the transfer; count wraps where    *)
(* the chunk was larger.  Unlocking frees the mutex even when it was       *)
(* initialised in between and is another's now.                            *)
Leave(h) ==
    LET t == transfer[h]
        rest == (t.left - t.chunk) % U64 IN
    /\ InChunk(h) /\ t.chunk # Loading
    /\ lock' = [lock EXCEPT ![t.side] = Nobody]
    /\ \/ rest # 0 /\ transfer' = [transfer EXCEPT
                           ![h] = [t EXCEPT !.left = rest, !.chunk = NoChunk]]
       \/ transfer' = [transfer EXCEPT ![h] = NoTransfer]
    /\ UNCHANGED <<driverVars, settings, openVars, file, raw, disturbed>>

(* A signal while waiting for the mutex. *)
GiveUp(h) ==
    /\ InTransfer(h)
    /\ ~InChunk(h)
    /\ lock[transfer[h].side] # Nobody
    /\ transfer' = [transfer EXCEPT ![h] = NoTransfer]
    /\ UNCHANGED <<driverVars, settings, openVars, file, raw, lockVars>>

-----------------------------------------------------------------------------
UserStep(h) ==
    \/ Open(h) \/ Release(h) \/ Enter(h) \/ LoadSize(h) \/ Leave(h) \/ GiveUp(h)
    \/ \E s \in Sides, n \in Counts : Begin(h, s, n)
    \/ \E s \in Sides, f \in Fields : \E v \in Inputs[f] : Ioctl(h, s, f, v)

LifeNext ==
    \/ Bind \/ Unload \/ Unbind \/ DriverStep \/ Reboot
    \/ \E s \in Sides, f \in Fields : \E v \in Inputs[f] : SysfsStore(s, f, v)
    \/ \E h \in Handles : UserStep(h)

LifeSpec == LifeInit /\ [][LifeNext]_lifeVars

(* A kernel mutex is handed to its waiters in turn; a chunk ends, if need  *)
(* be by its timeout.                                                      *)
LifeFairness ==
    \A h \in Handles :
        SF_lifeVars(Enter(h)) /\ WF_lifeVars(LoadSize(h)) /\ WF_lifeVars(Leave(h))

FairLifeSpec == LifeSpec /\ LifeFairness
-----------------------------------------------------------------------------
Resources == {ProbeOrder[i] : i \in DOMAIN ProbeOrder}

(* Every variable holds a value the code can give it; the place is inside  *)
(* the order of the stage.                                                 *)
LifeTypeOK ==
    /\ stage \in {"unbound", "acquire", "undo", "publish", "oops", "bound", "remove"}
    /\ at \in CASE stage = "acquire" -> DOMAIN ProbeOrder
               [] stage = "undo" -> DOMAIN LabelOrder
               [] stage = "publish" -> DOMAIN PublishOrder
               [] stage = "remove" -> DOMAIN RemoveOrder
               [] OTHER -> {1}
    /\ held \in SUBSET (Resources \cup Published)
    /\ leaked \in SUBSET {"number", "cdev"}
    /\ priv \in {"null", "live", "dangling"}
    /\ ready \in SUBSET {PublishOrder[i] : i \in DOMAIN PublishOrder}
    /\ going \in BOOLEAN
    /\ settings \in [Sides -> [addr : Nat, size : 0..WIN_SIZE, timeout : Int]]
    /\ opened \in SUBSET Handles
    /\ orphans \in SUBSET opened
    /\ file \in [Handles -> [Sides -> [addr : Nat, size : 0..U32 - 1, timeout : Int]]]
    /\ early \in SUBSET Handles
    /\ raw \in [Handles -> SUBSET (Sides \X Fields)]
    /\ transfer \in [Handles -> [side : Sides \cup {"none"}, left : 0..U64 - 1,
                                  chunk : 0..U32 - 1 \cup {NoChunk, Loading}]]
    /\ lock \in [Sides -> Handles \cup {Nobody}]
    /\ disturbed \in BOOLEAN

(* Who uses the driver finds it: a file in a transfer and a store or show  *)
(* of an attribute find r04flash_priv pointing to live state, the bounce   *)
(* buffers and the two mapped windows, while the driver is probed, removed *)
(* and probed again; but not a file whose device was unbound while it was  *)
(* open, or that was opened during the unbinding: remove (642) frees the   *)
(* state and the buffers under its calls.  A transfer can meet completions *)
(* and mutexes that are not initialised only while probe has not got to    *)
(* them (610-614).                                                         *)
UsersFindDriver ==
    /\ \A h \in opened \ orphans : InTransfer(h) =>
         /\ priv = "live" /\ Resources \subseteq held
         /\ {"completions", "mutexes"} \subseteq ready \/ stage = "publish"
    /\ "attributes" \in held => priv = "live" /\ "csr" \in held

(* The interrupt handler, which reads r04flash_priv->csr, can meet missing *)
(* state only before probe has set r04flash_priv (r04flash.c:554-608) or   *)
(* when probe has failed; once it is set, and all through remove, it finds *)
(* the state and the registers for as long as the interrupt is requested.  *)
HandlerFindsDriver ==
    "irq" \in held =>
        \/ priv = "live" /\ {"dev", "csr"} \subseteq held
        \/ stage \in {"acquire", "undo"}
        \/ stage = "publish" /\ "priv" \notin ready

(* What is left when no driver is bound, after failed probes and removals  *)
(* in any number, is at most this: the vectors, where a refused            *)
(* request_irq went past the label that frees them (557, 632); the number, *)
(* which destroy_char_devs asks to give back with another count (485); and *)
(* a cdev that points into the freed state, because nothing deletes it     *)
(* (470-488, 658).                                                         *)
LeftBehind == stage = "unbound" => held \cup leaked \subseteq {"vectors", "number", "cdev"}

(* The labels give back what was acquired, in the reverse order, with two  *)
(* exceptions that the code has: the vectors go before the interrupt that  *)
(* uses them (632-634), or are forgotten; and an interrupt that            *)
(* request_irq has just refused, whose vectors are the ones forgotten, is  *)
(* freed (557, 634).                                                       *)
UndoIsReverse ==
    stage = "undo" =>
        LET r == LabelOrder[at] IN
        /\ r \in held \/ (r = "irq" /\ "vectors" \in held)
        /\ held \ {"vectors"} \subseteq {LabelOrder[i] : i \in at..Len(LabelOrder)}

(* A file opened after the defaults has sizes that fit the windows and the *)
(* bounce buffers and waits that are not zero, in every field that its own *)
(* ioctl has not set: however sysfs numbers, open and ioctl interleave.    *)
(* A sysfs timeout of 2^31 or more is a negative one.                      *)
SysfsKeepsRanges ==
    \A h \in opened \ early :
        \A s \in Sides :
            /\ <<s, "size">> \notin raw[h] => file[h][s].size \in 1..WIN_SIZE
            /\ <<s, "timeout">> \notin raw[h] => file[h][s].timeout # 0

(* A chunk fits the bounce buffers and the windows, and is no more than    *)
(* the caller asked for, unless the file's own ioctl has set the size of   *)
(* that side (437, 446): then it may be any u32, also one that was set     *)
(* between the two loads of line 308 or 376.                               *)
ChunkFitsBuffers ==
    \A h \in Handles : InTransfer(h) /\ <<transfer[h].side, "size">> \notin raw[h] =>
        transfer[h].chunk <= WIN_SIZE /\ transfer[h].chunk <= transfer[h].left

(* Two transfers are never in chunks of the same side at the same time,    *)
(* which would mix their descriptors and buffers, unless probe initialised *)
(* the mutexes (613-614) while a file that was opened early, or is left    *)
(* from a device that was unbound, was in a chunk.                         *)
OneChunkPerSide ==
    ~disturbed => \A g, h \in Handles :
        g # h /\ InChunk(g) /\ InChunk(h) => transfer[g].side # transfer[h].side

(* Every transfer of a file that still has its device ends, except one     *)
(* that goes on with empty chunks or takes more than is left, so that      *)
(* count wraps; and that only happens to a file that was opened before the *)
(* settings had their defaults (the node is there since 242, the defaults  *)
(* since 258; empty chunks only) or whose own ioctl has set the size,      *)
(* without the check that sysfs makes (437, 446).                          *)
TransferEnds ==
    \A h \in Handles : InTransfer(h) ~>
        \/ ~InTransfer(h)
        \/ h \in orphans
        \/ transfer[h].chunk = 0 /\ h \in early
        \/ transfer[h].chunk \notin 1..transfer[h].left /\ InChunk(h)
              /\ transfer[h].chunk # Loading /\ <<transfer[h].side, "size">> \in raw[h]
=============================================================================
