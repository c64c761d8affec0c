# A TLA+ model of the r04flash device and its driver

The repository holds a storage device made of a user-space program and a Linux
driver for it. The guest's driver and the device program share two pieces of
memory (the registers of BAR0 and the windows of BAR2) and one interrupt line.
This directory models that system, checks it with TLC and proves part of it
with TLAPS. File and line references are to `src/`.

## 1. Inventory

| Component | State | Operations | Talks to |
|---|---|---|---|
| Address lock (`pcie_device/address_lock.c`) | the locked range and the queued range of each engine, a mutex | `address_lock_rd_lock`, `_rd_unlock`, `_wr_lock`, `_wr_unlock`; polling loops | called by both engines |
| Engines (`pcie_device/pcie_dev.c`) | place in the loop, the fetched address and size | poll start and `stop_flag`, clear bits, fetch and validate the descriptor, lock, memcpy, unlock, set comp, send, exit | registers, windows, storage file, address lock, socket |
| Registers and windows (`pcie_device/bars.h`, `pcie/r04flash.h`) | `rd_ctrl`, `rd_status`, `wr_ctrl`, `wr_status`, two descriptors, two windows of `WIN_SIZE` bytes | get, set and unset of one bit: a load and a store | shared by host and device without a lock |
| QEMU device (`lab2_testdev.patch`) | the socket's unread bytes | `chr_read`: an "I" becomes an MSI | engines on one side, the guest's interrupt on the other |
| Driver calls (`pcie/r04flash.c`, read and write) | loop variables of a call, `read_lock`, `write_lock`, two bounce buffers | `r04flash_read`, `r04flash_write` | registers and windows, completions |
| Interrupt handler (`r04flash_irq`) | two completions | test and clear comp, `complete` | status bytes, waiting calls |
| Driver settings (open, release, ioctl, sysfs) | address, maximum size and timeout per direction, one copy per open file | `*_store`, `r04flash_ioctl`, `r04flash_open`, `r04flash_release` | read by the calls |
| Driver lifecycle (probe, remove) | PCI resources, interrupt, character device, `r04flash_priv` | `r04flash_probe` and its labels, `create_char_devs`, `r04flash_remove` | kernel, users, interrupt handler |
| Device process (`pcie_dev_init`, `pcie_dev_cleanup`, `dev_handle.c`, `mapped_file.c`, `socket.h`) | mapped files, thread handles, `stop_flag`, the connection, `done` | init and its error path, cleanup, `main`, the signal handler | engines, QEMU |
| `read.c`, `write.c`, `header_gen/`, build files | none | | not part of the programs |

What is hard here: the two engines and the handler change status bytes by
load-and-store with no lock between them; the lock hands ranges over through a
queue that a polling loop watches; interrupts are merged twice on their way; a
host may give up on a command that the device goes on serving; a call of several
chunks can fail in the middle; the device process may fail to start, stop or
crash and come back under a waiting host; and the driver publishes itself step by
step, so that users and interrupts can come early, and takes itself back step by
step. `PROJECT.json` lists every such hazard with the line where it bites.

What makes each component correct:

* Address lock: two holders never share a byte; a queued request is admitted;
  the two threads never poll for each other.
* Engines: only ranges inside the storage are locked and copied; comp is set
  once per command, after the data are in place; every comp leads to an
  interrupt.
* Handler: one `complete` for each comp; no comp is left behind.
* Device process: a running engine has its files and its lock; `main` waits only
  with both engines; after a signal the process ends; a restart leaves no comp bit
  behind.
* Driver lifecycle: users and the handler find the driver's state; what was
  acquired is given back; a failed probe leaves nothing.
* Settings: what a file works with is in range unless its owner said otherwise;
  two transfers never share a side; every transfer ends.
* Calls: the window and the descriptor are touched only while the engine is
  away; a call that returns its count has moved exactly those bytes; a call
  that failed says so; every call returns.

## 2. Modules

| Module | Contents | Source |
|---|---|---|
| `RangeLock` | abstract: each engine holds at most one range and no two share a byte | `bars.h:90-97` |
| `AddressLock` | the lock in full | `address_lock.c` |
| `Device` | extends `AddressLock` with the engines, registers, windows, socket and MSI | `pcie_dev.c:23-185`, `bars.h`, `lab2_testdev.patch:94-111` |
| `BlockStore` | abstract: a store whose bytes are read and written one by one by calls | what callers of `r04flash_read` and `r04flash_write` see |
| `Flash` | extends `Device` with the calls, the mutexes, the completions and the handler | `r04flash.c:273-427`, `r04flash.h` |
| `DeviceProcess` | extends `Device` with the process: init, cleanup, `main`, signals, failures, crash, restart | `pcie_dev.c:38-56, 82-86, 187-241`, `dev_handle.c`, `mapped_file.c:12-41`, `socket.h` |
| `FlashSystem` | `Flash` and `DeviceProcess` side by side, over one register file and one interrupt | both |
| `DriverLifecycle` | probe, remove, open, release, ioctl, sysfs and the chunks of transfers | `r04flash.c:56-271, 429-671`, `r04flash.h:70-97` |
| `MCAddressLock`, `MCFlash`, `MCDeviceProcess`, `MCFlashSystem`, `MCDriverLifecycle` | the sets of requests, calls and numbers of the TLC runs | |
| `AddressLockProofs`, `DeviceProofs`, `FlashProofs`, `DeviceProcessProofs`, `FlashSystemProofs`, `DriverLifecycleProofs` | theorems about the module of the same name | |
| `CompletionProofs` | extends `FlashProofs`: what holds in addition for patient hosts | |
| `BlockStoreProofs` | extends `CompletionProofs`: `Flash` implements `BlockStore` for patient hosts | |

`EXTENDS` follows the calls of the program: the lock is used by the device, the
device by the driver. `DeviceInit`, `EngineStep` and `LockInit` are parts of
`FlashInit` and `FlashNext`; that every step of the whole is one of the lock's or
leaves the lock alone is a lemma (`FlashUsesLock`), so that what is proved of the
lock holds inside the whole. `DeviceProcess` restricts the steps of
`Device` to the threads that run and adds everything around them; `FlashSystem`
interleaves it with the host's part of `Flash`. `DriverLifecycle` stands beside
them: it knows transfers only as chunks, but with settings that change and a
driver that comes and goes, which `Flash` takes as given.

### State and code

* `lock["rd"]`, `pending["rd"]` are `rd_lock`, `pending_rd`; `phase` is the place
  of a thread in its lock call; `want` is the range it asked for. The history
  variable `reinstalled` records that an unlock has installed a queued request
  whose call is over; nothing reads it but a property.
* `ctrl`, `status`, `desc`, `rd_data`, `wr_data` are BAR0 and BAR2. `status[d]` is
  the set of flags of the byte. `loaded[e]` is empty or holds the one byte an
  engine has loaded and not yet stored; `hloaded` is the same for the handler.
* `epc` is the place of an engine in its loop, `cmd` its `addr` and `size`,
  `copied` the progress of `memcpy`.
* `msgs` counts the unread "I" messages in the socket, `msi` says an MSI waits.
* `fpc` is the place of a process in `r04flash_read` or `r04flash_write`; `req` the
  arguments, with the start address from the file's settings; `pos` stands for
  all the loop variables, since `addr`, `count`, `buf` and `ret` advance together.
* `done` are the counters of the two completions, `mutex` the holders of
  `read_lock` and `write_lock`, `hpc` the place in `r04flash_irq`.
* `mpc` is the place of the process in `main`, `pcie_dev_init` or
  `pcie_dev_cleanup`; `caller` and `stt` say where cleanup returns to and with what.
  `handle` is `rd_thread` and `wr_thread`, `thread` whether the engine runs.
  `mapped` are the files in the address space and `bar2_f` the one that the field
  describes (both the registers and the windows use it, `pcie_dev.c:40, 47`).
  `wired` are the engines whose `send` can still reach QEMU, `late` those that had
  loaded `stop_flag` before it was set. `Vanish` is the end of a process: its
  memory goes, the three files stay.
* In `DriverLifecycle`, `stage` and `at` are the place in probe, its error labels,
  `create_char_devs`, or remove; the four orders list what each of them does.
  `held` is what this probe has acquired and published, `leaked` what removed drivers
  have left registered (a number, a cdev), `priv` where `r04flash_priv` points,
  `ready` how far probe has come. `orphans` are the open files whose device was
  unbound, `going` that `rmmod` has taken the module. `settings` are
  those of `*r04flash_priv`, `file[h]` the copy that `open` made for `h`. Two
  history variables, `early` and `raw`, remember which files were opened before
  the defaults and what a file's own ioctl has set; `disturbed`, that a mutex was
  initialised while a transfer held it. A chunk of `Loading` is one between the two
  loads of the maximum size (`r04flash.c:308`).

The read and the write side of the code are the same text with the names
exchanged, so most actions have the side as a parameter. Where the two differ the
action says so: the write engine sets comp before it unlocks and the read engine
after (`CopyDone`, `UnlockStorage`, `SetComp`), an address past the end is always
reported in `rd_status` (`ErrorRegister`), and only `r04flash_write` returns its
error code (`ReturnError`).

### Grain of the steps

Each access to shared memory is a step, with these exceptions, where no other
party can tell the difference:

* A descriptor address is one store and one load; its two 32-bit halves are not
  modelled. The descriptor as a whole is torn: size and address are stored and
  loaded in two steps each, in the order of the code. For addresses below 4 GiB,
  whose upper half is always zero, this is exact.
* The mutex and `reinit_completion` are one step (`LockChunk`). Whoever waits for
  the mutex does nothing else, so a late completion between the two is the same
  as one before the mutex.
* `Fill` and `CopyOut` move a chunk through the bounce buffer in one step. For
  patient hosts `HostOwnsSide` shows that the engine is away at that time, so
  the grain makes no difference. For impatient hosts the contents of windows are
  not judged.
* The two error flags are looked at in one step: size_error is never set by the
  device (`bars.h:66` promises it, no code does it), so the second load tells
  nothing new.
* A `memcpy` in the engines goes byte by byte, in ascending order.

Memory is sequentially consistent in the model. The program uses volatile and
`ioread`/`iowrite` accesses with no fence between the window and comp on the
device's side; a machine that reorders stores can do more than is checked here.

### Bounds and simplifications

* `send` blocks while `SocketCapacity` messages are unread. It never
  fails in `Device`; in `DeviceProcess`, once the connection is lost or the
  descriptor is closed, it fails (`SendFails`), succeeds for nothing (`SendLost`, as
  the first send after the peer has gone does) or kills the process (`Crash`); and a
  signal interrupts one that waits for room (`SendInterrupted`: `sigaction` is called
  without `SA_RESTART`, `dev_handle.c:32-36`).
* `chr_read` consumes any number of waiting messages and raises one MSI, since it
  looks only at the first byte (`lab2_testdev.patch:101`).
* The handler runs one round at a time, as the kernel runs it; an MSI that comes
  during the round is kept for another one.
* A process is impatient when a timeout, a signal or a bad user buffer may end
  its call: each of these is a choice of the step where the code can meet it.
* `MaxSize` is, for each side, any number: `rd_size_store` and `wr_size_store` keep it
  in 1..`WIN_SIZE` (`r04flash.c:109-111`, `174-177`), ioctl does not (`437, 446`).
  Above the window the driver copies behind its bounce buffers and the windows: what
  such a read returns is any value (`WindowByte`), what a write puts behind its
  window is dropped, and the call goes on. What the overrun does to other memory of
  the kernel is not modelled; a kernel that dies there is one that takes no more
  steps.
* `Events` names what may happen to a device process: a step of init fails, a
  signal comes, the process is killed, the connection is lost. The first three
  concern the process, the last QEMU; a new process always finds QEMU listening or
  fails in `Connect`. What QEMU has not read of a lost connection is lost with it;
  messages of a process that is gone and of its successor are one queue.
* The `memset` of the registers (`pcie_dev.c:208`) is one step. A call in progress
  may have stored its size before it and its address after it, so the descriptor
  is torn by it as in the code.
* What a failed `pthread_create` leaves in the handle is undefined: nothing, or
  something that is no thread. Joining a thread twice, or no thread, returns an
  error, which the code ignores, or kills the process: `Crash` is always possible
  there. A `stt` that was never set may be any status, `PCIE_DEV_OK` too.
* A bound driver goes by `rmmod`, which waits for open files (`Unload`), or by an
  unbind through sysfs or an unplugging, which do not (`Unbind`); both run
  `r04flash_remove`. The calls of a file that an unbind has left go on over freed
  memory in the code; in the model they only go on, and the properties that speak of
  what they find leave them out by name (`orphans`). Calls can be made on such a file
  until it is closed, also while another probe runs.
* Each call of `create_char_devs` may fail, and none is looked at (`PublishFails`):
  without a number or a cdev there is nothing to open, without a node neither. With
  an error for a device, `device_create_file` oopses (`Oops`), inside probe and with
  the device locked, so that only a restart of the machine helps (`Reboot`).
  The seven attributes are one resource, there or not. `class_unregister` and
  `class_destroy` are two steps of remove, the second for nothing; what a second
  unregistering does in the kernel is outside.
* `pci_request_region` is called with the mask as a number (`r04flash.c:533`); it is
  one resource, "region", whatever it reserves. The interrupt is the line itself:
  `free_irq` of one that was refused does nothing.
* Before the first `mutex_init` the mutexes are static zeroes, which the uncontended
  path can take; `mutex_unlock` does not look at the owner. A wait on a completion
  that is not initialised, and a mutex or completion used after an unbind, are let go
  on; `UsersFindDriver` confines them to the end of probe and to orphans.
* Numbers are `u32` modulo `U32`; an `int` is the signed half (`AsInt`). `Inputs`
  gives for each field the numbers that users try, `Counts` the bytes they ask for,
  `Tuners` the files on which ioctl is used. `U64` is how many values `count` has; it
  wraps when a chunk is larger than what is left.
* A range is locked only after `validate_descriptor`, so addresses plus sizes stay
  below the file size and 64-bit sums do not wrap.

## 3. What TLC checks

| Run | Instance | Shows |
|---|---|---|
| `AddressLock` | ranges [0,2), [1,2), [3,4) and the empty ranges at 0 and 1 | types; exclusion and refinement of `RangeLock` up to the first reinstalled request; no mutual wait; a request queued behind a holder is admitted |
| `AddressLockExclusion` | three non-empty ranges | **violated**: both threads hold a common byte |
| `AddressLockAdmission` | the same, with fairness | **violated**: a queued thread polls for ever |
| `Flash` | three bytes; a reader of the last one, a writer of three bytes from the first or two from the last, in chunks of two; socket of one message | one completion per command, the engine is away when the host works, the copies stay inside and, up to the first reinstalled request, apart; refinement of `BlockStore` |
| `FlashImpatient` | two readers on one side that may give up anywhere, with symmetry; chunks of two bytes over a window of one, the second chunk outside | types, interrupts, copies inside storage and window, while commands are replaced under the engine and the device cuts their size |
| `FlashLive` | one reader and one writer, fair | every call returns |
| `DeviceProcess` | one byte, all four events, sends that fail, are interrupted or lost, any number of restarts, fair | types; a running engine has its files and its lock; `main` loops with engines; after a signal the process ends unless an engine is stranded in the address lock |
| `FlashSystem` | one impatient reader, crashes and lost connections at any time | a serving process leaves no comp bit unannounced; every call returns |
| `DriverLifecycle` | two users, one of them with ioctl, one side; size 0; unload, unbind, every failure | users and handler find the driver; what is left behind; labels undo what was done; one chunk per side; transfers end |
| `DriverSettings` | one user, sysfs and ioctl; sizes 0, 1, 3 and 2^32 with a window of 2 (with `U32` = 4), timeout 0 | types; ranges of the settings; chunks fit the buffers; transfers end |
| `FlashReadError` | one reader, one address past the end | **violated**: the read returns 0 |
| `FlashWriteError` | one writer, the address past the end | **violated**: the write returns its count |

Why the bounds are enough for these questions. The lock has two threads and its
decisions ask only whether a range is empty and whether two meet; the requests hold
ranges that meet, that do not, that are equal and that are empty. In `Flash` the longer write needs two chunks, one full and one not, so that the second
meets everything the first one leaves behind: bits, messages, MSIs, queue entries; the
shorter one begins on the last byte and ends outside. Both meet the reader there. The
written bytes differ from the initial one and from the neighbour across the chunk, so a
byte of the wrong chunk is seen. A socket of one message makes `send` block; one of two,
in `FlashLive`, lets messages merge. In `FlashImpatient` every first descriptor is
larger than the window, so the device cuts it (`Clamp`) each time. It uses one side
only, since the two sides share nothing but the lock, the storage, the handler and the
misplaced error bit, which the other runs exercise; the mixture of old and new
descriptors needs two addresses, one of them outside, and the interrupted wait for a
mutex needs two readers. The readers are exchangeable there (`ReadersAlike`), and no
liveness is checked.

`OneCompletionOwed`, `HostOwnsSide` and `ImplementsBlockStore` are stated for patient
hosts, for chunks that are not empty and fit the window, and for writes whose chunks
begin inside the storage; for the others the last one is false, as `FlashWriteError`
shows of the last kind. This is the hypothesis `PatientHosts` of the theorems in section
4, and the constants of the run `Flash` meet it: the chunks of its writes begin at 0 and
2, and at 2, of three bytes. In `Flash` both engines want the last byte at the same
time. The lock's defect does not show there: requests that conflict are for that byte
alone, and reinstalling such a range at worst delays.

In `DeviceProcess` one byte of storage makes every pair of commands meet in the lock, so
that both engines can be anywhere in it when a signal, a failure or a crash comes; two
engines and one `main` are all the threads there are. The run includes the start that
fails at each step, the double cleanup and the loop that an unset `stt` enters.
`FlashSystem` has one caller, since callers of a side exclude each other, and a device
that may be replaced at each of its steps; the theorem `SystemDueWhileServing` covers
any number. In `DriverLifecycle` two files suffice for every pair of users that share
settings or a mutex, one tuning its own and one not; the two sides share nothing there
but the driver itself, and the theorems cover both. The numbers are in a run of their
own, `DriverSettings`, for its size: zero, one inside the window, one above it and the
one that is cut to zero, so that each branch of the store functions and of the cut is
taken, and a size may change between the two loads; a transfer asks for three bytes, one
more than the window. `TransferEnds` is checked in both: with two users a transfer must
also get the mutex, with all numbers it must also get through its chunks. An address
decides nothing here, so none is stored in the runs. `FlashLive` uses disjoint ranges,
because with meeting ones a call can hang in the address lock, which is what
`AddressLockAdmission` shows.

No run has an impatient writer, for its size; the theorems about `FlashTypeOK`,
`CopiesInsideStorage`, `CopiesDisjoint` and `InterruptDue` cover it.

### Fairness

* Engines and QEMU's event loop (`DeviceFairness`): weak fairness. They are
  threads the operating system schedules; their polls end when the bit is set.
* `SendInterrupt`: strong fairness. A blocked `send` is woken when there is room,
  and both engines compete for it; the kernel wakes the senders in order.
* Handler and calls (`FlashFairness`): weak fairness. No process is forced to
  start a call. A mutex is taken under weak fairness, which suffices in
  `FlashLive`, where each side has one process.
* The device process (`ProcessFairness`): weak fairness for `main` between start and
  exit, for each engine and for QEMU. Nothing makes anybody start the process, signal
  it or send a command; and nothing makes a signal hit the thread that sends
  (`SendInterrupted`), since the kernel may give it to any.
* The whole (`HostFairness`): only the calls are scheduled; the device process may be
  down for ever. That an impatient call returns then rests on its timeout alone.
* Transfers (`LifeFairness`): strong fairness for taking the mutex, which a kernel
  mutex hands to its waiters in turn, and weak fairness for the second load of the size
  and for the end of a chunk, which comes at the latest with the timeout.
* The lock alone (`LockFairness`): weak fairness for the polling loop and for the
  unlock of a holder. Nobody is forced to lock.

### Findings

The four violated runs are described in `PROJECT.json`. In short: the queue of
the address lock is never cleared, which breaks exclusion
(`AddressLockExclusion`) and can leave a thread waiting for nobody
(`AddressLockAdmission`); `r04flash_read` returns `err` where it means `ret`
(`FlashReadError`); `validate_descriptor` reports both directions in `rd_status`
(`FlashWriteError`). Without a run of its own: a size above the window is cut in
silence (`pcie_dev.c:107, 155`), although `bars.h:66, 81` promise size_error; nothing
in the device sets that bit, and the driver counts the whole chunk.

The passing runs state some behaviour of the code as an exception, next to what
holds otherwise; the exceptions are reached, and a reader should know them:

* `ShutdownEnds`: an engine that waits in the address lock for one that has left
  after a failed send keeps the process from ending (`pcie_dev.c:233-234`).
* `LoopHasEngines`: with an unset `stt`, `main` can loop without engines
  (`pcie_dev.c:202-203`).
* `HandlerFindsDriver`: between `request_irq` and `create_char_devs` the handler finds
  no state (`r04flash.c:554-608`).
* `UsersFindDriver`: remove frees the state under the open files of a device that is
  unbound or unplugged (`r04flash.c:642-671`).
* `LeftBehind`, `UndoIsReverse`: a refused `request_irq` goes to the label
  behind the one that frees the vectors, and frees the interrupt it did not get
  (`r04flash.c:557, 632-634`). The vectors then keep later probes from succeeding.
* `LeftBehind`: remove gives back `MINORMASK` numbers where one was taken and deletes no
  cdev (`r04flash.c:470-488`), so both stay, the cdev inside freed memory.
* `SysfsKeepsRanges`, `ChunkFitsBuffers`, `TransferEnds`: the node is there before the
  defaults (`r04flash.c:242, 254-259`), and ioctl takes any size (`437, 446`); a transfer
  with size 0 goes on for ever with empty chunks, one with a size above the window
  copies behind the buffers, and one whose size grows between the two loads of line
  308 takes more than is left, so that `count` wraps.
* `CopiesDisjoint`, `ImplementsUntilReinstall`, `DisjointUntilReinstall` end with the
  first installation of a finished request.
* `OneChunkPerSide`: `mutex_init` (`613-614`) frees a mutex that an early file holds.
* An empty range that is queued in the address lock is not installed by the unlock,
  although the comment at `address_lock.c:59` says the waiter's lock is set: for
  `ACTIVE_LOCK` it is no lock. `AddressLock` has this range among its requests;
  the driver sends it only after an empty chunk.

## 4. What is proved

For every value of the constants that meets `RequestsAssumption`,
`DeviceAssumption`, `FlashAssumption`, `ProcessAssumption` and `DriverAssumption`.

* `LockTypes`, `LockNoMutualWait`. The second is not inductive alone: it needs
  that a thread that waits without a lock waits for an active lock of the other.
* `LockDisjointUntilReinstall`. The inductive invariant `ExactTable` says that
  until the first reinstallation the table is exact: a holder's lock is the range
  it asked for, a queued request is that of a call in progress, and registered
  ranges do not overlap. That `overlaps` means sharing a byte is the lemma
  `OverlapsIsSharing`; it needs ranges of at least one byte.
* `LockImplementsUntilReinstall`, from the same invariant: each call of the lock is a
  step of `RangeLock`, for ranges that meet and ranges that do not. Nothing more is
  proved of the lock as it is, because nothing more holds: `AddressLockExclusion` shows
  the first installation of a finished request do the harm.
* `FlashTypes`, `FlashCopiesInside`, for any number of processes,
  patient or not, and any chunk size. The inductive invariant `FlashInv` is the types,
  the fact that a command at lock or copy passed validation, and `CallOK` for each
  process: the loop variables stay inside the caller's buffer, and a process inside a
  chunk has bytes left. The device's part is about storage and windows;
  that the driver's chunk fits its own buffers is not in it but in
  `LifeChunkFitsBuffers`, with its exception.
* `FlashCopiesDisjoint`: `FlashUsesLock` carries `ExactTable` over to the whole, and an
  engine that copies holds the range of its command.
* `FlashNoMutualWait` follows from `FlashUsesLock` and `LockNoMutualWait`.
* `FlashInterruptDue`: a comp bit that is set always has an engine, a message, an
  MSI or the running handler on its way.
* `ProcessTypes`, `ProcessEnginesHaveFiles`, `ProcessLoopHasEngines`. The inductive
  invariant `ProcessInv` says what init has reached at each place, which handles and
  which status go with it, and that a running engine has a valid handle and a `main`
  that has not passed its join: that is why no cleanup, of whichever caller, takes
  files or lock away. The device's own invariant goes along (`ProcessKeepsDevice`).
* `SystemDueWhileServing`, `SystemCopiesInside`, for any number of callers and every
  set of events. `DueWhileServing` is not inductive; `DueWhileArmed` begins at the
  `memset` of the registers, before the engines do, and ends with `stop_flag` or the
  connection.
* `LifeUsersFindDriver`, `LifeHandlerFindsDriver`, `LifeLeftBehind` and
  `LifeUndoIsReverse` follow from `StageInv`, which says what is acquired at each
  place of each order, and from `OpenInv`, that a file is open only while the node is
  there or the module cannot go, or is an orphan. `LabelsMatch` is the lemma about the
  error path: each failure goes to the label behind which what was acquired lies, with
  the two exceptions of `UndoIsReverse`.
* `LifeTypes` and `LifeSysfsKeepsRanges`, for any numbers users give; the second needs
  the same ranges of the settings themselves (`SettingsOK`) once they have their
  defaults. `LifeChunkFitsBuffers` needs what a file's size was when the chunk was
  cut. `LifeOneChunkPerSide` follows from `ChunkHoldsLock`: who is in a chunk
  holds the mutex of its side.

### Patient hosts

`CompletionProofs` and `BlockStoreProofs` have the hypothesis `PatientHosts`: no call is
cut short; the chunks of both sides have at least one byte and fit the window, as sysfs
keeps them (`ChunksFit`); and no chunk of a write begins at the end of the storage or
behind it, unless an earlier chunk was rejected. All parts are needed. A chunk above the
window is cut by the device and counted in full by the driver. A host that gives up
leaves a command behind that is served under the next caller, as `FlashImpatient`
allows; and the error of a write that begins outside is put into `rd_status`
(`FlashWriteError`), where a reader of the other side finds it. Reads may ask for
anything, and the number of readers and writers, all sizes and all ranges are free.

None of the four results is inductive alone. The invariant they share is
`CompletionInv`: `FlashInv` and

* `OneHolder`: the mutex of a side is held by exactly the process in a chunk of that
  side. It makes "the process that waits" unique, so that the rest can speak of it.
* `OneCompletion`: while a process waits, its completion is at exactly one place (the
  device has not set comp yet, the comp bit, the handler between its store and
  `complete`, or the counter), and when nobody waits it is nowhere. So none is lost
  and none is left for the next command; a host that does not wait finds the engine
  polling or on its way back.
* `StatusPrivate`: the byte an engine or the handler has loaded and not yet stored is
  still the byte in the register. The unlocked load and store (`bars.h`) lose nothing
  because the engine leaves its byte alone while comp is set, and the handler touches
  it only then; this is where the two error bits of one side must not be written by
  the engine of the other, hence the last part of `PatientHosts`.
* `EngineOrder`: the start bit waits only for an engine that polls or is on its way
  back, the read engine is in the lock only around its copying, and size_error is
  never set.
* `DescriptorOf`, `ServedAsAsked`, `WindowOf`: the registers, the command the engine
  fetched and the write window are those of the process that waits; the error bit says
  whether its chunk was valid; a valid chunk is copied in full before comp.
* `ChunkInside`: a call that goes on has been inside so far.

The parts were checked by TLC on the constants of `Flash`, and with a second reader
and with a second writer, before they were proved. Each kind of step has a lemma: the
engine on its own side (`EngineSide`, `EngineService`) and what it leaves alone
elsewhere (`EngineFrame`), the handler (`HandlerSide`), the calls (`CallSide`,
`CallService`) and what they leave alone (`CallFrame`, `CallLeavesOthers`).

* `PatientOneCompletionOwed`, `PatientHostOwnsSide` follow from the first four.
  The second justifies the grain of `Fill` and `CopyOut` (section 2).
* `PatientWriteErrorReported` marks the boundary of the finding `FlashWriteError`:
  the only writes that go outside and seem to succeed are those with a chunk that
  begins outside. A write that crosses the end inside a chunk returns its error.
* `PatientImplementsBlockStore` is the refinement. An engine's copying of a byte is
  `Move` of that byte (`CopyIsMove`), the beginning of a call is `Begin`
  (`CallBegins`), its end is `Finish` (`ReturnAllStores`, `CheckErrorStores`), and
  every other step stutters: what the caller has received does not change when
  bytes go from the read window to its buffer (`CopyOutStores`) or when the
  next chunk begins (`NextChunkStores`). The lemmas about sequences that these need
  (`OneMoreByte`, `ChunkBehind`, `FrontGrows`) are stated once. The proof does not use the
  address lock: `BlockStore` promises single bytes, and a `memcpy` goes byte by byte.

### Only model-checked

The liveness properties `AdmittedAfterHolder`, `CallsReturn`, `ShutdownEnds` and
`TransferEnds`, since the prover cannot reason about fairness; every safety property
of a passing run is also a theorem. The four violated properties are
false of the code; TLC shows a counterexample of each.

## 5. Not modelled

* The detailed transfer of `Flash` takes a call's start address and maximum size as
  they are when the call begins; settings that change under a transfer are in
  `DriverLifecycle`, without the device.
* What a call finds in freed state after an unbind, opening the character device by its
  number through a `cdev` that remove has left, the wait on a completion before
  `init_completion`, and what lies behind a buffer that a chunk overruns: what the
  kernel then does is not a matter of this code.
* QEMU's side of the device beyond the interrupt path: realize, properties and the
  memory backends are configuration.
* `mf_sync`: the storage is a shared mapping, so `msync` changes nothing that the
  running programs see, and its result is ignored.
* `disk_size`, the `show` functions, log messages: nothing depends on them.
* `read.c` and `write.c` use registers that no longer exist and are not built;
  `regs_macro.py` prints the accessors that are modelled.

## 6. Plan

1. Done: `AddressLock`, `Device`, `Flash`, their abstract specifications and
   proofs; `DeviceProcess`, `FlashSystem`, `DriverLifecycle` and their proofs.
2. Done: `HostOwnsSide`, `OneCompletionOwed` and the refinement of `BlockStore` as
   theorems for patient hosts.
3. An impatient writer, whose late engine stores a window that is being refilled,
   and the start bit that the driver does not test (`bars.h:101`).

## 7. Running

    tlc -workers 2 -config Flash.cfg MCFlash.tla
    tlapm FlashProofs.tla

The largest runs are `DriverSettings` (1,075,052 states, with liveness), `Flash`
(880,830), `FlashImpatient` (867,046 up to symmetry), `DriverLifecycle` (794,702, with
liveness), `DeviceProcess` (291,989, with liveness) and `FlashSystem` (214,379, with
liveness), each under four minutes on two cores.
