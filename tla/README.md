# A verification development for the Linux device drivers

The repository is a collection of kernel modules, each in a directory of its
own, with a few user programs that talk to them. They share no code. What they
share is the kernel: its input core, workqueues, block layer, ftrace, netlink,
device numbers. This directory holds TLA+ specifications of the modules that
have concurrent or long-lived state, TLC configurations that check them on
small instances, and proofs, checked by TLAPS, for every value of the constants.

## 1. Inventory

### Modules that keep state

| Part | State | Operations and who calls them | What is hard about it |
|---|---|---|---|
| `vmouse_driver/vmouse.c` virtual mouse | one `struct vmouse`: modifier keys, last event (`event_code`, `value`), speeds, `keep_speed`, a spinlock, a work item; the statics of `gearbox` | `vkbd_filter` (interrupt context, per keyboard), `vms_func` (workqueue), `wheel_speed` in sysfs, connect/disconnect (input core), init, exit | unlocked fields shared by interrupts and a worker, coalesced work, exit while both run, a lock taken in interrupt context and with interrupts enabled |
| `ftrace/ftrace-direct.c` | `my_tramp`, the thread, its static `t` | a kernel thread swaps two trampolines of `schedule()`; init attaches, exit stops the thread and detaches | stop against swap, lost wake-ups, tasks inside the code that goes away, a refused swap |
| `test_blockdev/test_blockdev.c` RAM disk | the data buffer, disk, queue, tag set, major number | `queue_rq` (block layer, several CPUs at once), init, exit | overlapping copies without a lock, segments cut at the end of the device, `BUG()`, giving resources back |
| `mychar/mychar.c`, `ioctl/ioctl.c`, `dram/dram.c` loading | major number, class, devices, dram's mutex | insmod, rmmod | partial failure, a shared fixed major number, what the exits give back twice or not at all |
| `mychar`, `ioctl` (and dram's `write`) message device | `message`, `size_of_message`, `numberOpens` | open, read, write, release by any process | no lock at all |
| `dram/dram.c` physical memory | the position of each open file | read, lseek by threads that share a file | page boundaries, a position loaded before and stored after the read |
| `mychardev/mychardev.c` | two cdevs, their nodes, a class, a region of numbers | open, read, write; init, exit | every result is ignored; exit leaves the cdevs and the region behind |
| `test_pci_module/test_pci_module.c` | per card: BAR mapping, interrupt vectors, private data; one interrupt for all | probe, remove | partial failure, order of release |
| `netlink/genl_multicast.c`, `netlink_multicast.c`, `netlink_unicast.c`, `netlink_test.c` | a family or socket, a timer | receive callbacks, timer, init, exit | loss, timer against unregistration |
| `netlink/netmon.c`, `set_route.c` and the other user programs | a socket | receive loops | malformed or truncated messages, loops that do not advance |
| `mt_tree/mt_tree.c` and its copy | a maple tree built by each test | scripted stores, erasures, gap allocation, iteration | ranges and gaps at boundaries; the tree is the kernel's, the scenarios are the repository's |
| `rbtree/rbtree.c`, `xarray/xarray.c` | a tree, an array | scripted | order of keys, ownership of nodes |
| `my_sysfs`, `debugfs_file`, `kworker` | a value, a buffer, a work item | sysfs/debugfs files, workqueue, exit | store against show, unload with work queued |
| `anchor`, `ioapic`, `vma`, `smpinfo` | nothing that outlives a call | proc files, init | references on every path |

`netdevs`, `taskls`, `listusb`, `mm-struct`, `pgdir`, `cr3-4`, `xem_gdt`,
`showgdt` print what the kernel already knows, `Usermode-Helper-API` starts one
program, and the `test*` programs call a driver once: they have no state to
specify.

### What makes each part correct

* **vmouse**: the last key event is acted on; a button of the only keyboard follows its key unless
  the driver lost an event; the speed moves through its gears and stays where
  Caps Lock keeps it; the kept speed agrees with the toggle; nothing is touched
  after it was freed, on a driver left undisturbed; rmmod ends.
* **ftrace**: exit detaches what is attached; nobody is left inside the module;
  swaps alternate; rmmod ends.
* **block device**: it is a disk, that is, every unit of a request moves once
  between the buffer and the medium; copies stay inside both; what a request
  uses outlives it; requests and rmmod complete.
* **character drivers**: a loaded driver has all of its devices and owns its
  number; one that is not loaded holds nothing.
* **message device**: a read gets the text once; only a text too long leaves the buffer.
* **physical memory**: a read stays in one page of memory; each byte comes once;
  a reader that goes on reaches the end.
* **mychardev**: no file is open when the module goes, and no node leads to the
  cdevs it leaves behind.
* **generic netlink**: the timer that starts itself again is gone when the module
  is, and rmmod comes to an end all the same.
* **netlink**: no input function runs in a module that is gone; nobody waits for a
  message that went past.
* **netmon**: each message of a datagram is reported once, in order and as what it is.
* **set_route**: the request that is sent is the one the command line asks for, and an address whose length
  does not fit its type harms no line without it.
* **PCI**: a bound card owns all it needs, whatever fails for another one; an
  unbound one holds nothing but what a failed probe forgot.
* **maple tree**: the test's assertions follow from what a map from ranges is; a
  copied tree is the tree; the cursor never moves on nodes nothing protects.
* **red-black tree**: destruction meets and frees each node once, while erasing turns the tree.

`PROJECT.json` lists under `hazards` where each part can go wrong, with the
property that would notice, or the reason why there is none.

## 2. Modules

| Module | Models | Extends |
|---|---|---|
| `Vmouse` | `vmouse.c` | |
| `MCVmouse` | devices and wheel inputs for TLC | `Vmouse` |
| `VmouseProofs` | theorems about `Vmouse`, the buttons among them | `Vmouse` |
| `FtraceDirect` | `ftrace-direct.c` | |
| `FtraceProofs` | theorems | `FtraceDirect` |
| `Disk` | what a RAM disk promises the block layer (abstract) | |
| `BlockDev` | `test_blockdev.c`; `INSTANCE Disk` with `left` and `busy` as refinement mapping | |
| `BlockProofs` | theorems, the refinement among them | `BlockDev` |
| `ChrDrivers` | insmod and rmmod of mychar, ioctl, dram | |
| `MsgDevice`, `MCMsgDevice` | the file operations of mychar; texts for TLC | |
| `DramFile` | `dev_read` and `dev_lseek` of dram | |
| `MCCharDevices` | the three preceding machines, one of them per behaviour | `MCMsgDevice`, `INSTANCE`s of the others |
| `MsgProofs` | theorems about the message device | `MsgDevice` |
| `CharProofs` | theorems about drivers and memory device, and the types of all three | `MCCharDevices`, `MsgProofs` |
| `MapleTree` | the interface of the kernel's maple tree | |
| `MtTree` | `mt_tree.c` | `MapleTree` |
| `Genl` | `genl_multicast.c` | |
| `NlModules` | the three netlink modules and the programs that talk to them | |
| `NetMon`, `SetRoute` | `netmon.c`, `set_route.c` | |
| `PciDriver` | `test_pci_module.c` | |
| `MyCharDev` | `mychardev.c` | |
| `RbTree` | `rbtree.c` | |
| `MCModules` | the preceding machines from `MtTree` on, one of them per behaviour | `MtTree`, `INSTANCE`s of the others |
| `ProgramProofs` | theorems about netmon and set_route | `MCModules` |
| `MapleProofs` | theorems about the range map, the copies of trees and the guarded cursor | `ProgramProofs` |
| `ModulesProofs` | theorems about generic netlink, netlink, PCI and mychardev, and the types of all eight | `MapleProofs` |

`PROJECT.json` maps each definition to the lines it stands for. An operator
whose name begins with `Slip` is a wrong variant of the operator after it, with
a mistake that would be easy to make there. No action uses it; putting it in the
place of the right one must break the property that `mutants` names.

In all modules a variable `mod` (in `ChrDrivers` `pc`, one per driver) says how
far insmod or rmmod has got, one action for each call that can fail or that
others can see.

### Vmouse

`vkbd_filter` runs in steps, one for each access to `*vms`: `FilterEnter` records the
modifiers (and returns at once while the speed is kept) or loads the Caps Lock
toggle; `FilterToggle` stores it; `FilterLoadCapslock` and `FilterKeepSpeed` are
the critical section; `FilterTest` tests both modifiers and stores `event_code`,
`FilterValue` stores `value`, `FilterSchedule` calls `schedule_work`. `fpc`, `ev`
and `tmp` are the program counter and locals of each keyboard's filter: the
input core runs one filter at a time per device, so one of each per keyboard is
enough. `vms_func` takes `WorkStart` (the workqueue clears the pending bit before
the call), `WorkLoadCode` (lock, load the code) and `WorkBody` (load `value`, act,
unlock). A critical section's accesses are one step where nothing else touches
those fields; `event_code` and `value` get one each because the filter writes them
without the lock. `keep_speed` is read by a filter without the lock, in the
step that also records the modifier; a writer of it changes one word.

The event passed to another handler when the filter returns false, and the
relative movements sent to the mouse, are output and not modelled; the speed
they use is. `vms->handle` is written by connect and read by nobody.
`WheelInputs` are the values `sscanf` may leave, any integer: text that is no
number leaves the local as it was.

Which keys a device has (`keys`) is chosen in the initial state from `Layouts`;
`vkbd_connect` refuses one without keys.

`wheel_speed_store` takes the same lock and is run by any of `Writers`, several at a time: `WriterEnter` reads and clamps,
`WriterLock` takes the lock, `WriterStore` stores and lets it go. Worker and writers (`Tasks`) hold the lock with interrupts
enabled: `LocalKeyboards` gives for each the keyboards whose interrupts hit its CPU, and it waits while their filters run
(`Runs`). `vmouse_exit` first closes the sysfs file to new writers (`ExitFile`) and waits for those inside (`ExitDevice`).
A `kzalloc` of `vmouse_init` that fails is dereferenced all the same (`InitVms`, fault `null_vms`).
`fault` names the first access to something that is not there, and the
worker stops there. Three history variables serve the properties only: `applied`,
`lost` and `undisturbed`.

From the kernel we assume: a key is pressed, repeated and released in this order
per device (`Legal`); a device's keys are released before it is disconnected;
`input_unregister_handler` waits for filters in progress, and does not wait for
work; a work item never runs twice at once.

### FtraceDirect

`simple_thread` is split at its calls: `CheckStop`, `SetState`, `Schedule`, `Modify`
(flip `t`, ask ftrace), `Store`. `sleepy` is the thread's task state, so that a
wake-up between `set_current_state` and `schedule_timeout` is not lost but lets it
return at once, as in the kernel. ftrace swaps or detaches only when it is given
the address that is attached; it may also refuse for another reason, and
nobody waits for it then. After detaching, it waits for the tasks inside.
Callers are tasks in `schedule()`. `Reload` lets the next insmod begin with initial data.
`MaxLate` bounds the history counter `late`.

### BlockDev and Disk

A unit is what one access of `memcpy` moves. The block layer submits requests
(`Submit`), each with a direction, a place, a length and a buffer of any contents, and
`rq_for_each_segment` hands out segments of any lengths (`NextSegment`). `Copy`
moves one unit, so that the copies of requests that overlap interleave unit by
unit. `EndSegment` moves the counters. `Complete` is `blk_update_request`: with
bytes missing it leads to `BUG()`.

`Limit` is where a request may end. The kernel checks requests against
`set_capacity`, so `Limit = Capacity` is what happens; the driver has its own
check, and `BlockPast` takes `Limit > Capacity` to examine it.

`Disk` is the promise: a request has a set `left` of units still to be moved,
each moves once, in any order; it completes when none is left. `BlockDev`
defines `left` as the units from `nr_bytes + k` up to `total` and `busy` as the
requests that are not idle, and `Medium!Spec` is the property `ImplementsDisk`.
Nothing is promised about the order of overlapping requests.

Init does not look at the result of `register_blkdev`. Without a number everything works, as the disk is added with
major 0 in any case, until `unregister_blkdev` warns of a number nobody registered (`fault`).

del_gendisk is two steps, `ExitDelDisk` (no more requests) and the guard of
`ExitPutDisk` (none in flight). `raced` is history: units another request wrote
after this one had moved them.

### ChrDrivers

The three drivers go through the same steps; a step names where they differ:
mychar takes a free major number, has one device and unregisters its class
before it destroys it, dram takes a mutex. ioctl and dram use number 123, which
`register_chrdev` gives to one of them. Minors are those of the lists of names: 1 and 4.

### MsgDevice

`sprintf` writes and `copy_to_user` reads one character at a time, `strlen` is
taken at once, the increment of `numberOpens` is a load and a store. A text stands
for what `sprintf` produces, with the appended length. Nothing limits it to the
256 bytes of the buffer: `testmychar` reads a line of up to 255 characters, and the
suffix comes on top. The step `Overrun` is the first byte `sprintf` puts behind
the buffer, or a `strlen` that finds no NUL in it; what the driver does after it
depends on what the build has put there, so a behaviour ends with it and nothing
is claimed of it. `retval` and `out` are what the caller gets. `alone` and
`expect` are history: which call met no other, what an undisturbed reader
should get; `opens` counts the opens and is bounded by `MaxOpens`. ioctl's and dram's operations of the same name are
the same code on statics of their own.

### DramFile

The read system call loads the file's position before `dev_read` and stores it
afterwards; the kernel takes the position lock only for regular files and
directories, so other threads can read and seek in between. `dev_lseek` is one
step. `count` holds first what the caller asks for and then what is copied.
`total` is the sum of what a reader without seeks and without company has got.
The mapping of pages and the memory's contents are left out.

### MyCharDev

insmod takes one step per call, each of which may fail; no result is looked at, and
only the error pointer of `class_create` stops it, since it is written through (`oops`).
Without a region `dev` was not initialised and holds any number, an old one among
others (`Garbage`). `unregister_chrdev_region` is asked for `MINORMASK` numbers; the
kernel gives back only a region of the very size it gave, so the two numbers stay
taken, and so do the cdevs: `dangling` are those whose memory has gone with the
module. An open is two steps, the path lookup and `chrdev_open`, with rmmod in
between if it likes. A process that reaches a dangling cdev is `lost`: what
the kernel does with freed memory is not followed. Nodes made by `mknod` are left out,
and the bytes: a file has been read from or not (`past`), which is all the read tests.

### Genl

The timer's callback takes the steps at which it can be overtaken, and `mod_timer` is
one of them, so that `del_timer_sync` can meet a callback that has rearmed its timer and
has not returned. `init_socket` falls through to its error label, which unregisters
the family it has just registered; `error` keeps the result. The family names no
groups, so the multicast refuses the buffer and nobody frees it (`skb_lost`, counted up to
`MaxLost`). That the buffer is allocated with `GFP_KERNEL` in the timer's interrupt is not modelled.

### NlModules

`netlink_multicast.c` and `netlink_unicast.c` use the same netlink unit, `netlink_test.c`
another; whoever comes second is refused. A process runs one of the programs
(`prog`): sender, receiver, `um_unicast` or `um_test`. It opens a socket, which keeps the
module, binds, joins, sends or waits. The input function runs inside the caller's
`sendmsg`, on the caller's stack: `nl_pc = "input"`. `groups` is what the process is subscribed
to, by `bind`'s mask or by `setsockopt`; `queue` counts the messages in its receive buffer; what
does not fit is lost. Every socket call may fail: the receiver looks at the results and ends, `um_unicast` does not
look at those of `bind` and `sendmsg`. When its message was not sent, or the answer found no memory (`dropped`), it
waits for ever, and `NobodyPassedOver` allows it that. `multi` is history: a message went to the group while this process
waited for one.

### NetMon and SetRoute

In `NetMon` lengths are counted in parts of an aligned unit (`Frac` of them), and what
`recvmsg` does not fit into the buffer is cut off. A unit's fractions, the header, the buffer and the
datagrams are constants (`Frac`, `Hdr`, `BufLen`, `Datagrams`). A message whose length is bad makes the loop
go round for ever; the model stops there. `parseRtattr` is given the full message length
and reads a little past the message; what it reports from there is not modelled.

`SetRoute` reads any line of words. Options may come in any order and more than once, and
`dev` takes any word. Without `add` or `del` the command is what the stack held.
The length of an address is a `char`; `BitLen` is 128 or -128 for IPv6, by the signedness of
`char` in the build, which `DoRoute` chooses. With -128 `rtattr_add` lets -16 bytes pass as they are unsigned in its test, `memcpy`
runs wild and the program ends in `"crashed"` with nothing sent. So it does on x86 for every route to or via an
IPv6 address. `RequestIsTheLine` says that it happens to no other line.

### PciDriver

A step is a call of `probe` that can fail, with what its failure path gives back. That differs from
place to place: `release_device` releases region, device and interrupt, the later errors are returned at
once and give nothing back (`leaks`). All cards ask for interrupt 42 without sharing it.
`pci_request_region` gets the mask of the memory BARs as if it were a BAR's number; it counts as
a region taken. `remove` frees the vectors before the interrupt. Two cards can be
probed at the same time.

### MapleTree and MtTree

`MapleTree` is what the kernel's maple tree promises: a map from disjoint ranges to
entries, and a cursor on it. `MtTree` is the test program. `Script` is the sequence of its
calls in the order of `maple_tree_seed`, each with the answer it expects; an action per
operation performs the next one. `mas_for_each` and the other loops are rounds. Unlike an
expected value written down twice, the script's assertions are those of
the C code, and the answers come from the range map.

What is abstracted: `unsigned long` has 30 bits and huge constants and page numbers are scaled with
it, keeping their order, adjacency and distances where the test looks; loops that fill the
tree are cut to the part the test then looks at (`SEQ`, `POWERS`, `BIG`, `DUPS`); heights beyond "there is
a node", node identity and splitting are left out. `MT_BUG_ON` counts and goes on, and
insmod returns 0 exactly if all passed.
`ScriptAssumption` states what the written script is like: its calls are made with indexes and entries; a copying loop starts with
a cursor set to 0 and a new tree; a call that moves the cursor stands between a lock and its unlock, with no unlock since the cursor was last
set, and a call that takes the tree's lock stands outside of `mas_lock` and `mas_unlock`. These are facts about the text of `Script`, which TLC evaluates for the constants of the run;
they cannot be derived from its definition by the prover, as the script is put together by `FlattenSeq`, whose results need induction over data. Loads whose result is not looked at are dropped.
The inner loop of `check_upper_bound_split` never runs, and so has no steps here; `check_mas_store_gfp`
calls `mas_store_gfp` with `GFP_KERNEL`, which may sleep, inside `rcu_read_lock` (mt_tree.c:1640-1648).

### RbTree

`Calls` are the calls of `mod_init`; a step is a round of the loop it is in. The kernel's
`rb_insert_color` and `rb_erase` are spelled out with their rotations, because
`destroy_tree` takes the next node of a postorder walk before it erases the current one, and erasing turns
the tree under the walk. The search goes by `val` while the tree is ordered by `key`, so
after the replacement it does not find number 2; node 12, which replaced it and is then
erased, is never freed. `kzalloc` is not checked (`oops`). `DestroyFreesAll` in `MCModules` includes the
rules of a red-black tree and the types of its nodes.

### MCCharDevices and MCModules

Each holds machines that do not influence each other. The initial state chooses a
`subject`, and only that machine moves, so their state spaces add up. The
theorems over them are about each machine for every value of its own constants.

## 3. Runs

Passing runs; the number is that of distinct states.

| Run | Instance | Shows |
|---|---|---|
| `Vmouse` (3.0M) | one of: a keyboard with modifiers, Caps Lock and a movement key; a keyboard with modifiers, a button key and another key; three keyboards with Caps Lock | `GearInSync`, `SpeedKept`, `KeepSpeedFollowsCapslock`, `LastEventApplied`, `ButtonsFollowKeys`, `SafeIfUndisturbed` |
| `VmouseExit` (590k) | a writer of `wheel_speed`, and one of: a keyboard on another CPU with modifiers and Caps Lock; a keyboard on the CPU of worker and writer with modifiers | `ExitCompletes`, `TypeOK` |
| `FtraceDirect` (1047) | two tasks | `TypeOK`, `DetachFindsTramp`, `NoCallerLeftBehind`, `SwapsAlternate`, `AtMostOneLateSwap`, `ExitCompletes` |
| `BlockDev` (342k) | two requests, two units, two values | `TransferAgrees`, `ResourcesOutliveRequests`, `ImplementsDisk`, `ServedInTheEnd` |
| `BlockPast` (88k) | one request, three units, up to two past the end | `TypeOK`, `InBounds`, `BugOnlyPastTheEnd` |
| `CharDevices` (305k) | one of: all three drivers; two processes, a buffer of three bytes with a text that fits, one that just fits and one that does not, three opens; two threads, two pages of three bytes, counts below and above a page | `TypesOK`; `OwnsItsMajor`, `AllOrNothing`; `QuietReadExact`, `OverrunOnlyTooLong`; `CopyInOnePage`, `EachByteOnce`, `NothingOnlyAtEnd` |
| `Modules` (229k) | one of: the maple tree test from start to end; the generic netlink family; three processes and the two netlink units; netmon; set_route; two PCI cards; mychardev; the red-black tree demo | `ModulesTypesOK`; `AssertionsHold`, `CopyIsTheTree`, `CursorNeverStale`; `NothingRunsWhenGone` (generic netlink, netlink, mychardev), `UnloadCompletes` (generic netlink), `NobodyPassedOver`; `EachMessageOnce`; `RequestIsTheLine`; `BoundOwnsAll`; `DestroyFreesAll` |

`Vmouse`, `VmouseExit`, `CharDevices` and `Modules` choose in the initial state what they are
about. Their state spaces add up instead of multiplying, and one run
covers machines that do not influence each other.

Runs that find what a comment of the code denies (each is a finding in
`PROJECT.json`):

| Run | Comment | What happens |
|---|---|---|
| `BlockCleanup` | "Don't forget to cleanup everything" | exit never frees the tag set |
| `ChrCleanup` | "Clean up if there is an error" | the first device of dram or ioctl outlives a failed insmod |
| `ChrClass` | "remove the device class" | mychar has already unregistered it |
| `MsgSize` | "Used to remember the size of the string stored" | two writers leave another length |
| `GenlRegistered` | "This callback runs whenever the socket receives messages" | insmod succeeds with the family unregistered, and no message reaches it |

Four more things the models show and no run is spent on: ioctl and dram both ask
for major number 123 under a comment that speaks of a dynamic one, so only one of
them can be loaded; set_route, which by a comment "supports here only IPv6 and IPv4", crashes on IPv6 where `char` is signed; two opens at once may be counted as one; and a read of the message device
returns 0 after copying the message, so that `cat`, which the head of `mychar.c`
suggests, shows nothing.

### Why these bounds

* **Vmouse.** The filters of different keyboards meet in the shared fields, so
  races need two of them, and the toggle gets three. The work item
  sees nothing but the last stored event, so one key of each kind (movement, button,
  modifier, Caps Lock, other) covers the cases. A top gear
  of 4 in place of 64 has both kinds of shift, with and without another gear
  above; the theorem `GearsStayInSync` covers all of them.
* **FtraceDirect.** Tasks do not interact, two show that exit waits for all. One late
  swap is allowed, `MaxLate` 3 leaves room to notice more.
* **BlockDev.** Two requests over two units can overlap fully, partly and not at all,
  with one and with two segments. Three units and `Limit` 5 let a segment end at, cross
  and begin past the end.
* **MsgDevice.** Texts of one and two characters differ in length and leave
  a stale NUL and stale characters behind.
* **DramFile.** Counts of less than a page, and more than a page, from every position of a page.
* **MtTree.** The script is fixed. The constants keep the distances the assertions depend on:
  `ULONG_MAX` is 2^30 - 1 so that TLC's integers hold it, page numbers form the three clusters that
  the allocation tests use, and the cut fills still have more entries than any place the test looks at.
* **Genl.** One timer and one module; `MaxLost` only counts.
* **NlModules.** Three processes are a sender and two receivers, or programs on both units; a receive buffer of one
  message overflows at the second.
* **NetMon.** Up to three messages of four lengths, aligned and not, for a buffer that holds two or three of
  them, so that a datagram can fit, be cut inside a message and be cut between two.
* **SetRoute.** Four words: each option with its arguments, two options, an option given twice, `dev` before a keyword,
  and each of them cut short.
* **PciDriver.** Two cards are enough to compete for one interrupt; a third would find it taken as the second does.
* **MyCharDev.** Two loads with two major numbers: the second load gets a fresh one, or, when its
  allocation fails, the one its predecessor left cdevs under. Programs do not influence each other, one is enough.
* **RbTree.** The script is fixed and TLC runs all of it, with the failure of every allocation.

Deadlock is checked where the system never stops. It is off where it does: `Vmouse`
ends unloaded or in a fault, `BlockDev` ends unloaded, `MsgDevice` at `MaxOpens`, and in `Modules` the scripts and
set_route come to their ends.

### Fairness

* **Vmouse**: interrupt handlers, the worker, the writers and the steps of `vmouse_exit` run on once begun.
  Worker and writers get strong fairness, for two reasons: a spinlock of the kernel is a queue lock, so whoever
  spins gets it in turn; and key events are far enough apart that an interrupted task gets its CPU back between
  two of them. The filters make do with weak fairness: when rmmod waits for them no more events, work or writers come in.
  Nothing is assumed of key presses, and nothing says that anyone ever begins rmmod.
* **FtraceDirect**: thread, rmmod and tasks inside a trampoline are scheduled, the timer fires.
* **BlockDev**: the CPUs serving requests and rmmod are scheduled.
* **Genl**: insmod, rmmod and the callback run on. `del_timer_sync` spins while the callback runs, so it needs
  strong fairness: the callback rearms its timer two seconds ahead, and rmmod, which is scheduled, sees one of these gaps.

`ExitCompletes` of `Vmouse` needs its case: `vms_func` and `wheel_speed_store` hold the lock with interrupts enabled, so
a Caps Lock event whose interrupt arrives on the CPU of the one that holds it spins for ever in `vkbd_filter`, with
`vmouse_exit` waiting behind it: in `input_unregister_handler` for the filter, or already in `sysfs_remove_file` for the
writer. `VmouseExit` therefore has Caps Lock on a device of another CPU only, and on the tasks' own CPU a device without.
With `kb1` among the `LocalKeyboards` of either task TLC shows the stuck state. No comment claims otherwise, so there is no
run for it; the theorem `OnlyOwnCpuSpins` says that these are the only two ways.

## 4. Proofs

All theorems hold for every value of the constants that meets the named `ASSUME` of the
module: any set of keyboards, tags or tasks, also infinite ones, any capacity,
any wheel input. `tlapm` checks them to the last leaf.

* **`VmouseProofs`** proves the type invariant first. `GearsStayInSync` and `SpeedIsKept` follow from
  it and lemmas about `Gearbox`, whatever event arrives. `KeepSpeedIsCapslock` needs that a filter
  in its critical section holds the lock, that only one does, and that what it has loaded is the
  toggle unless another filter is still on its way to toggle or to load; the claim about filters that
  are through is not inductive without it. `LastEventIsApplied` adds what holds while filter or worker is under
  way: as long as the fields hold something that was not acted on, a filter is about to schedule, or the item is queued or
  running. `SafeWhenUndisturbed` relates `mod` to what a filter or the worker may be
  doing: on an undisturbed driver no work is outstanding once its device is unregistered.
  `ButtonsAreFollowed` starts from where the last event of a button key can be: lost, in the
  locals of a filter that still serves it (`Serves`), in the fields of `vms` and not yet acted on (`InFields`), or shown by
  the button. `LocalsInv` and `StoredInv` say that fields and locals agree while a filter stores one after the other.
  It needs the hypothesis `OneKeyboard` that the property states: with two keyboards the two stores of
  two filters interleave, and the same key of both moves one button.
  `OnlyOwnCpuSpins` and `FiltersRunOut` are what safety says about the end of rmmod: while a filter or a writer is inside, a
  filter goes on, the lock is free or its holder can go on; once the sysfs file is removed a writer has at most two steps left,
  once the handler is unregistered each keyboard at most six, which only get fewer. The exceptions are proved too: a Caps Lock
  filter that spins against the worker or a writer of its own CPU (`SpinsForGood`) does so in every state that follows, and the
  exit never gets past it.
* **`FtraceProofs`** has one inductive invariant relating the program counter of the thread, the
  progress of rmmod and what is attached. Between `Modify` and `Store` the attached
  trampoline is `tramps(t)`; elsewhere it is `my_tramp`; the thread is `done` when exit detaches.
  `ExitIsNeverStuck` says that while rmmod runs, rmmod, the thread or a task in a trampoline has a step to take, and
  `ExitGetsCloser` that none of their steps takes the end further away: there are at most ten (`Ahead`), and the tasks that leave
  the trampolines for the last time. It needs that `simple_tsk` is a task exactly when there is a thread, which became a part of the invariant.
* **`BlockProofs`** proves types, then the invariant that ties a request's counters: `pos = start +
  nr_bytes`, `b_buf + b_len <= seen`, and that without a cut `nr_bytes + b_len = seen`. `InBounds` and
  `BugOnlyPastTheEnd` follow, and from the relation of buffer and data `TransferAgrees`. `DriverIsDisk` shows
  that `Init` maps to `Medium!Init`, `Copy` to `Transfer`, `Submit` and `Complete` to their namesakes and every other step
  to a stutter; it needs that the units moved are those below `nr_bytes + k`. `RequestsCanGoOn` and `RequestsGetServed` say that
  a request in flight always has a next step, that within the device this is never `BUG()`, and that each step leaves less to do (`Work`, at most
  three steps a unit and one more) while the steps of other requests do not change it.
* **`CharProofs`** proves `DriversInv` of the drivers: who owns which major number, which classes and devices
  exist and which of them insmod has made, by how far insmod or rmmod has got. `MajorIsOwned` and `AllOrNothingHolds` are
  among its consequences. The hypothesis of the loop, that it has a minor to go on with, is a lemma of its own. `MemoryInv` of
  the memory device says what a call knows of its page and its count, and what holds of a lone reader's position and total;
  `CopiesInOnePage`, `BytesOnce` and `NothingMeansEnd` follow for any page size, memory and number of threads.
* **`MsgProofs`** begins with `strlen`: that a text in the buffer has one first NUL, by the well-foundedness of the numbers, and
  where it is after `sprintf` of each text. `EndedInv` says that the last cell holds a NUL unless a text too long has just
  overwritten it; with the types of `n` it gives `OverrunsAreTooLong`. `QuietInv` describes the
  call that met no other at each of its steps (`LoneCall`): what it has written is a prefix of the text, what it
  has copied is a prefix of the message, and between calls message and length are those of the last undisturbed writer.
  `CharTypes` puts the types of all three machines together. The attempt to prove it showed that the type of `n`
  in `MsgDevice` was too narrow: besides a length, `n` holds what `device_open` has loaded of `numberOpens`, which is bounded by
  `MaxOpens` and not by the buffer.
* **`ProgramProofs`** is about sequences of any length. Where one would argue by induction over numbers, it takes the least
  or the greatest number of a set (`LeastOf`, `GreatestOf`), which the well-foundedness of the numbers gives, so that no theorem with
  an operator parameter is needed. For netmon, `SumsExist` and `OffsetIs` make the offset of a message the sum of the aligned lengths before it;
  `MonInv` says that the loop stands at the offset of the next message that was not reported, with as many parts left as the buffer
  holds behind it. `EachReportedOnce` holds for datagrams and buffers of any length and any alignment. For set_route,
  `Reads` says what one round of the option loop does to what the line asks for; `RouteInv` says that the request agrees with
  the part of the line read so far (`ReadSoFar`), and `TheLineIsAsked` follows when all of it is read. It holds for both
  signednesses of `char`: a crash needs an IPv6 address among those to be copied (`Copied`).
* **`MapleProofs`** is about the loops of the test that copy a tree, for trees of any contents. Lemmas about the operators
  of `MapleTree`, the environment's part, come first: that the ranges of a tree stay disjoint (`StoredRanges`), and which range a cursor
  finds next (`NextIs`, `FindBehind`, `FindFirst`). Then `MtInv`: before its first use
  a cursor reset to 0 is still there and a new tree is still empty (`FreshUntilUsed`), and while a copying loop runs the new tree is what the
  old one has up to the cursor (`CopyInv`). `CopyIsComplete` is the end of the loop.
  `CursorIsGuarded` has an invariant of its own, `LockInv`: the two locks are held exactly where the calls before the current one have taken
  them and not dropped them, and a cursor that was left in a node without protection means that nothing has set it since. The loops that
  stay at one call, `MasForEachPausing` among them, need that a round leaves the cursor paused when it gives the lock away. Both theorems rest on
  `ScriptAssumption`, which is about the text of the script alone: what a call does to the cursor and to the locks is not assumed.
* **`ModulesProofs`** has an invariant for each of four machines: when the timer can be other than idle; that a
  process with a socket on a unit finds a module there, and that whoever waits has its message or its excuse; what a card
  holds at each step of probe and that only a card past `request_irq` is on the interrupt;
  which nodes mychardev's loops have come past and that no file is open while it goes. `ModulesTypes` adds the types
  of all machines but the red-black tree's; some need these invariants, as a receive buffer is bounded only because a message
  is queued when there is room. `UnloadCanGoOn` and `UnloadGetsCloser` say that `del_timer_sync` finds the timer pending or a callback with at most five
  steps to go, and that only a new round of the timer adds to them: so its strong fairness is what `UnloadCompletes` needs, and no more.

Only model-checked:

* that the liveness properties come true (`ExitCompletes` of `Vmouse` and `FtraceDirect`, `ServedInTheEnd`, `UnloadCompletes`): fairness and `ENABLED` are
  out of the prover's reach. For each of the four the safety half is proved, as said above: somebody can always go on, and what is left to do gets less;
* `AssertionsHold`, which says of one fixed script that each call gets the answer written beside it, each loop the entries, and no other (the `MT_BUG_ON`s that are
  not in the script are listed at the property: the height of the tree, the nodes entries lie in, `mas_expected_entries`). It holds because of what that script is, call by call,
  so that a proof would be an evaluation of the whole script, which is what TLC does;
* `DestroyFreesAll`, about the fixed script of the red-black tree demo with twelve nodes. The postorder walk and the rules of the tree (`RbTree`) are
  recursive functions over the tree, and what they compute for every tree needs induction over data.

## 5. Not modelled

Whole parts:

* `xarray` stores, loads and erases in an array of its own and prints what it gets; no result changes what it does next, and
  no other thread sees the array. It frees none of its items.
* `my_sysfs`, `debugfs_file` and `kworker`: two plain integers behind sysfs files, a debugfs file that keeps nothing it is
  given, and a work item that only prints and is flushed at exit. There is no relation between two pieces of state to check.
* `anchor`, `ioapic`, `vma`, `smpinfo` and the dumps and clients of section 1 read what the kernel knows and keep nothing.
* `mt_tree copy.c` is an older copy of `mt_tree.c` that the Makefile does not build.

Within the modelled parts: formatting and log output; ioctl's `dev_lseek`, whose offset nobody reads, and
`dev_ioctl`, which stores one value and returns a constant; a file of mychar, ioctl or dram open across rmmod, which their missing
`.owner` permits (`MsgDevice` and `ChrDrivers` are not composed; `MyCharDev` shows what the owner is good for); mychardev's write,
which only prints; the heights and nodes of maple trees.

Memory that is read or written beyond what was initialised or allocated is left out where no
property depends on it: what `netlink_multicast_sender.c` adds behind its buffer, the rest of set_route's request, what `parseRtattr` finds
behind a message, the terminating 0 of mychardev's write of 30 bytes or more.
