# A verification project for the Solaris 11 ATA driver backport

The repository is a block storage stack: the disk driver, its target object,
flow control, an ATA/ATAPI host bus adapter (HBA) driver below a PCI-IDE nexus,
and the generic HBA framework (GHD) that owns its queues, timers and
completions. This directory holds TLA+ modules of its control logic, TLC
instances that check them, and proofs about the queues and the controller a
request passes, about its transfer section by section, and about the life of
controllers and units.

    tlc -workers 2 -config GhdPolled.cfg MCGhd.tla            # one run (PROJECT.json lists all)
    tlapm Ghd_proofs.tla        # one module of proofs; all are named *_proofs.tla

PROJECT.json maps each definition to the lines it models and lists runs,
mutants, findings, hazards and theorems.

## Inventory

A request goes down and comes back like this:

    cmdk -> dadk -> flow control -> dadk (packet) -> ata_disk -> GHD -> ata_ctlr_fsm -> drive
    sd/st                                   -> atapi    -> GHD -> ata_ctlr_fsm -> atapi_fsm -> drive
    drive -> interrupt -> GHD -> ata_ctlr_fsm -> doneq -> softintr -> dadk_iodone -> flow control -> biodone

| Component | State | Operations | What is hard | What makes it correct |
|---|---|---|---|---|
| `cmdk.c` | opens per partition, label, bad block table and its lock, devid | probe, attach, detach, open, close, strategy, ioctls | close races open; DKIOCADDBAD against transfers; the devid is set up under no lock | opens counted exactly; label, table and devid fresh and stable; no bad sector reached |
| `dadk.c` | a packet per transfer: sections left, retries; media state | strategy, completion, retry, dump, ioctl, media watch | sections × retries × DMA windows × bad block cookies | what is reported good was moved to the right place, errors name their block, a transfer ends |
| `strategy.c` | queue (first-in first-out, or sorted by block), held transfer, throttle count | enqueue, dequeue, restart | tryenter, allocation failure, kernel callback; two sorted lists under one counter | throttle exact, FIFO or one-way scan, order for one block, no stall |
| `ghd.c`, `ghd_waitq.c`, `ghd_queue.c` | device and adapter wait queues with throttles, doneq, poll mode, two mutexes | transport, poll, abort, resets, interrupt, completion | nine paths take two mutexes in opposite order to release; tryenter; polls steal completions | each request back exactly once and in order, none stranded |
| `ghd_timer.c` | the timer of each request, `cmd_state`, a callback shared by instances | start, expire, escalate, attach, detach | an expiry races completion, abort, other expiries | watched exactly while pending, recovery only climbs, one callback |
| `ata_common.c` | controller state, active request and drive, ARQ request; what attach took | start, interrupt, finish, reset, ARQ; attach, detach, child nodes | ARQ refused or reset; a spurious interrupt; a reset that fails; a failure at any step of attach; detach step by step | one active request, the right one completed, its own sense data; nothing leaked or used when gone |
| `ata_disk.c`, `ata_dma.c` | `ata_pkt` (address, residual, block size), DMA engine, geometry | iosetup, start, interrupts, completion | PIO counts before or after confirmation; retry reduces the block; `ap_count` has 8 bits; three ways of addressing; the capacity passes an int and a short | data right, residual right, every sector addressable |
| `atapi.c`, `atapi_fsm.c` | the state of each ATAPI drive | start, interrupt by tables, reset | every event in every state | no state is a trap, residual right |
| `pci-ide.c` | interface byte, mode and vector of each child | register and interrupt translation | legacy against native mode, old boot code | a channel gets its own registers and interrupt |
| `ghd_scsa.c`, `ghd_scsi.c`, `ghd_gcmd.c`, `ghd_dma.c`, `*_debug.c`, `gda.c` | DMA windows; else none | allocation, conversions, messages | DMA cookies against bad block cookies | a section ends where both agree |
| `sil3xxx.c`, `ata_blacklist.c` | none over time | setup at attach | | |

GHD calls the HBA driver (`hba_start`, `get_status`, `process_intr`,
`timeout_func`) under the HBA mutex, and `hba_complete` under none. The disk
side calls GHD through `CTL_TRANSPORT`; GHD calls back through the software
interrupt of the doneq. The driver framework probes and attaches a cmdk unit
on a node that `ata_common.c` initialised, and takes the node back afterwards.

## Modules

| Module | Models | State and actions against the code |
|---|---|---|
| `GhdWaitq` | pure operations of `ghd_waitq.c` on the two levels of queues and throttles | used by `Ghd` |
| `Ghd` | `ghd.c`, `ghd_waitq.c`, `ghd_timer.c` of one HBA | `pc`, `op`, `cmd`, `frame` are the threads and their locals; `hba`, `waitq` the mutexes' owners; `wq` the queues; `state`, `timer` of each request; `doneq`, `doneqSoft`, `pollmode`; `active`, `irq`, `phases` the HBA driver and device. A label is a point where a mutex is taken or the device decides. Leaf mutexes (doneq, active list) are inside one action |
| `GhdQueues` | the inductive invariant of `Ghd` | which program point goes with which owner, operation and locals; the place of each request, and what its `cmd_state`, `cmd_waitq_level` and timer say there |
| `GhdService` | what GHD and flow control promise | per-device FIFO, at most `MaxStarted` started, each back once; the sets of requests by how far they have come, and for each that waits those `ahead` of it |
| `GhdTimerConf` | attach, detach and callback of the shared timer | `t_mutex` and `tglobal_mutex` sections are the steps |
| `FlowControl` | `dmult` (and `dsngl` as its case 1) over `qfifo`, as dadk drives it | one action per stretch under or outside `ds_mutex` |
| `Qsort` | the sorted queue `qsort` | `b_actf`, `b_pasf`, `q_cnt` as in the code; `qsort_add` by the four ways through `oneway_scan_binary`, `qsort_del` |
| `OneWayScan` | what a one-way scan promises | a transfer's turn by comparison with all others, no lists |
| `BadBlocks` | `cmdk_bbh_gethandle`: a transfer cut into cookies around bad clusters | operators over one table; its loops are recursive functions over their locals. `Home` says, without search or cookies, where a sector is |
| `AtaGeometry` | capacity and geometry from the IDENTIFY data and the BIOS, CHS, LBA28 and LBA48, and what the drive makes of the registers | operators; the width of a register, of the head field and of an int are constants, and conversions to `uchar_t`, `short`, `int` and `diskaddr_t` are those of C |
| `DiskGeometry` | the way of the capacity up: `dadk_open` keeps it, cmdk answers cmlb with it | `phyg` is `dad_phyg.g_cap`, `open` the result of `dadk_open`, `capp` what `cmdk_lb_getcapacity` gave |
| `DadkTransfer` | one transfer: dadk, `ata_disk.c`, drive and DMA engine, over `BadBlocks` and `AtaGeometry` | `bp`, `pkt` are the buf and packet fields; `at` is who acts next; units are sectors |
| `AtaCtlr` | `ata_ctlr_fsm` and its callers, ARQ, reset, and `atapi_fsm.c` with its tables | `ctl` is `ac_*`, `drv` is `ad_state`, `ap` the requests, `call` the loop of `ata_hba_start`, `ata_process_intr`, `ata_reset_bus` that is going on |
| `HbaService` | what the HBA driver promises GHD | the assumption `Ghd` makes of its `hba_start`, completion and reset |
| `AtaBus` | a controller from `ata_probe`, `ata_attach` to `ata_detach`, with its child nodes | `step` is where attach or detach is (detach holds no mutex, so each of its steps is one of the model), `held` what is allocated, mapped or registered, with each mutex, `flags` `ac_flags`, `node`, `class`, `sd_dev`, `gtgts`, `c_data` the nodes and target structures |
| `Cmdk` | the units of `cmdk.c` | `dk` is the soft state, `got` what probe, attach and open acquired and did not give back (objects, queue, bad block table, its counts, devid), `opens` what the kernel has open, `call` an ioctl under way, `walk` transfers inside the bad block table, `diskid`, `altsver` what the disk holds |
| `PciIde` | `pci-ide.c` as functions of chip, mode and child | no state of its own |
| `DiskStack` | `AtaBus`, `Cmdk` and `PciIde` under the driver framework | probes go through to the drive, nodes leave after their units |
| `MCGhd`, `MCCtlr`, `MCXfer`, `MCStack`, `MCStrategy` | constants, bounds and symmetry for TLC | |
| `Ghd_proofs`, `GhdQueues_proofs`, `FlowControl_proofs`, `Qsort_proofs`, `AtaCtlr_proofs`, `AtaData_proofs`, `DadkTransfer_proofs`, `DiskStack_proofs` | theorems | each about the module it is named for, `AtaData_proofs` about `AtaCtlr`, `DadkTransfer_proofs` also about `BadBlocks` and `AtaGeometry`; those of `DadkTransfer` and `DiskStack` begin with their inductive invariants |

`Ghd` and `AtaCtlr` meet in `HbaService`: `AtaCtlr` is checked and proved to
implement it (`ctlr_hostile`, `CtlrImplementsService`), and `HbaStarts`/`HbaRefuses`, the completions and the reset in
`Ghd` are its steps. `FlowControl` and `Ghd` both implement `GhdService`, the
first for a single device with `MaxCnt` transfers released, and the fairness of
`FlowControl` (the HBA driver comes back) is the liveness of `Ghd`. The table
that `Cmdk` keeps fresh is the one `BadBlocks` walks.

Drives, DMA engine, kernel (mutexes, softintrs, callbacks), boot code and driver
framework are modelled from how the code uses them and marked external in the
map.

Remarks on fidelity:

- `ghd_queue_hold`, `ghd_freeze_waitq` and reset notification have no caller in
  the repository, so what tests them is constant in `Ghd`.
- The ATA driver has one request active at a time (`HbaMax` = 1). With 1 the
  raising of other requests' states after a bus reset concerns nobody;
  `polled` uses 2 to show that the queues do not rely on it.
- An `internal` request (`ata_queue_cmd`) has no timeout: if the drive never
  answers, the poll holds the HBA mutex for good. `live` leaves it out.
- `cmdk_create_obj` makes only `qfifo`, `qsort`, `dsngl` and `dmult`, and
  `sol11ata.conf` asks for `dmult` and `qfifo`.
- `Qsort` and `FlowControl` share a run but no state (`MCStrategy`): which transfer the queue hands
  out matters to none of `FlowControl`'s properties but `ImplementsService`,
  which is about `qfifo`. A pass of `qsort` goes on as long as transfers arrive
  at or beyond its head, so those put off to the next pass have no bound on their
  wait; the model promises none.
- In `FlowControl`, `TGCOM_TRANSPORT` runs without the mutex, so transfers may
  reach the HBA driver in another order than the one they were released in;
  the order that is kept is that of the release.
- In `AtaCtlr` a poll by GHD on a controller without an interrupt latch calls
  the interrupt entry whenever the drive is not busy; that, an interrupt out of
  turn and a drive that bounces BSY share the budget `MaxSpurious`.
- `ap_count` of `DadkTransfer` is what the count register takes, 0 for a section
  of `Reg` sectors without 48-bit addressing; the drive takes 0 for `Reg`. The
  error paths for a drive that stays busy or keeps DRQ when its interrupt is
  served are `IntrPioInBusy`, a choice in `IntrPioIn`, `PollNextBusy` and
  `IntrDmaStuck`; all spend the budget `MaxSlow`.
- `cmdk_bbh_reopen` reads header and table with two disk reads; a table installed
  is the one the second read found, as long as the first one said. What
  is in use is therefore only as new as the first (`read` of `call`), and that
  is the version the model keeps.
- `DadkTransfer` takes the block factor to survive a bus reset because
  `ata_reset_bus` programs it again.
- `PciIde`: the order of register tuples for each mode is that of the comment
  at `pci-ide.c:846-880`, since boot code writes them.

## Runs

Each property of a passing run is violated by at least one plausible slip of a
mapped definition (the mutants in PROJECT.json), and every action of every
next-state relation fires in some run.

| Run | Question | Properties | Bounds |
|---|---|---|---|
| `polled` | GHD queues and doneq: nothing lost, doubled, stranded or forgotten; `Ghd` implements `GhdService` | `ExactlyOnce`, `DoneqAttended`, `CountersExact`, `NoStranded`, `ImplementsService` | 2 requests, 2 client threads that transport or dump, device throttle 2, 2 active |
| `recovery` | timers and recovery | `TimersExact`, `ResetHitsItsRequest`, `DeviceFilled`, `QueueInv` (with the types), `Escalates`, `CompletionOrder` | 2 requests with device throttle 1, 1 client that transports, polls an internal request, aborts and resets the bus, resets that fail; the rivals are the interrupt, doneq and timer threads |
| `live` | every request comes back | `ComesBack` | 1 request; liveness for 2 exceeds the time a run may take |
| `flow` | throttle, no stall, FIFO, completion, a dequeue that ends; the sorted queue | `IInv` (with `OutcntExact`), `NoStall`, `ImplementsService`, `ComesBack`, `ReturnsUnlessFed`; `ImplementsScan` | 3 transfers, throttle 2 (so one waits), 1 caller, 2 completers (so `mutex_tryenter` fails), the kernel callback, allocations that fail; beside it, in behaviours of its own, `qsort` with 5 transfers to 3 blocks, two of them shared, so that equal blocks meet at the head, inside and at the end of a list |
| `xfer` | data in place, residual, failing block, end | `Correct`, `InBounds` (with the types), `ErrorResid`, `ErrorBlock`, `Finishes` | 6 sectors in sections of up to 4, which is what a count register of 4 values can ask for (so several sections, a short one, and `ap_count` 0), DRQ blocks of 2, PIO and DMA, 2 retries, 5 errors so that retries run out and recover; 6 bad block tables (none, all, head and middle, middle and tail, only the last of a long search); 8 more disks for the modes of addressing, one of them without bad sectors (so that DMA meets `ap_count` 0) |
| `ctlr` | sense, errors, data, no wait for the timer | `SenseIsItsOwn`, `ErrorsAreReal`, `DataAccounted` (with the types), `Served` | CD with 2 requests and a disk, PIO, 2 units in blocks of 2, transfers shorter and longer than asked, 2 errors (a command and its ARQ) |
| `ctlr_hostile` | no trap, promise to GHD | `OneActive`, `IdleDrives`, `ImplementsService` | drive 1 alone, without an interrupt for its CDB, 1 spurious event, 1 error, slow, DMA, failing resets, 1 unit of data |
| `stack` | resources, stack order, opens, stale label, table and devid; every sector cmlb is told of is on the disk and can be named | `NothingLeft` (with the types), `ChannelsApart`, `Grounded`, `StackStands`, `OpensAccounted`, `LabelFresh`, `BbhFresh`, `BbhStable`, `DevidKept`; `AllAddressable` | 2 drives, 4 nodes, 3 units, 2 partitions, 2 callers, 3 opens, 2 versions of a table; below. Beside it, in behaviours of its own, a disk says its size: every sound combination of a few values of each IDENTIFY word, with and without a BIOS geometry, with capacities below, at and beyond what 28 bits and an int hold |
| `timer_race`, `xfer_hang`, `xfer_remap`, `ctlr_busy` | violations, below | | 3 instances; 4 sectors; 6 sectors; 2 requests |

Every bound is a CONSTANT (`MaxPhases`, `MaxErrors`, `MaxSlow`, `MaxSpurious`,
`RetryCount`, `MaxOpens`, `MaxVersion`), the size of a set, or part of `Bounded`
in `MCStack`. They are small because requests of one device, and threads of one
kind, are interchangeable: a violation needs one request to be overtaken, lost
or completed twice by one other, one holder of a mutex and one that failed to
get it. Registers of four values and two heads (`Reg`, `Heads`) make the last
sector that 28 bits reach 126, an `ushort_t` end at 15 and a `short` at 7; an
`int` ends at 255 in `stack` and at 511 in the runs of a transfer.
A disk of 300 or 360 sectors meets every limit.

`Bounded` of `stack` keeps the parts from multiplying each other, not from
meeting: every failure of attach and every order of nodes is explored with
units that are probed and attached; opens happen only below a controller with
its DMA engine and two disks, on one unit at a time. Unit 0 has a serial number
and bad block tables and is opened in every way until it has a table; unit 1
has its label written (DKIOCSVTOC) and its devid fabricated; unit 2 is the
cmdk unit of a duplicate node and is never probed. Disks are exchanged while
there is no controller, and a controller whose units left something behind
(see `UnitsGivenBack`) is not attached again. `ChannelsApart` covers all 64
chips (class, modes, boot code, size of the bus master tuple) that `PciIde`
distinguishes.

`CHECK_DEADLOCK FALSE` stands in `Flow.cfg`, where all transfers may be held by a failed
allocation (see `NoStall`), which is what the code does.

## What the violations show

- `timer_race`: an attach between a detach's two critical sections leaves an
  attached HBA without a timeout callback.
- `xfer_hang`: a PIO retry sets `ap_bytes_per_block` to one sector for good,
  but the next section uses READ/WRITE MULTIPLE again; driver and drive wait
  for each other until the timer fails a transfer whose retry had worked.
- `xfer_remap`: for DMA `ghd_dmaget_next_attr` hands out whole DMA cookies until
  it has at least what was asked for, so a section runs past its bad block
  cookie: bad sectors are used in place and the rest of the remapping is
  dropped, without an error. In `xfer` a transfer by DMA therefore meets no bad
  cluster (`DmaRemap = FALSE`); all kinds of them are met by PIO.
- `ctlr_busy`: AP_ERROR of a refused start survives the requeue, and a command
  that then succeeds is reported as failed.

More disagreements are visible in the modules, as exceptions of a property or
choices of an action, or were met while reading, and have no run of their own:

- `ghd_timeout_disable` asserts that no instance is left (`ghd_timer.c:721`),
  but detach calls it whenever one of several leaves.
- `ata_disk_iosetup` cuts `ap_count` to 8 bits on disks without 48-bit addressing
  (`ata_disk.c:1407-1410`). For the count register 0 means 256, as the comment at
  1361 says, but `ata_disk_get_resid` (2715) computes with it after a DMA error:
  `cp_resid` of a section of 256 sectors, which the default of `ac_max_transfer`
  allows, is not "the offset to the block in which the error occurred" (2679)
  but 256 short of it, in a `uint_t`. dadk names another sector, and `b_resid` is
  wrong. `ErrorBlock` says by how much; `ErrorResid`, and `InBounds` where it
  speaks of residuals, leave such sections out once they met an error (`Misled`).
- For a disk of capacity 0 `ata_disk.c:348-358` makes up 1025 cylinders of one
  sector, which "will never make it out of the DKIOCG_VIRTGEOM call"; but
  `dadk_open` succeeds with them, cmlb is told of 1025 sectors, and
  `cmdk_lb_getvirtgeom` (`cmdk.c:1303`) refuses only large disks.
  `AllAddressable` excepts the disk (`Ordinary`).
- `g_cap` is an int (`tgdk.h:71`), and so is the product that `ata_disk.c:962`
  assigns to it: with 2^31 sectors or more it wraps, and cmlb may be told of more
  sectors than there are (`Ordinary`).
- `sol11ghd_register` initialises a fourth mutex, `ccc_reset_notify_mutex`
  (`ghd.c:353`), beside the three its comment names (278-279); nothing destroys
  it, and `GivenBack` names it as what stays.
- A sector read with ERR and DRQ is counted, so that the residual count names
  the sector after the bad one (`Overcount` in `DadkTransfer`, against
  `ata_disk.c:2680`).
- A DMA completion without a transfer error sets `ap_resid` to 0 although the
  drive may have moved less (`atapi_fsm.c:547-551`). `DataAccounted` is
  therefore checked for PIO only.
- `dmult_enque` passes a callback to `TGCOM_PKT`, but an allocation that fails
  for lack of memory keeps none: with nothing released the held transfer waits
  for a new arrival that itself waits behind it (`NoStall`, `Stuck`).
- `sd_dev` of a disk is not reset by UNINITCHILD (`ata_disk.c:803-814`), so a
  drive whose node went away cannot be initialised again until the controller
  is attached anew (`InitDisk`). Nor is it when `ata_prop_create` fails
  (`ata_disk.c:822-824`): the node is refused, and the drive with it.
- A `cmdk_create_obj` that fails after its queue was made leaves the queue behind
  (`cmdk.c:1154`, `1168`), as does the attach that it fails (`UnitsGivenBack`).
- `sol11cmdk.conf` and `ata_common.c:826-838` name the class "dadk", while
  `ata_common.c:752` accepts "sol11dadk": both are among the `Classes` of
  `AtaBus`.
- `CMDK_OPEN` is never cleared, so that after one open no unit can be detached,
  except that the loop of `cmdkdetach` that tests for it ends before the highest
  instance (`cmdk.c:428`).
- `cmdk_bbh_reopen` reads the disk before it takes `dk_bbh_mutex`: of two
  DKIOCADDBADs the older table may be installed last (`BbhFresh` excepts calls
  that were not alone), and an I/O error gives up the table that was there.
- The devid is set up in steps without a lock, a read error counts as no devid
  and a failed write is ignored (`spoiled` in `DevidKept`).
- The bad block table of a unit, its counts per slice and its devid are not
  released at detach: `cmdk_bbh_free_alts` (`cmdk.c:1616`) has no caller
  (`UnitsGivenBack`).
- A disk whose BIOS agrees on heads and sectors and whose cylinders exceed a
  `short` gets cylinders with the sign extended (`ata_disk.c:313`, `Ordinary`).
- `sol11ghd_register` installs the real handler before `waitq_mutex` is
  initialised (`ghd.c:343-351`), which `Grounded` leaves out.
- The comment at `ata_disk.c:279-282` says the geometry of ATA-6 disks is fixed
  later; a disk with 0xffff in those words ends with capacity 0.
- `pciide_attach` continues its loop with `ddi_get_next_sibling(dip)`, the
  nexus' sibling and not the child's (`pci-ide.c:244-245`).
- `dadk_check_media` tests the state before it takes its mutex (`dadk.c:1422`);
  it is out of reach because no HBA driver carries out DCMD_GET_STATE.

## Fairness

Each liveness run states its own.

- `Ghd` (`live`): threads run (weak), a mutex that is free again and again is
  got (strong: adaptive mutexes with no starvation of a waiter), a triggered
  softintr runs, time passes and expired requests are found, a poll with a
  limit reaches it. Nothing is assumed of the device: that is what the timers
  are for.
- `FlowControl` (`flow`): the same for threads, the kernel makes a
  callback it has noted, and the HBA driver comes back with each packet, which
  is `ComesBack` of `Ghd`. `ComesBack` of `FlowControl` ends where the
  completion has the transfer: `dadk_iodone` gives it to biodone only after
  `dmult_deque`, whose loop may go on transporting later arrivals without bound
  (`strategy.c:415`). `ReturnsUnlessFed` says that this is the only way not to
  return: a dequeue ends, or transfers keep arriving.
- `DadkTransfer` (`xfer`): the drive answers or the request's timer runs
  out, and driver steps are taken.
- `AtaCtlr` (`ctlr`): the drive answers and its interrupts are served.
  Nothing is assumed of timers, which is the point of the property.
- `DiskStack` has no fairness: nothing in it must happen.

## What is proved

For every set of requests, devices, threads, nodes and units, every throttle,
disk, table of bad blocks and length of a transfer, from the assumptions
`GhdWaitq`, `Ghd`, `FlowControl`, `Qsort`, `AtaCtlr`, `AtaBus`, `Cmdk`,
`AtaGeometry` and `DadkTransfer` name. Besides types they say that the kinds of
threads and the null values are distinct, that nodes are finitely many (a
device's instances are counted), that a unit's number is a natural and that
layered opens are not among those kept in masks. Those of a transfer are

- `RegAssumption`: a register has more than one value and more than there are
  heads, a track has fewer sectors than a register has values, and an int holds
  what 28 bits and an `ushort_t` do;
- `TransferAssumption`: the transfer is inside its slice (`cmdkstrategy` cuts it
  there), `ac_max_transfer` is at most what a register can ask for (256), a DMA
  window is no longer than that (`dma_attr_maxxfer`) and a DMA cookie no longer
  than a window;
- `DiskAssumption`: the IDENTIFY data of a disk is sound (`Sound`: its numbers
  fit the fields they are for, and the geometry the BIOS gives does not exceed
  the capacity) and its capacity survives the int and the short it goes through
  (`Ordinary`; it is not empty, either), the slice is in what is published of it (the label that
  `cmlb` checks), and the bad block table, which is written by `format` and
  `addbadsec` and not by this code, is sorted, its clusters lie apart, and the
  alternates are on the disk, outside the slice of the transfer and apart.

`Ghd_proofs`:

- `IInvAlways`: `Spec => []IInv`,
- `TypeCorrect`: `Spec => []TypeOK`,
- `NeverStranded`: `Spec => []NoStranded`,
- `MutualExclusion`: no two threads inside sections of one mutex.

`NoStranded` speaks of states in which both mutexes are free, so it is not
inductive. The code releases the HBA mutex before the waitq mutex; between the
two, the releaser has just found nothing to start, and nobody can queue
anything because queueing needs the waitq mutex. `Settled` says so: whenever
the HBA mutex has been let go (free, or held by nobody who will process the
queue again) with the waitq mutex still to follow, the adapter's queue holds
nothing that could start. For that one must know who owns which mutex at which
label (`Owners`) and that no NULL request is used (`Pointers`); with `TypeOK`
these make `IInv`. The proof has one step per action of `Next`, lemmas about the
queue operations of `GhdWaitq` (they keep types and leave other devices alone)
and about processing (it stops only when nothing can start or the driver has
refused). `IInv` is the first part of `QueueInv`, which the run `recovery`
checks on a small instance.

`GhdQueues_proofs`:

- `QueueInvAlways`: `Spec => []QueueInv`,
- `AlwaysExactlyOnce`: `Spec => []ExactlyOnce`,
- `TimersAlwaysExact`: `Spec => []TimersExact`,
- `ResetAlwaysHits`: `Spec => []ResetHitsItsRequest`,
- `RecoveryEscalates`: `Spec => Escalates`,
- `DoneqAlwaysAttended`: `Spec => []DoneqAttended`,
- `CountersAlwaysExact`: `Spec => []CountersExact`,
- `DeviceAlwaysFilled`: `Spec => []DeviceFilled`,
- `CompletionsInOrder`: `Spec => CompletionOrder`,
- `GhdImplementsService`: `Spec => ImplementsService`, the refinement.

That a request is in one place is not inductive by itself, since nine paths
move requests and each trusts something it does not look at: a completion trusts
that the request is active, `sol11ghd_waitq_delete` that `cmd_waitq_level` says
which queue it is on, a step of recovery that the request it was called for has
not been completed since. `QueueInv` therefore ties three things together. First
`Control`: the HBA mutex is held only at certain program points, its owner's
locals start afresh, and a thread in the loop of `ghd_poll` has not seen its own
request yet (`AtPoint`). Then for each request `OnePlace`, `StateTells` and
`TimerTells`: it is on a queue, popped, active, on the doneq, set aside by a
poll, or in the hands of a thread, in one of these at most, and its state, level
and timer follow from which; with `NoRepeat` and `OneHand` it is there once.
Last `Stepping`: the request a recovery step is for still waits if it is to be
finished early, and is active and below the step's state otherwise, which is why
a reset hits its request and recovery only climbs. The proof has a lemma for
each action; most of them change one request, and two lemmas say what follows
for the others. The counters need the cardinality of what is in flight
(`Throttled`), counted over the queues of each device, and that the level a
completion leaves behind is no longer looked at. That a throttle with room keeps
nothing back is a second invariant over the same steps, and that a completed
request is attended a third (`Coming`): a poll in progress will trigger the
softintr, a softintr is pending, or its thread is in its loop.

A poll sets aside what it finds on the doneq behind what it set aside before,
and puts all of it back behind what is there then. This keeps the order only
because nothing new is completed between the one and the other: `HoldFirst`
says that when a poll with something aside looks for its status or puts it back,
the doneq is empty, so that what is aside is older than any completion still to
come. It is inductive beside `QueueInv`. The other steps complete nothing, or
append one request, and the softintr takes the head.

The refinement of `GhdService` has a lemma for each way the queues change, about
which of two requests of a device is in front (`InFront`, over both levels):
promotion changes nothing, a newcomer comes last, one that leaves changes
nothing between the others, and the head that is popped, and comes back when it
is refused, is in front of all. `ServiceIsTold` says request by request what the
refinement mapping says with sets (`InLine`, `Over`, `Ahead`); a lemma for each
kind of step of the service (`IsSubmit`, `IsStart`, ...) says what must change,
and one for each kind of step of GHD that it does. A start finds no other
request of the device ahead because the popped one is the only one popped
and is on no queue, and none started because the ATA driver has one active.

`FlowControl_proofs`:

- `IInvAlways`: `Spec => []IInv`,
- `ThrottleExact`: `Spec => []OutcntExact`,
- `NeverStalls`: `Spec => []NoStall`,
- `FlowImplementsService`: `Spec => ImplementsService`, the refinement.

The throttle is a count kept by several threads, and what it counts is spread
over their locals, so `OutcntExact` needs to know that the mutex is held exactly
where the code holds it (`Locked`), that a transfer handed on by a thread is
released (`Handed`), and that the places in which a transfer can be (queued,
held in `ds_bp`, in a thread's hands, released) exclude each other (`Apart`):
otherwise a step could count one transfer twice. Lemmas say how the cardinality
of the released set changes with one member. `NoStall` follows with a lemma per
action that gives up or takes over the duty to look at the queue.

For the refinement every action is shown to be `Submit`, `Start`, `Finish` or
`GiveBack` of `GhdService`, or none of them. What waits in `GhdService` is the
line: `ds_bp`, the queue, and an arrival that has got the mutex and is not yet
queued. A start must take its head, and here `IInv` needs `InOrder`: a new
arrival goes straight to the driver only if nothing waits in front of it.

`Qsort_proofs`, for any transfers and any block numbers:

- `QsortInvAlways`: `QsortSpec => []QsortInv`,
- `CountAlways`: `QsortSpec => []CountExact`,
- `SameBlockKept`: `QsortSpec => SameBlockInOrder`,
- `QsortImplementsScan`: `QsortSpec => ImplementsScan`, the refinement.

`oneway_scan_binary` compares a newcomer with two heads and then with successors
until one is higher. That this puts it in its place needs the list to be sorted,
equal blocks by arrival, which is what it keeps (`PutKeepsOrder`,
`PlaceDivides`); that it lands behind an earlier transfer to its block needs the
next pass to hold only blocks below the head of this one. With both, the head
of `b_actf` is the transfer that comparison with every other waiting one would
choose (`HeadFirst`), and a test against the head decides the pass as
`OneWayScan` does. The run `flow` checks the refinement on a small instance; it
implies the order for one block, and the other two follow by proof only.

`AtaCtlr_proofs`, for any requests on up to two drives, any lengths, and drives
that answer and interrupt out of turn:

- `IInvAlways`: `Spec => []IInv`,
- `TypeCorrect`: `Spec => []TypeOK`,
- `OneActiveAlways`: `Spec => []OneActive`,
- `IdleDrivesAlways`: `Spec => []IdleDrives`,
- `CtlrImplementsService`: `Spec => ImplementsService`, the refinement.

`OneActive` and `IdleDrives` speak of states between calls, while the loop
around `ata_ctlr_fsm` takes several steps. What holds in the middle: the fields
of the controller are all clear or all set for one request (`CtlOK`); that
request, or else the one `ata_hba_start` is asking for, is what GHD takes for
active (`HandedOver`); a call beyond its start works on it (`CallOK`); and a
drive's state machine or the DMA engine runs only for it, and has stopped by the
time it is wrapped up (`EnginesOK`). The last needs the tables of `atapi_fsm.c`:
every entry that wraps a request up also leads to S_IDLE (`Tables`).

`AtaData_proofs`, about what a request comes back with:

- `ErrorsAreRealAlways`: `Spec => []ErrorsAreReal`, if not `BsyWait`,
- `SenseAlwaysItsOwn`: `Spec => []SenseIsItsOwn`, if `MaxSpurious = 0`,
- `DataAlwaysAccounted`: `Spec => []DataAccounted`, if `MaxSpurious = 0` and no
  packet request uses DMA.

The first assumption is needed: with `AC_BSY_WAIT` the run `ctlr_busy` violates
the property. So is the exclusion of DMA, see above. A drive that shows BSY
clear before its data is there makes the driver count data that never came, or
take an ARQ for done that fetched nothing; TLC finds both in the instance of
`ctlr` with `MaxSpurious = 1`. For drives that keep to their turn,
`InStep` says that `ad_state` and `ap_resid` agree with what the drive went
through; by it each interrupt meets the one entry of the tables that fits
(`IntrInTurn`). `SenseReady` and `ArqInStep` carry the sense data from the
failure to the ARQ that fetches them, over a reset in between (`Quiet`).

`DadkTransfer_proofs`, for any number of sectors, sections, DMA windows, DRQ
blocks, retries and errors, and any disk and table that meet the assumptions:

- `TransferInvariant`: `Spec /\ Unmapped => []TransferInv`,
- `TransferCorrect`: `Spec /\ Unmapped => []Correct`,
- `TransferInBounds`: `Spec /\ Unmapped => []InBounds`,
- `TransferErrorResid`: `Spec /\ Unmapped => []ErrorResid`,
- `TransferErrorBlock`: `Spec /\ Unmapped => []ErrorBlock`,
- `TransferSafe`: the four of them under `~DmaRemap`, as in the run `xfer`,

and, of the algorithms below the transfer,

- `BsearchFirst`: `cmdk_bbh_bsearch` finds the first entry that does not end
  before the key,
- `SliceHome`: the entries `cmdk_bbh_reopen` keeps for a slice say what the whole
  table says of its sectors,
- `GetHandleRight`: the cookies of `cmdk_bbh_gethandle` cover the transfer,
- `RoundTrip`: the three ways of loading the registers name the sector they are
  given, and are undone by `ata_last_block_xferred_*`,
- `SoundAddressable`: of a disk that is `Sound` and `Ordinary`, every sector of the
  published capacity is on the disk and is named by its registers.

`Ordinary` cannot be dropped from the last: an empty disk, and one that an int
does not count, are published as larger than they are.

`Unmapped` speaks of the first state: the transfer goes by PIO, or by DMA and
meets no bad cluster. It cannot be dropped, as the run `xfer_remap` shows.
`InBounds`, where it speaks of residuals, and `ErrorResid` except the sections
by DMA whose `ap_count` is 0; `ErrorBlock` says what their residual is.

`Correct` speaks of the end of a transfer and says nothing of how it gets there.
`TransferInv` says at every step where the section lies (`Lies`): the sectors
before it are `N - cp_byteleft`, its registers name the place of the first of
its own, and what is left of its bad block cookie, and the cookies behind it,
go on where it ends (`Behind`). Of those sectors it says which count
(`Counted`) and that they are in place (`Sure`); and how far the drive is, which
the driver never asks: what it takes `ap_count` for is the length of the section,
also where the count was cut to 0 (`CountTaken`); what it will still transfer is
what the driver still expects (`Reading`, `Writing`), a chunk that was written but not confirmed is on
the disk unless the drive reports an error (`Written`), and where a DMA stopped
is where the sectors in place end (`DmaRuns`). That a chunk moved now harms none
moved before needs no two sectors of the transfer to be in one place
(`PlaceApart`), which is where the assumption about alternates is used. A PIO
section that is tried again starts over and may move fewer sectors, a DMA
section is repeated whole with the residual of the failure still there.

The induction over data is done without the library's theorems, which take
operators. A set of naturals has a least element (`LeastNat`), so a set that has
n when it has all smaller numbers has all (`SetInduction`), and with it a
recursive function whose body looks only at arguments of lower rank is the
function its definition says (`RecursionDefines`). The search is then shown by
the length of its interval, a power of two, and the cut by the number of entries
left; the invariant of the search is `Reach`.

`DiskStack_proofs`, for any nodes, units, partitions, types of open and callers:

- `StackAlwaysInv`: `Spec => []StackInv`,
- `NothingEverLeft`: `Spec => []NothingLeft`,
- `AlwaysGrounded`: `Spec => []Grounded`,
- `StackAlwaysStands`: `Spec => []StackStands`,
- `ChannelsAlwaysApart`: `Spec => []ChannelsApart`,
- `OpensAlwaysAccounted`: `Spec => []OpensAccounted`,
- `LabelAlwaysFresh`: `Spec => []LabelFresh`,
- `BbhAlwaysFresh`: `Spec => []BbhFresh`,
- `BbhAlwaysStable`: `Spec => []BbhStable`,
- `DevidAlwaysKept`: `Spec => DevidKept`.

`NothingLeft` names what stays: the mutex of reset notification once it was
initialised, and of a unit its queue, if making its objects failed, or else its
bad block table, the counts and the devid. All else that was taken is given
back, and once.

Attach unwinds by labels, detach by the bits of `ac_flags`, so that nothing else
is left needs, for each resource, the steps at which it is held (`HeldBy`) and what
the flags tell of it at the others (`FlagsTell`). A unit uses its node, its
node's target structure and its controller, which are given back in the opposite
order: `NodeInv` says which structure belongs to which node and that it is there
only below an attached controller, `UnitNodes` that a unit has a node of a disk.
For the rest of `cmdk.c`: only attached units are open and only open ones are
used by a transfer or a call (`InUse`), two callers in one ioctl know of each
other (`Company`), and the versions of the bad block table are in order, from
the last that was surely installed over the one a caller began with to the one
it read and the one on the disk (`Versions`). `BbhFresh` follows from the last
two, since the lock protects the installation but not the reading. `StackInv`
has been checked with TLC on the instance of the run `stack`.

`ChannelsApart` is about the functions of `pci-ide.c` and needs no invariant of
the stack. `NexusOf` is what an initialisation of a child keeps (`NexusComes`):
a child that has come has the property `compatibility-mode` if, and only if,
the class code does not call its channel native, and until then none that is
native has it. With this each number of a tuple leads past those of the other
channel, in each of the orders boot code uses (`TupleFound`).

Only model-checked:

- all liveness properties: liveness and ENABLED are out of the prover's reach;
- the transfers by DMA that meet a bad cluster: they are wrong (`xfer_remap`).

No module uses RECURSIVE.

## Not modelled

- `strategy.c`: `qmerge`, `qtag`, `duplx`, `adapt`: they have no caller.
- `dadk.c`: ioctls, the flush cache protocol, dump; the media watch depends on
  DCMD_GET_STATE, for which the ATA driver passes no buffer.
- `cmdk.c`: suspend and resume, which call cmlb and dadk only, dump,
  properties, and ioctls without state of their own.
- `ata_common.c`, `ata_disk.c`, `atapi.c`: property calls, choice of transfer
  modes, power management, ioctls, packet allocation.
- `ghd_scsa.c`, `ghd_scsi.c`, `ghd_gcmd.c`, `ghd_debug.c`, `gda.c`,
  `ata_debug.c`, `ata_blacklist.c`, `sil3xxx.c`: conversions, tables, messages
  and register setup without state over time.
- `pci-ide.c`: attach, interrupt priorities, and the calls it only passes on.

What would extend the project most: `Ghd` over `AtaCtlr` in place of its
abstract HBA driver, for one device; and `DadkTransfer` over `AtaCtlr` instead of
its own drive.
