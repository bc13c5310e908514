---------------------------- MODULE DadkTransfer ----------------------------
(***************************************************************************)
(* One disk transfer (struct buf) from dadk_ioprep to biodone: dadk.c cuts *)
(* it into sections and retries them, ata_disk.c sets up each section and  *)
(* runs it against the drive by PIO or by DMA.                             *)
(*                                                                         *)
(* All counts are in sectors and buffer addresses are offsets, so sector i *)
(* of the buffer belongs to disk sector FirstSec + i or, when that is bad, *)
(* to its alternate (module BadBlocks); the drive is told the sector in    *)
(* its registers (module AtaGeometry). The drive obeys the ATA protocol:   *)
(* it interrupts once per DRQ block (not for the first block of a write),  *)
(* holds DRQ until the whole block is moved, and may fail or be slow. What *)
(* GHD does between CTL_TRANSPORT and ata_hba_start is module Ghd.         *)
(***************************************************************************)
EXTENDS BadBlocks, AtaGeometry, FiniteSets

CONSTANTS
  N,          \* sectors of the transfer (b_bcount)
  FirstSec,   \* its first sector on the disk
  Dirs,       \* directions: subset of {"read", "write"}
  Dmas,       \* subset of BOOLEAN: has the buffer a DMA handle?
  MaxTransfer,\* ac_max_transfer
  UIntSectors,\* sectors whose bytes a uint_t counts (2^23)
  Window,     \* sectors that one DMA window covers
  Segment,    \* sectors that one DMA cookie covers
  Disks,      \* disks: identify data, BIOS geometry and bad block table
  SliceFirst, SliceLast, \* the slice of the transfer
  DmaRemap,   \* may a transfer by DMA meet a bad sector?
  Factor,     \* ad_block_factor: sectors per DRQ block of READ/WRITE MULTIPLE
  RetryCount, \* DADK_RETRY_COUNT
  MaxErrors,  \* bound: errors the drive reports
  MaxSlow,    \* bound: waits for BSY or DRQ that time out
  ErrorData,  \* may the drive offer the data of a sector it reports bad?
  DmaFaults   \* may the PCI-IDE chip report a bus error?

ASSUME TransferAssumption ==
  /\ N \in Nat \ {0}
  /\ MaxTransfer \in 1 .. Reg        \* max_transfer is in 1 .. 0x100
  /\ UIntSectors \in Nat /\ UIntSectors > Reg
  /\ Window \in 1 .. MaxTransfer      \* dma_attr_maxxfer
  /\ Segment \in 1 .. Window
  /\ SliceFirst \in Nat /\ SliceLast \in Nat
  /\ FirstSec \in SliceFirst .. SliceLast     \* what cmdkstrategy lets through
  /\ FirstSec + N - 1 <= SliceLast
  /\ DmaRemap \in BOOLEAN
  /\ Factor \in Nat \ {0} /\ RetryCount \in Nat
  /\ MaxErrors \in Nat /\ MaxSlow \in Nat
  /\ Dirs \subseteq {"read", "write"} /\ Dmas \subseteq BOOLEAN
  /\ ErrorData \in BOOLEAN /\ DmaFaults \in BOOLEAN

(* The slice is in the disk; the alternates of bad clusters are elsewhere  *)
(* on the disk, and of different clusters apart.                           *)
Alternates(e) == e.good_start .. e.good_start + e.bad_end - e.bad_start
ASSUME DiskAssumption ==
  \A d \in Disks :
    /\ Sound(d.id, d.bios) /\ Ordinary(d.id, d.bios)
    /\ SliceLast < Published(d.id, d.bios)
    /\ Sorted(d.table)
    /\ \A k \in DOMAIN d.table :
         /\ Alternates(d.table[k]) \subseteq 0 .. Capacity(d.id) - 1
         /\ Alternates(d.table[k]) \cap (SliceFirst .. SliceLast) = {}
         /\ \A j \in DOMAIN d.table :
              j # k => Alternates(d.table[j]) \cap Alternates(d.table[k]) = {}

VARIABLES
  at,     \* where the request is
  dir,    \* B_READ or not
  dma,    \* cmd_dma_handle # NULL
  disk,   \* the disk
  alts,   \* the entries of the slice in the bad block table
  pkt,    \* the cmpkt and its ata_pkt
  bp,     \* b_resid and b_error
  dev,    \* the drive
  moved,  \* history: the source of each sector moved, by its destination
  faulted,\* history: a DMA met a bus error
  errors, slow \* budgets used

vars == <<at, dir, dma, disk, alts, pkt, bp, dev, moved, errors, faulted, slow>>

Places == {"queued", "wait", "poll_start", "intr", "poll_next", "complete",
           "backoff", "finished"}
Least(a, b) == IF a < b THEN a ELSE b

-----------------------------------------------------------------------------
(* Setting up a section.                                                   *)

(* A DMA section is made of whole DMA cookies: as many as n asks for, or   *)
(* those up to the end of the window. A negative n, converted to an        *)
(* unsigned count, asks for all.                                           *)
DmaSection(c, n) ==
  LET end  == Least(N, Window * (c \div Window + 1))
      ends == {end} \cup {e \in c + 1 .. end : e % Segment = 0 /\ e - c >= n /\ n > 0}
  IN (CHOOSE e \in ends : \A f \in ends : e <= f) - c

(* ghd_dmaget_attr hands the cookies out in their order; cmd_windex and    *)
(* cmd_cindex are kept as the offset they stand for. A PIO section takes n *)
(* sectors. ap_count is what the count register takes: "the sector count 0 *)
(* represents 256 sectors" without 48-bit addressing.                      *)
SetSection(p, n) ==
  LET len == IF dma THEN DmaSection(p.cursor, n) ELSE n
  IN [p EXCEPT !.flags = {}, !.sg = p.cursor,
               !.cursor = IF dma THEN @ + len ELSE @,
               !.count = IF Ext48(disk.id) THEN len ELSE len % Reg,
               !.startsec = p.srtsec,
               !.bytexfer = len, !.cp_resid = len, !.resid = len]

(* CTL_IOSETUP, ata_disk_iosetup. With AP_ERROR it is a retry: a DMA       *)
(* request is left as it is, a PIO request restarts with one sector.       *)
IosetupForgetsAddr(p) ==  \* a slip: the retry goes on where the error left it
  IF "ERROR" \notin p.flags
  THEN SetSection([p EXCEPT !.v_addr_sav = p.v_addr], Least(p.bytexfer, MaxTransfer))
  ELSE IF dma THEN [p EXCEPT !.flags = {}]
  ELSE SetSection([p EXCEPT !.bytes_per_block = 1], 1)
Iosetup(p) ==
  IF "ERROR" \notin p.flags
  THEN SetSection([p EXCEPT !.v_addr_sav = p.v_addr], Least(p.bytexfer, MaxTransfer))
  ELSE IF dma THEN [p EXCEPT !.flags = {}]
  ELSE SetSection([p EXCEPT !.bytes_per_block = 1, !.v_addr = p.v_addr_sav], 1)

(* dadk_iosetup: past the section just done, or to the next bad block      *)
(* cookie; without a handle the transfer is one.                           *)
DadkIosetup(p) ==
  LET left == p.secleft - p.bytexfer
      next == IF p.cookies = <<>> THEN Cookie(FirstSec, N) ELSE p.cookies[p.h_idx]
  IN Iosetup(IF left # 0
             THEN [p EXCEPT !.secleft = left, !.srtsec = @ + p.bytexfer,
                            !.bytexfer = left]
             ELSE [p EXCEPT !.secleft = next.seclen, !.srtsec = next.sector,
                            !.bytexfer = next.seclen, !.h_idx = @ + 1])

NewPkt == [byteleft |-> N, bytexfer |-> 0, srtsec |-> 0, secleft |-> 0,
           retry |-> 0, cp_resid |-> 0, flags |-> {}, error |-> "none",
           v_addr |-> 0, v_addr_sav |-> 0, resid |-> 0,
           bytes_per_block |-> Factor, count |-> 0, startsec |-> 0,
           wrt_count |-> 0, sg |-> 0, cursor |-> 0,
           cookies |-> GetHandle(alts, FirstSec, N), h_idx |-> 1]
IdleDev == [state |-> "idle", lba |-> 0, left |-> 0, first |-> 0, block |-> 0,
            irq |-> FALSE, error |-> "none"]

(* dadk_ioprep, and the transport that follows it.                         *)
Init ==
  /\ dir \in Dirs /\ dma \in Dmas
  /\ disk \in Disks
  /\ alts = SliceEntries(disk.table, SliceFirst, SliceLast)
  /\ dma /\ ~DmaRemap => GetHandle(alts, FirstSec, N) = <<>>
  /\ at = "queued"
  /\ pkt = DadkIosetup(NewPkt)
  /\ bp = [resid |-> 0, error |-> "none"]
  /\ dev = IdleDev /\ moved = <<>>
  /\ errors = 0 /\ slow = 0 /\ faulted = FALSE

-----------------------------------------------------------------------------
(* The drive.                                                              *)

(* What it takes a count register for.                                     *)
CountTaken(count) ==
  IF count # 0 THEN count ELSE IF Ext48(disk.id) THEN Reg * Reg ELSE Reg

(* lba is its next sector, left how many follow, block what is left of the *)
(* DRQ block that began at sector first.                                   *)
Command ==
  LET lba == LastBlockXferred(LoadRegs(pkt.startsec, disk.id), disk.id)
  IN [IdleDev EXCEPT !.state = "busy", !.lba = lba, !.left = CountTaken(pkt.count),
                     !.first = lba]

(* k sectors move between offset off and disk sectors lba, lba+1, ...; the *)
(* source of a sector the drive does not offer is -1.                      *)
Copy(off, lba, k, good) ==
  LET to   == IF dir = "read" THEN off ELSE lba
      from == IF dir = "read" THEN lba ELSE off
      new  == to .. to + k - 1
  IN [i \in DOMAIN moved \cup new |->
        IF i \notin new THEN moved[i]
        ELSE IF good /\ i - to < dev.block THEN from + i - to ELSE -1]

(* The next DRQ block is ready, or the last one is on the disk.            *)
DevReady ==
  /\ dev.state = "busy" /\ ~dma
  /\ LET written == dir = "write" /\ dev.left = 0
     IN dev' = [dev EXCEPT !.state = IF written THEN "idle" ELSE "drq",
                           !.first = dev.lba, !.block = Least(dev.left, Factor),
                           !.irq = dir = "read" \/ dev.lba # pkt.startsec]
  /\ UNCHANGED <<at, dir, dma, disk, alts, pkt, bp, moved, errors, faulted, slow>>

(* An error: UNC is retried by dadk, ABRT is not. A write that fails       *)
(* leaves the sectors of its last DRQ block undefined.                     *)
DevError(e) ==
  /\ dev.state = "busy" /\ ~dma
  /\ errors < MaxErrors /\ errors' = errors + 1
  /\ \E s \in {"error"} \cup
              (IF ErrorData /\ dir = "read" THEN {"error_drq"} ELSE {}) :
       dev' = [dev EXCEPT !.state = s, !.error = e, !.irq = TRUE,
                          !.block = Least(dev.left, Factor)]
  /\ moved' = IF dir = "read" THEN moved
              ELSE [i \in DOMAIN moved \ (dev.first .. dev.lba - 1) |-> moved[i]]
  /\ UNCHANGED <<at, dir, dma, disk, alts, pkt, bp, faulted, slow>>

(* DMA: the chip has moved k sectors when the drive interrupts; fewer than *)
(* all of them after an error of the drive (at sector k) or of the bus.    *)
DmaDone(k, e) ==
  /\ dev.state = "busy" /\ dma
  /\ k \in 0 .. dev.left
  /\ e = "none" => k = dev.left
  /\ e # "none" => k < dev.left /\ errors < MaxErrors
  /\ errors' = IF e = "none" THEN errors ELSE errors + 1
  /\ faulted' = (faulted \/ e = "bus")
  /\ moved' = LET off == IF dir = "read" THEN pkt.sg ELSE dev.lba
                  new == off .. off + k - 1
                  from == IF dir = "read" THEN dev.lba ELSE pkt.sg
              IN [i \in DOMAIN moved \cup new |->
                    IF i \in new THEN from + i - off ELSE moved[i]]
  /\ dev' = [dev EXCEPT !.state = IF e \in {"UNC", "ABRT"} THEN "error" ELSE "idle",
                        !.error = e, !.irq = TRUE,
                        !.lba = IF e \in {"UNC", "ABRT"} THEN @ + k
                                ELSE @ + dev.left - 1]
  /\ UNCHANGED <<at, dir, dma, disk, alts, pkt, bp, slow>>

-----------------------------------------------------------------------------
(* ata_disk.c: the start functions and the interrupts.                     *)

(* ata_disk_start_pio_in, _dma_in, _dma_out; _pio_out goes on to wait for  *)
(* DRQ.                                                                    *)
Start ==
  /\ at = "queued"
  /\ dev' = Command
  /\ LET pio_out == dir = "write" /\ ~dma
     IN /\ pkt' = IF pio_out THEN [pkt EXCEPT !.wrt_count = 0] ELSE pkt
        /\ at' = IF pio_out THEN "poll_start" ELSE "wait"
  /\ UNCHANGED <<dir, dma, disk, alts, bp, moved, errors, faulted, slow>>

Fail(p, e) == [p EXCEPT !.flags = @ \cup {"ERROR"}, !.error = e]
Finish(p) == pkt' = [p EXCEPT !.cp_resid = p.resid] /\ at' = "complete"

(* The end of ata_disk_start_pio_out; a fake interrupt follows.            *)
PollStart ==
  /\ at = "poll_start"
  /\ \/ dev.state = "busy" /\ slow < MaxSlow /\ slow' = slow + 1
     \/ dev.state # "busy" /\ slow' = slow
  /\ pkt' = IF dev.state = "drq" THEN pkt
            ELSE [pkt EXCEPT !.flags = @ \cup {"ERROR"}]
  /\ at' = "intr"
  /\ UNCHANGED <<dir, dma, disk, alts, bp, dev, moved, errors, faulted>>

(* ata_disk_intr_pio_in. After the last chunk it waits for the drive to    *)
(* clear DRQ, which may be slow to.                                        *)
IntrPioIn ==
  /\ at = "wait" /\ dev.irq /\ dir = "read" /\ ~dma
  /\ LET bad  == dev.state # "drq"
         p    == IF bad THEN Fail(pkt, dev.error) ELSE pkt
         k    == IF dev.state = "error" THEN 0
                 ELSE Least(p.resid, p.bytes_per_block)
         q    == [p EXCEPT !.v_addr = @ + k, !.resid = @ - k]
         rest == dev.block - k            \* left of the DRQ block
     IN /\ moved' = IF k = 0 THEN moved ELSE Copy(p.v_addr, dev.lba, k, ~bad)
        /\ dev' = IF bad \/ dev.left = k \/ "ERROR" \in q.flags
                  THEN [dev EXCEPT !.state = "idle", !.irq = FALSE]
                  ELSE [dev EXCEPT !.irq = FALSE, !.lba = @ + k, !.left = @ - k,
                                   !.block = rest,
                                   !.state = IF rest > 0 THEN "drq" ELSE "busy"]
        /\ \/ /\ slow' = slow
              /\ IF q.resid = 0 \/ "ERROR" \in q.flags THEN Finish(q)
                 ELSE pkt' = q /\ at' = "wait"
           \/ /\ q.resid = 0 /\ slow < MaxSlow /\ slow' = slow + 1
              /\ \E e \in {"BUSY", "ABRT"} : Finish(Fail(q, e))
  /\ UNCHANGED <<dir, dma, disk, alts, bp, errors, faulted>>

(* Its first wait times out: the drive has raised BSY again.               *)
IntrPioInBusy ==
  /\ at = "wait" /\ dev.irq /\ dir = "read" /\ ~dma
  /\ slow < MaxSlow /\ slow' = slow + 1
  /\ dev' = [dev EXCEPT !.state = "busy", !.error = "none", !.irq = FALSE]
  /\ pkt' = Fail(pkt, "BUSY")
  /\ UNCHANGED <<at, dir, dma, disk, alts, bp, moved, errors, faulted>>

IntrPioOutCountsFirst ==  \* a slip: the chunk is counted before errors are looked at
  /\ (at = "wait" /\ dev.irq) \/ at = "intr"
  /\ dir = "write" /\ ~dma
  /\ dev' = [dev EXCEPT !.irq = FALSE]
  /\ LET p == [pkt EXCEPT !.v_addr = @ + pkt.wrt_count,
                          !.resid = @ - pkt.wrt_count]
     IN IF dev.state = "error" THEN Finish(Fail(p, dev.error))
        ELSE IF p.resid = 0 THEN Finish(p)
        ELSE pkt' = p /\ at' = "poll_next"
  /\ UNCHANGED <<dir, dma, disk, alts, bp, moved, errors, faulted, slow>>
(* ata_disk_intr_pio_out: the chunk written before is confirmed ...        *)
IntrPioOut ==
  /\ (at = "wait" /\ dev.irq) \/ at = "intr"
  /\ dir = "write" /\ ~dma
  /\ dev' = [dev EXCEPT !.irq = FALSE]
  /\ LET p == [pkt EXCEPT !.v_addr = @ + pkt.wrt_count,
                          !.resid = @ - pkt.wrt_count]
     IN IF dev.state = "error" THEN Finish(Fail(pkt, dev.error))
        ELSE IF p.resid = 0 THEN Finish(p)
        ELSE pkt' = p /\ at' = "poll_next"
  /\ UNCHANGED <<dir, dma, disk, alts, bp, moved, errors, faulted, slow>>

(* ... and, once the drive asserts DRQ, the next is written.               *)
PollNext ==
  /\ at = "poll_next" /\ dev.state # "busy"
  /\ IF dev.state = "drq"
     THEN LET k    == Least(pkt.resid, pkt.bytes_per_block)
              rest == dev.block - k
          IN /\ moved' = Copy(pkt.v_addr, dev.lba, k, TRUE)
             /\ dev' = [dev EXCEPT !.lba = @ + k, !.left = @ - k, !.block = rest,
                                   !.state = IF rest > 0 THEN "drq" ELSE "busy"]
             /\ pkt' = [pkt EXCEPT !.wrt_count = k]
             /\ at' = "wait"
     ELSE Finish(Fail(pkt, dev.error)) /\ UNCHANGED <<dev, moved>>
  /\ UNCHANGED <<dir, dma, disk, alts, bp, errors, faulted, slow>>

PollNextBusy ==
  /\ at = "poll_next" /\ dev.state = "busy"
  /\ slow < MaxSlow /\ slow' = slow + 1
  /\ pkt' = Fail(pkt, "BUSY")
  /\ at' = "wait"
  /\ UNCHANGED <<dir, dma, disk, alts, bp, dev, moved, errors, faulted>>

IntrDmaNoResid ==  \* a slip: ap_resid is 0 after an error too
  /\ at = "wait" /\ dev.irq /\ dma
  /\ dev' = [dev EXCEPT !.irq = FALSE, !.state = "idle"]
  /\ Finish([(IF dev.error = "none" THEN pkt ELSE Fail(pkt, dev.error))
             EXCEPT !.resid = 0])
  /\ UNCHANGED <<dir, dma, disk, alts, bp, moved, errors, faulted, slow>>
(* ata_disk_get_resid asks the drive where it stopped.                     *)
GetResid(p) ==
  LET stop == LastBlockXferred(LoadRegs(dev.lba, disk.id), disk.id)
  IN (p.startsec + p.count - stop) % UIntSectors
(* ata_disk_intr_dma. A bus error does not record the drive's error.       *)
IntrDma ==
  /\ at = "wait" /\ dev.irq /\ dma
  /\ dev' = [dev EXCEPT !.irq = FALSE, !.state = "idle"]
  /\ LET p == CASE dev.error = "none" -> pkt
               [] dev.error = "bus"  -> Fail(pkt, pkt.error)
               [] OTHER              -> Fail(pkt, dev.error)
     IN Finish([p EXCEPT !.resid = IF "ERROR" \in p.flags THEN GetResid(p) ELSE 0])
  /\ UNCHANGED <<dir, dma, disk, alts, bp, moved, errors, faulted, slow>>

(* Its wait for the drive to clear DRQ times out: it returns before the    *)
(* status is read, so the interrupt stays.                                 *)
IntrDmaStuck ==
  /\ at = "wait" /\ dev.irq /\ dma
  /\ slow < MaxSlow /\ slow' = slow + 1
  /\ \E e \in {"BUSY", "ABRT"} : pkt' = Fail(pkt, e)
  /\ UNCHANGED <<at, dir, dma, disk, alts, bp, dev, moved, errors, faulted>>

TimeoutOnlyResets ==  \* a slip: the reset leaves the request active
  /\ at = "wait"
  /\ dev' = IdleDev /\ pkt' = [pkt EXCEPT !.flags = @ \cup {"BUS_RESET"}]
  /\ UNCHANGED <<at, dir, dma, disk, alts, bp, moved, errors, faulted, slow>>
(* The request's timer runs out: an early timeout completes it, or, once   *)
(* it is active, a bus reset (module Ghd).                                 *)
Timeout ==
  /\ at \in {"queued", "wait"}
  /\ Finish([pkt EXCEPT !.flags = @ \cup {IF at = "queued" THEN "TIMEOUT" ELSE "BUS_RESET"}])
  /\ dev' = IdleDev
  /\ UNCHANGED <<dir, dma, disk, alts, bp, moved, errors, faulted, slow>>

-----------------------------------------------------------------------------
(* ata_disk_complete, dadk_pktcb and what follows.                         *)

(* dadk_errtab of the DERR_ code ata_disk_complete chooses.                *)
Action ==
  IF "ERROR" \in pkt.flags
  THEN CASE pkt.error = "UNC"  -> "QUE_COMMAND"
         [] pkt.error = "BUSY" -> "JUST_RETURN"
         [] OTHER              -> "COMMAND_DONE_ERROR"
  ELSE IF pkt.flags # {} THEN "COMMAND_DONE_ERROR"
  ELSE "COMMAND_DONE"

(* dadk_iodone: the next section, or the end.                              *)
Iodone(p, b) ==
  LET left == p.byteleft - p.bytexfer
  IN IF b.error = "none" /\ left # 0
     THEN /\ pkt' = DadkIosetup([p EXCEPT !.byteleft = left, !.retry = 0])
          /\ at' = "queued"
     ELSE /\ pkt' = [p EXCEPT !.byteleft = left]
          /\ at' = "finished"

(* dadk_ioretry with COMMAND_DONE_ERROR, which sets b_resid.               *)
GiveUp(p, e) ==
  LET b == [resid |-> bp.resid + p.byteleft - p.bytexfer + p.cp_resid, error |-> e]
  IN bp' = b /\ Iodone(p, b)

(* dadk_ioretry with QUE_COMMAND.                                          *)
Retry ==
  IF pkt.retry < RetryCount
  THEN /\ pkt' = Iosetup([pkt EXCEPT !.retry = @ + 1])
       /\ at' = "queued"
       /\ bp' = bp
  ELSE GiveUp([pkt EXCEPT !.retry = @ + 1], "ENXIO")

Pktcb ==
  /\ at = "complete"
  /\ CASE Action = "COMMAND_DONE"       -> bp' = bp /\ Iodone(pkt, bp)
       [] Action = "QUE_COMMAND"        -> Retry
       [] Action = "COMMAND_DONE_ERROR" -> GiveUp(pkt, "EIO")
       [] Action = "JUST_RETURN"        -> at' = "backoff" /\ UNCHANGED <<pkt, bp>>
  /\ UNCHANGED <<dir, dma, disk, alts, dev, moved, errors, faulted, slow>>

(* dadk_restart, DADK_BSY_TIMEOUT later.                                   *)
Restart ==
  /\ at = "backoff"
  /\ Retry
  /\ UNCHANGED <<dir, dma, disk, alts, dev, moved, errors, faulted, slow>>

Drive ==
  \/ DevReady
  \/ \E e \in {"UNC", "ABRT"} : DevError(e)
  \/ \E k \in 0 .. N, e \in {"none", "UNC", "ABRT"} \cup
                           (IF DmaFaults THEN {"bus"} ELSE {}) : DmaDone(k, e)
Driver ==
  \/ Start \/ PollStart \/ IntrPioIn \/ IntrPioInBusy \/ IntrPioOut
  \/ PollNext \/ PollNextBusy \/ IntrDma \/ IntrDmaStuck \/ Pktcb \/ Restart
Done == at = "finished" /\ UNCHANGED vars

Next == Drive \/ Driver \/ Timeout \/ Done
Spec == Init /\ [][Next]_vars

(* The drive answers, the driver's threads run, and the timer of a request *)
(* that nothing else ends runs out.                                        *)
FairSpec == Spec /\ WF_vars(Drive) /\ WF_vars(Driver) /\ WF_vars(Timeout)

-----------------------------------------------------------------------------
(* Properties.                                                             *)

TypeOK ==
  /\ at \in Places /\ dir \in Dirs /\ dma \in Dmas
  /\ pkt.flags \subseteq {"ERROR", "TIMEOUT", "BUS_RESET"}
  /\ pkt.error \in {"none", "UNC", "ABRT", "BUSY"}
  /\ pkt.resid \in Nat /\ pkt.cp_resid \in Nat /\ bp.resid \in Nat
  /\ pkt.byteleft \in 0 .. N /\ pkt.secleft \in 0 .. N
  /\ pkt.bytexfer \in 0 .. N /\ pkt.retry \in 0 .. RetryCount + 1
  /\ pkt.count \in 0 .. MaxTransfer
  /\ bp.error \in {"none", "EIO", "ENXIO"}
  /\ errors \in 0 .. MaxErrors /\ faulted \in BOOLEAN /\ slow \in 0 .. MaxSlow

(* Where sector i of the transfer is on the disk.                          *)
OnDisk(i) == Home(disk.table, FirstSec + i)
InPlace(i) ==
  LET to   == IF dir = "read" THEN i ELSE OnDisk(i)
      from == IF dir = "read" THEN OnDisk(i) ELSE i
  IN to \in DOMAIN moved /\ moved[to] = from

(* A transfer that ends without an error has moved every sector between    *)
(* its place in the buffer and its place on the disk, around bad blocks,   *)
(* and leaves no residual: whatever sections, DMA windows and retries it   *)
(* went through (dadk_iodone, dadk_iosetup, ata_disk_iosetup,              *)
(* cmdk_bbh_gethandle, which "remaps the bad sectors to alternates").      *)
Correct ==
  at = "finished" /\ bp.error = "none" =>
    bp.resid = 0 /\ \A i \in 0 .. N - 1 : InPlace(i)

(* A DMA section of 256 sectors without 48-bit addressing has ap_count 0:  *)
(* once it met an error or a wait that timed out, ata_disk_get_resid has   *)
(* computed its residual from that (see ErrorBlock).                       *)
Misled == dma /\ pkt.count = 0 /\ errors + slow > 0

(* Nothing is ever moved to a place outside the buffer, or written on the  *)
(* disk anywhere but to the good sectors that were asked for and the       *)
(* alternates of the bad ones, and no residual wraps or exceeds what was   *)
(* asked for, but for sections that are misled (ata_disk_pio_xfer_data_in  *)
(* and _out, ata_disk_intr_dma, ghd_dmaget_attr, cmdk_bbh_bsearch).        *)
InBounds ==
  /\ TypeOK
  /\ Misled \/ {pkt.resid, pkt.cp_resid, bp.resid} \subseteq 0 .. N
  /\ IF dir = "read" THEN DOMAIN moved \subseteq 0 .. N - 1
     ELSE /\ DOMAIN moved \subseteq {OnDisk(i) : i \in 0 .. N - 1}
          /\ \A i \in DOMAIN moved : moved[i] \in 0 .. N - 1

(* What a failed transfer reports as done is done: the sectors before      *)
(* b_bcount - b_resid are in place (dadk_ioretry, ata_disk_get_resid).     *)
(* Three exceptions: a drive that offers the data of a bad PIO block has   *)
(* it counted (ata_disk_intr_pio_in), after a bus error the code asks the  *)
(* drive for its position, not the chip (ata_disk_intr_dma), and sections  *)
(* that are misled.                                                        *)
Overcount == IF ErrorData /\ dir = "read" /\ ~dma THEN Factor ELSE 0
ErrorResid ==
  at = "finished" /\ bp.error # "none" /\ ~faulted /\ ~Misled =>
    /\ bp.resid \in 0 .. N
    /\ \A i \in 0 .. N - bp.resid - 1 - Overcount : InPlace(i)

(* While the driver waits for an interrupt the drive is working on one: it *)
(* does not itself wait for the driver to move the rest of a DRQ block.    *)
(* The retry that ata_disk_iosetup sets up for PIO depends on it.          *)
NoHang == at = "wait" => dev.irq \/ dev.state = "busy"

(* When a DMA ends because the drive reports a sector bad, cp_resid is the *)
(* distance of that sector from the end of the section, from which         *)
(* dadk_chkerr and dadk_recorderr name it: "It's actually the offset to    *)
(* the block in which the error occurred" (ata_disk_get_resid). If         *)
(* ap_count is cut to 0, it is Reg (256) sectors short, in a uint_t.       *)
ErrorBlock ==
  dma /\ at = "complete" /\ dev.error = "UNC" =>
    LET toEnd == pkt.startsec + pkt.bytexfer - dev.lba
    IN pkt.cp_resid = IF pkt.count # 0 THEN toEnd
                      ELSE (toEnd - Reg) % UIntSectors

(* Every transfer ends, whatever fails on the way (dadk_pktcb).            *)
Finishes == <>(at = "finished")
=============================================================================
