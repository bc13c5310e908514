---------------------------- MODULE AtaGeometry ----------------------------
(***************************************************************************)
(* How ata_disk.c turns the IDENTIFY DEVICE data of a disk into the        *)
(* capacity it publishes, and a sector number into the contents of the     *)
(* task file registers and back. A register holds Reg values (256 in the   *)
(* hardware), the head field of the drive/head register Heads (16), an     *)
(* ushort_t Reg * Reg, an int -IntMax - 1 .. IntMax.                       *)
(*                                                                         *)
(* The IDENTIFY data is a record: the geometry words, the "current" ones   *)
(* with their validity bit, the two capacities, and the capability bits;   *)
(* versions are the ATA versions it reports. bios is the property          *)
(* SUNW-ata-...-chs, a record of one-based counts, or NoBios.              *)
(***************************************************************************)
EXTENDS Integers

CONSTANTS
  Reg, Heads, \* values of a register, of its head field
  IntMax,     \* INT_MAX
  MaxSect,    \* the most sectors per track a valid geometry has (63)
  BogusCyls,  \* the cylinders made up for a disk without capacity (1025)
  NoBios      \* no geometry from the BIOS

UShortMax == Reg * Reg - 1                      \* USHRT_MAX
Max28     == Reg * Reg * Reg * Heads - 1        \* MAX_28BIT_CAPACITY
ShortEnd  == (Reg * Reg) \div 2                 \* SHRT_MAX + 1
UIntEnd   == 2 * (IntMax + 1)                   \* UINT_MAX + 1

ASSUME RegAssumption ==
  /\ Reg \in Nat \ {0, 1} /\ Heads \in 1 .. Reg - 1
  /\ MaxSect \in 1 .. Reg - 1 /\ BogusCyls \in 1 .. UShortMax
  /\ IntMax \in Nat /\ Max28 <= IntMax /\ UShortMax <= IntMax

(* Conversions of C: to short, to int, and of an int to 64 unsigned bits.  *)
ToShort(n) == ((n + ShortEnd) % (Reg * Reg)) - ShortEnd
ToInt(n)   == ((n + IntMax + 1) % UIntEnd) - (IntMax + 1)
ToU64(n)   == IF n < 0 THEN n + UIntEnd * UIntEnd ELSE n

-----------------------------------------------------------------------------
(* Capacity and geometry at ata_disk_init_drive.                           *)

(* ata_test_lba_support: mandatory since ATA-3, a capability bit before.   *)
LbaSupport(id) == id.lba \/ \E v \in id.versions : v >= 3

(* The 28-bit capacity: words 60 and 61, or without LBA the current        *)
(* geometry if it is consistent, else words 1, 3 and 6.                    *)
Capacity28(id) ==
  IF LbaSupport(id) THEN ToU64(ToInt(id.cap28))
  ELSE IF /\ id.valid
          /\ id.curheads \in 1 .. Heads /\ id.cursectrk \in 1 .. MaxSect
          /\ id.cursccp = id.curcyls * id.curheads * id.cursectrk
       THEN id.cursccp
       ELSE ToU64(ToInt(id.fixcyls * id.heads * id.sectors))

(* ata_get_capacity: 48-bit mode only when every sign of it is there.      *)
Ext48(id) ==
  /\ 6 \in id.versions /\ id.ext48
  /\ id.cap48 > Max28
  /\ Capacity28(id) = Max28
Capacity(id) == IF Ext48(id) THEN id.cap48 ELSE Capacity28(id)

(* ata_fixup_ata6_geometry, which ata_get_capacity calls on the way. The   *)
(* heads and sectors have been copied by then; what it changes is the      *)
(* cylinders that a matching BIOS geometry gets.                           *)
FixedCyls(id) ==
  IF /\ 6 \in id.versions /\ id.ext48
     /\ id.heads = UShortMax \/ id.sectors = UShortMax \/ id.fixcyls = 0
  THEN 1 ELSE id.fixcyls

LargeKeepsCyls(g) ==  \* a slip: the heads double, the cylinders are not halved
  [g EXCEPT !.cyl = IF @ > UShortMax THEN UShortMax ELSE @,
            !.head = IF g.cyl > UShortMax THEN 2 * @ ELSE @]
(* One turn of the loop of ata_fix_large_disk_geometry.                    *)
Halve(g) ==
  IF g.cyl <= UShortMax THEN g
  ELSE IF 2 * g.head > UShortMax THEN [g EXCEPT !.cyl = UShortMax]
  ELSE [g EXCEPT !.cyl = @ \div 2, !.head = 2 * @]
(* ata_fix_large_disk_geometry: heads double and cylinders halve until the *)
(* cylinders fit in 16 bits, or the heads do not.                          *)
FixLarge(g) ==
  LET twice[n \in 0 .. 2 * Reg] == IF n = 0 THEN g ELSE Halve(twice[n - 1])
  IN twice[2 * Reg]

(* The geometry for DIOCTL_GETGEOM. Without a BIOS geometry it is the      *)
(* drive's, with cylinders to fit the capacity, or a made up one if there  *)
(* is none; else that of the BIOS, with the drive's cylinders when heads   *)
(* and sectors agree: they are stored zero-based in a short on the way.    *)
DriveGeometry(id) ==
  IF Capacity(id) = 0 THEN [cyl |-> BogusCyls, head |-> 1, sec |-> 1]
  ELSE [cyl |-> (Capacity(id) \div (id.heads * id.sectors)) % UIntEnd,
        head |-> id.heads, sec |-> id.sectors]
BiosAgrees(id, bios) == bios.head = id.heads /\ bios.sec = id.sectors
Geometry(id, bios) ==
  LET g == IF bios = NoBios THEN DriveGeometry(id)
           ELSE IF BiosAgrees(id, bios)
           THEN [bios EXCEPT !.cyl = (ToShort(FixedCyls(id) - 1) + 1) % UIntEnd]
           ELSE bios
  IN IF LbaSupport(id) THEN FixLarge(g) ELSE g

(* g_cap, an int, of DIOCTL_GETGEOM and DIOCTL_GETPHYGEOM in               *)
(* ata_disk_ioctl, and the diskaddr_t that cmdk_lb_getcapacity makes of it.*)
GCap(id, bios) ==
  LET g == Geometry(id, bios) IN ToInt(g.cyl * g.head * g.sec)
Published(id, bios) == ToU64(GCap(id, bios))

-----------------------------------------------------------------------------
(* The task file. A sector register is written twice in 48-bit mode, high  *)
(* half first; hob holds the previous values.                              *)

LoadRegsLba28(n) ==
  [sect |-> n % Reg, lcyl |-> (n \div Reg) % Reg,
   hcyl |-> (n \div (Reg * Reg)) % Reg,
   head |-> (n \div (Reg * Reg * Reg)) % Heads]

LoadRegsLba48(n) ==
  LET hi == n \div (Reg * Reg * Reg)
  IN [sect |-> n % Reg, lcyl |-> (n \div Reg) % Reg,
      hcyl |-> (n \div (Reg * Reg)) % Reg, head |-> 0,
      hob |-> [sect |-> hi % Reg, lcyl |-> (hi \div Reg) % Reg,
               hcyl |-> (hi \div (Reg * Reg)) % Reg]]

(* Sectors count from 1; the geometry is the one ata_disk_initialize_-     *)
(* device_parameters programs, whatever is published, each count cut to a  *)
(* uchar_t.                                                                *)
LoadRegsChs(n, id) ==
  LET drvheads   == id.heads % Reg
      drvsectors == id.sectors % Reg
      resid      == n \div drvsectors
      cyl        == resid \div drvheads
  IN [sect |-> ((n % drvsectors) + 1) % Reg, lcyl |-> cyl % Reg,
      hcyl |-> (cyl \div Reg) % Reg, head |-> (resid % drvheads) % Heads]

(* ata_disk_start_common chooses.                                          *)
LoadRegs(n, id) ==
  IF ~LbaSupport(id) THEN LoadRegsChs(n, id)
  ELSE IF Ext48(id) THEN LoadRegsLba48(n)
  ELSE LoadRegsLba28(n)

(* ata_last_block_xferred_chs, _lba28 and _lba48 read a sector number      *)
(* back, as the drive reads the one it is sent.                            *)
LastBlockXferred(r, id) ==
  LET low == r.sect + Reg * (r.lcyl + Reg * r.hcyl)
  IN IF ~LbaSupport(id)
     THEN ((r.lcyl + Reg * r.hcyl) * (id.heads % Reg) + r.head)
          * (id.sectors % Reg) + r.sect - 1
     ELSE IF Ext48(id)
     THEN low + Reg * Reg * Reg
                * (r.hob.sect + Reg * (r.hob.lcyl + Reg * r.hob.hcyl))
     ELSE low + Reg * Reg * Reg * r.head

-----------------------------------------------------------------------------
(* What a disk and its BIOS may say. Numbers fit the fields that hold      *)
(* them: 28 and 48 bits, or, without LBA, 16 bits of cylinders, the head   *)
(* field and a byte of sectors. The default translation of the IDENTIFY    *)
(* data, and the geometry of the BIOS, do not exceed the capacity when     *)
(* they are used.                                                          *)
Identify ==
  [versions : SUBSET Nat, lba : BOOLEAN, valid : BOOLEAN, curcyls : Nat,
   curheads : Nat, cursectrk : Nat, cursccp : Nat, fixcyls : Nat,
   heads : Nat \ {0}, sectors : Nat \ {0}, cap28 : Nat, ext48 : BOOLEAN, cap48 : Nat]
Chs == [cyl : Nat, head : Nat, sec : Nat]

Sound(id, bios) ==
  /\ id \in Identify
  /\ IF LbaSupport(id) THEN id.cap28 <= Max28
     ELSE /\ id.heads <= Heads /\ id.sectors < Reg
          /\ Capacity(id) <= Reg * Reg * id.heads * id.sectors
  /\ Ext48(id) => id.cap48 <= Reg * Reg * Reg * (Reg * Reg * Reg)
  /\ bios # NoBios =>
       /\ bios \in Chs /\ bios.cyl <= ShortEnd
       /\ bios.cyl * bios.head * bios.sec <= Capacity(id)
       /\ BiosAgrees(id, bios) =>
            FixedCyls(id) * id.heads * id.sectors <= Capacity(id)

(* Disks whose capacity survives the int and the short it goes through:    *)
(* not an empty one, not one of 2^31 sectors or more, and not one whose    *)
(* cylinders, though the BIOS agrees with it, exceed a short.              *)
Ordinary(id, bios) ==
  /\ Capacity(id) \in 1 .. IntMax
  /\ bios # NoBios /\ BiosAgrees(id, bios) => FixedCyls(id) <= ShortEnd

-----------------------------------------------------------------------------
(* Every sector of the capacity that is published is on the disk, and the  *)
(* registers loaded for it name it.                                        *)
Addressable(id, bios) ==
  \A n \in 0 .. Published(id, bios) - 1 :
    n < Capacity(id) /\ LastBlockXferred(LoadRegs(n, id), id) = n
=============================================================================
