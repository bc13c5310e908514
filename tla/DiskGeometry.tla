---------------------------- MODULE DiskGeometry ----------------------------
(***************************************************************************)
(* What a disk says of its size on the way up: dadk_open reads the         *)
(* geometry of module AtaGeometry once and keeps it, and cmdk answers cmlb *)
(* from what dadk keeps. None stands for an answer not given yet.          *)
(***************************************************************************)
EXTENDS AtaGeometry

CONSTANTS
  Disks,   \* identify data and BIOS geometry of each disk
  None

ASSUME GeometryAssumption ==
  /\ \A d \in Disks : Sound(d.id, d.bios)
  /\ None \notin Int

VARIABLES
  disk,  \* the disk
  phyg,  \* dad_phyg.g_cap and dad_logg.g_cap, which are the same
  open,  \* what dadk_open returned last
  capp   \* what cmlb was told of the capacity

geomVars == <<disk, phyg, open, capp>>

GeomInit ==
  /\ disk \in Disks
  /\ phyg = 0 /\ open = None /\ capp = None

(* dadk_open of a disk that is not removable.                              *)
OpenDisk ==
  /\ phyg' = IF phyg # 0 THEN phyg ELSE GCap(disk.id, disk.bios)
  /\ open' = IF phyg' # 0 THEN "success" ELSE "failure"
  /\ UNCHANGED <<disk, capp>>

(* cmdk_lb_getcapacity; cmlb asks for a disk that is open.                 *)
GetCapacity ==
  /\ open = "success"
  /\ capp' = ToU64(phyg)
  /\ UNCHANGED <<disk, phyg, open>>

GeomNext == OpenDisk \/ GetCapacity

-----------------------------------------------------------------------------
(* Every sector of the capacity that cmlb is told of is on the disk, and   *)
(* the registers that the driver loads for that sector name it, in each of *)
(* the three addressing modes (ata_get_capacity, ata_fix_large_disk_-      *)
(* geometry, the ata_disk_load_regs functions, cmdk_lb_getcapacity): of    *)
(* disks whose capacity survives its way up. An empty disk is published    *)
(* with 1025 sectors, one of 2^31 or more wraps.                           *)
AllAddressable ==
  capp # None /\ Ordinary(disk.id, disk.bios) =>
    \A n \in 0 .. capp - 1 :
      n < Capacity(disk.id)
      /\ LastBlockXferred(LoadRegs(n, disk.id), disk.id) = n
=============================================================================
