------------------------------- MODULE MCStack -------------------------------
(***************************************************************************)
(* Instances of module DiskStack for TLC: two drives, nodes n0 and n1 of   *)
(* sol11cmdk for drive 0 and drive 1, n2, a second one for drive 0, and    *)
(* sd1, a SCSI node for drive 1. Beside it, in behaviours of its own, a    *)
(* disk says its size (module DiskGeometry).                               *)
(***************************************************************************)
EXTENDS DiskStack, DiskGeometry

CONSTANTS n0, n1, n2, sd1

VARIABLE object

MCTarget == [n \in Nodes |-> IF n \in {n1, sd1} THEN 1 ELSE 0]
MCClass  == [n \in Nodes |-> IF n = sd1 THEN "scsi"
                             ELSE IF n = n1 THEN "undefined" ELSE "sol11dadk"]
MCUnit   == [n \in CmdkNodes |-> IF n = n0 THEN 0 ELSE IF n = n1 THEN 1 ELSE 2]

(* Bounds. Disks are opened only below a controller that has its DMA       *)
(* engine and two disks, and while one unit is used, the other stays as it *)
(* was attached, with no label. Unit 0 has a serial number; it is opened   *)
(* in all ways until it has a bad block table, which is then reloaded.     *)
(* Unit 1 shows none when it is attached, has no such table, and labels    *)
(* are written to it. Unit 2 is not probed. A controller whose units left  *)
(* something behind is not attached again.                                 *)
Used(u) == "CMDK_OPEN" \in dk[u].flag
Bounded ==
  /\ \A u \in {0, 1} : Used(u) =>
        /\ "PCIIDE_BM" \in flags /\ drv = [t \in Targets |-> "disk"]
        /\ dk[1 - u].label = "invalid" /\ ~Used(1 - u)
        /\ u = 0 => diskid[1] = dk[1].devid /\ spoiled = {}
        /\ \/ /\ Opened(u) \cup closing[u] \subseteq {<<0, "lyr">>}
              /\ opens[u][<<0, "lyr">>] < 2 /\ exclusive[u] = {}
           \/ u = 0 /\ altsver[0] = NoTable /\ InCall(0) = {}
  /\ soft[0] = "attached" => dk[0].devid = "serial"
  /\ dk[1].devid = "serial" => Used(1)
  /\ altsver[1] = NoTable
  /\ soft[2] = "none"
  /\ step = "ioaddr" => \A u \in Units : got[u] = {}
  /\ \A c \in Callers : <<call[c].op, call[c].unit>> \in
                          {<<"none", 0>>, <<"addbad", 0>>, <<"svtoc", 1>>}

-----------------------------------------------------------------------------
(* Disks: every sound combination of a few values of each word that the    *)
(* driver looks at. With registers of four values and two heads, 28-bit    *)
(* mode ends at sector 127, a ushort_t at 15 and a short at 7; an int ends *)
(* at 255.                                                                 *)
Bios(c, h, s) == [cyl |-> c, head |-> h, sec |-> s]

(* The addressing modes: 48-bit capacities below, at and beyond what 28    *)
(* bits and an int hold, and words that are to be ignored.                 *)
MCLba ==
  [versions : {{3}, {4, 5, 6, 7}}, lba : {TRUE}, valid : {TRUE},
   curcyls : {15}, curheads : {2}, cursectrk : {3}, cursccp : {90},
   fixcyls : {0, 8, 12}, heads : {1, 2, 8, UShortMax}, sectors : {1, 3},
   cap28 : {0, 5, 120, Max28}, ext48 : BOOLEAN,
   cap48 : {100, 200, 255, 256, 360, 512, 1000}]
(* Without LBA: current words that are valid, inconsistent or beyond 63    *)
(* sectors, and capacity 0.                                                *)
MCChs ==
  [versions : {{}}, lba : {FALSE}, valid : BOOLEAN,
   curcyls : {8, 15}, curheads : {0, 2}, cursectrk : {3, 4},
   cursccp : {48, 90, 120}, fixcyls : {0, 8, 10, 12}, heads : {1, 2},
   sectors : {1, 3}, cap28 : {0}, ext48 : {FALSE}, cap48 : {0}]
MCBios == {NoBios, Bios(5, 2, 3), Bios(4, 4, 3), Bios(2, 1, 1)}

MCDisks ==
  {d \in [id : MCLba \cup MCChs, bios : MCBios] : Sound(d.id, d.bios)}

-----------------------------------------------------------------------------
MCInit ==
  /\ \/ object = "stack" /\ disk = CHOOSE d \in Disks : TRUE
     \/ object = "size"
  /\ GeomInit /\ Init
MCNext ==
  \/ object = "stack" /\ Next /\ Bounded' /\ UNCHANGED <<object, geomVars>>
  \/ object = "size" /\ GeomNext /\ UNCHANGED <<object, stackVars>>
MCSpec == MCInit /\ [][MCNext]_<<object, stackVars, geomVars>>
=============================================================================
