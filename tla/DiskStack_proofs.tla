------------------------- MODULE DiskStack_proofs -------------------------
(***************************************************************************)
(* Proofs about module DiskStack: the inductive invariant StackInv of the  *)
(* controller, its nodes and the units of cmdk.c, and what it implies, for *)
(* any nodes, units, partitions, types of open and callers.                *)
(***************************************************************************)
EXTENDS DiskStack, Integers, Sequences, FiniteSetTheorems, TLAPS

-----------------------------------------------------------------------------
(* The controller                                                          *)

Entering == {"ioaddr", "pciide", "mutex", "intr", "waitq", "timer", "softintr"}
AtWork == {"drives", "atapi", "disk", "minor", "attached"}
Detaching == {"detach", "unatapi", "unminor", "undrives", "unmap1", "unmap2", "unmapbm"}
Leaving == {"untimer", "unintr", "unmutex"}

(* Whether what sol11ghd_register took is there: from the step after it to *)
(* the step that gives it back, and in ata_detach by AC_GHD_INIT.          *)
GhdHolds(steps) == step \in steps \cup AtWork \/ (step \in Detaching /\ "GHD_INIT" \in flags)

(* What the controller holds at each step of ata_attach and ata_detach.    *)
HeldBy ==
  /\ \A r \in {"soft_state", "arq_pkt"} : r \in held <=> step \notin {"off", "probe"}
  /\ \A r \in {"cmd_regs", "ctl_regs"} :
       step \in {"probe"} \cup (Entering \ {"ioaddr"}) \cup AtWork \/ "ATTACHED" \in flags
         => r \in held
  /\ \A r \in {"cmd_regs", "ctl_regs", "bm_regs"} :
       step \in {"off", "ioaddr", "destroy"} \cup Leaving => r \notin held
  /\ step \in {"unmap2", "unmapbm"} => "cmd_regs" \notin held
  /\ step = "unmapbm" => "ctl_regs" \notin held
  /\ \A r \in {"sg_handle", "sg_mem", "sg_bound"} : r \in held <=> "sg_handle" \in held
  /\ step \in {"off", "probe", "ioaddr", "pciide"} => "sg_handle" \notin held
  /\ "hba_mutex" \in held <=> GhdHolds({"intr", "waitq", "timer", "softintr"} \cup Leaving)
  /\ "intr" \in held <=> GhdHolds({"waitq", "timer", "softintr", "untimer", "unintr"})
  /\ "waitq_mutex" \in held <=> GhdHolds({"timer", "softintr"} \cup Leaving)
  /\ "timer" \in held <=> GhdHolds({"softintr", "untimer"})
  /\ "doneq_mutex" \in held <=> GhdHolds(Leaving)
  /\ "softintr" \in held <=> GhdHolds({"untimer", "unintr"})
  /\ \A r \in {"tran", "scsi_hba"} :
       r \in held <=> /\ step \in {"disk", "minor", "attached", "detach", "unatapi"}
                    /\ "ATAPI_INIT" \in flags
  /\ "minor" \in held => step \in {"attached", "detach", "unatapi", "unminor"}

(* What ata_detach goes by was noted when it was so.                       *)
FlagsTell ==
  /\ step \in Entering => "GHD_INIT" \notin flags
  /\ step \in AtWork \/ "ATTACHED" \in flags => "GHD_INIT" \in flags
  /\ step \in Entering \cup {"drives", "atapi"} => "ATAPI_INIT" \notin flags
  /\ "ATAPI_INIT" \in flags => {"SCSI_HBA_TRAN_ALLOC", "SCSI_HBA_ATTACH"} \subseteq flags
  /\ "ATTACHED" \in flags => step \in {"attached", "detach"}

(* The drives are there until ata_detach destroys them.                    *)
DrivesTell ==
  drives = IF step \in {"off", "probe", "unmap1", "unmap2", "unmapbm", "destroy"} \cup Leaving
           THEN {} ELSE UninitDrives

CtlInv == freed = {} /\ HeldBy /\ FlagsTell /\ DrivesTell

(* The nodes: below a controller that is attached, each has a target       *)
(* structure, and that of a disk is the one its entry points use.          *)
NodeInv ==
  /\ gtgts = {n \in Nodes : node[n] = "init"}
  /\ \A n \in gtgts : step = "attached" /\ drv[Target[n]] # "none"
  /\ \A n \in gtgts : drv[Target[n]] = "disk" =>
       sd_dev[Target[n]] = n /\ c_data[Target[n]] = n
  /\ \A t \in Targets : gdevs[t] = Cardinality({n \in gtgts : Target[n] = t})

-----------------------------------------------------------------------------
(* The units                                                               *)

(* A unit that is there has a node, for a disk.                            *)
UnitNodes ==
  \A u \in Units : soft[u] # "none" =>
    \E n \in CmdkNodes : Unit[n] = u /\ n \in gtgts /\ drv[Target[n]] = "disk"

(* What cmdkdetach and a failing cmdkattach will give back.                *)
UnitHolds ==
  /\ \A u \in Units : soft[u] = "probed" => got[u] \subseteq CreateObj({"locks"}, "none")
  /\ \A u \in Units : soft[u] = "attached" => "CMDK_TGDK_OPEN" \in dk[u].flag

(* Only an attached unit is open, and only an open one is used.            *)
InUse ==
  /\ \A u \in Units : Opened(u) # {} => soft[u] = "attached"
  /\ \A u \in Units : walk[u] # NoTable => Opened(u) # {}
  /\ \A c \in Callers : call[c].op # "none" =>
       call[c].unit \in Units /\ Opened(call[c].unit) # {}

(* Two callers in one ioctl of a unit know of each other.                  *)
Company ==
  \A c, d \in Callers :
    c # d /\ call[c].op # "none" /\ call[d].op = call[c].op
      /\ call[d].unit = call[c].unit => ~call[c].alone

(* The versions of the bad block table, oldest first: of the last ADDBAD   *)
(* that was alone, of one that is under way, of the table it has read.     *)
Versions ==
  /\ \A u \in Units : least[u] <= altsver[u]
  /\ \A u \in Units : soft[u] # "attached" => least[u] = NoTable
  /\ \A c \in Callers : call[c].op = "addbad" =>
       /\ least[call[c].unit] <= call[c].from /\ call[c].from <= altsver[call[c].unit]
       /\ call[c].at \in {"table", "install"} =>
            call[c].read = NoTable \/ call[c].from <= call[c].read

(* A setup that is about to write a devid, alone and with no I/O error so  *)
(* far, found none.                                                        *)
DevidInv ==
  \A c \in Callers :
    call[c].op = "svtoc" /\ call[c].at = "write" /\ call[c].alone
      /\ diskid[call[c].unit] # NoDevid => call[c].unit \in spoiled

CmdkInv ==
  /\ CmdkTypeOK /\ UnitHolds /\ UnitsGivenBack
  /\ InUse /\ OpensAccounted /\ LabelFresh
  /\ Company /\ BbhStable /\ BbhFresh /\ Versions /\ DevidInv

StackInv == BusTypeOK /\ CtlInv /\ NodeInv /\ UnitNodes /\ CmdkInv

-----------------------------------------------------------------------------
(* The controller: one step of ata_attach, ata_detach or the probe.        *)

CtlStep == BusStep \/ DestroyController

(* What is held, after a step of the controller.                           *)
LEMMA HeldStep ==
  ASSUME BusTypeOK, CtlInv, CtlStep
  PROVE  HeldBy' /\ freed' = {}
<1>1. CASE ProbeCtl
  BY <1>1 DEF ProbeCtl, Take, SetupIoaddr, CtlInv, HeldBy, GhdHolds, Entering, AtWork, Detaching, Leaving
<1>2. CASE ProbeDone
  BY <1>2 DEF ProbeDone, Give, CtlInv, HeldBy, FlagsTell, GhdHolds, Entering, AtWork, Detaching, Leaving
<1>3. CASE Attach
  BY <1>3 DEF Attach, Take, CtlInv, HeldBy, GhdHolds, Entering, AtWork, Detaching, Leaving
<1>4. CASE MapRegisters
  BY <1>4 DEF MapRegisters, Take, SetupIoaddr, CtlInv, HeldBy, FlagsTell, GhdHolds, Entering, AtWork, Detaching, Leaving
<1>5. CASE InitPciide
  BY <1>5 DEF InitPciide, Take, PciideAlloc, CtlInv, HeldBy, FlagsTell, GhdHolds, Entering, AtWork, Detaching, Leaving
<1>6. CASE RegisterMutex
  BY <1>6 DEF RegisterMutex, Take, CtlInv, HeldBy, FlagsTell, GhdHolds, Entering, AtWork, Detaching, Leaving
<1>7. CASE RegisterIntr
  BY <1>7 DEF RegisterIntr, Take, Give, CtlInv, HeldBy, FlagsTell, GhdHolds, Entering, AtWork, Detaching, Leaving
<1>8. CASE RegisterTimer
  BY <1>8 DEF RegisterTimer, Take, Give, CtlInv, HeldBy, FlagsTell, GhdHolds, Entering, AtWork, Detaching, Leaving
<1>9. CASE RegisterDoneq
  BY <1>9 DEF RegisterDoneq, Take, Give, CtlInv, HeldBy, FlagsTell, GhdHolds, Entering, AtWork, Detaching, Leaving
<1>10. CASE InitDrives
  BY <1>10 DEF InitDrives, CtlInv, HeldBy, GhdHolds
<1>11. CASE DrivesDone
  BY <1>11 DEF DrivesDone, CtlInv, HeldBy, FlagsTell, GhdHolds, Entering, AtWork, Detaching, Leaving
<1>12. CASE AtapiAttach
  BY <1>12 DEF AtapiAttach, Take, CtlInv, HeldBy, FlagsTell, GhdHolds, Entering, AtWork, Detaching, Leaving
<1>13. CASE DiskAttach
  BY <1>13 DEF DiskAttach, CtlInv, HeldBy, FlagsTell, GhdHolds, Entering, AtWork, Detaching, Leaving
<1>14. CASE AttachDone
  BY <1>14 DEF AttachDone, Take, CtlInv, HeldBy, FlagsTell, GhdHolds, Entering, AtWork, Detaching, Leaving
<1>15. CASE Detach
  BY <1>15 DEF Detach, CtlInv, HeldBy, FlagsTell, GhdHolds, Entering, AtWork, Detaching, Leaving
<1>16. CASE TimerDetach
  BY <1>16 DEF TimerDetach, Give, CtlInv, HeldBy, GhdHolds, Entering, AtWork, Detaching, Leaving
<1>17. CASE Unregister
  BY <1>17 DEF Unregister, Give, GhdMutexes, CtlInv, HeldBy, GhdHolds, Entering, AtWork, Detaching, Leaving
<1>18. CASE DestroyController
  BY <1>18 DEF DestroyController, Give, PciideFree, CtlInv, HeldBy, GhdHolds, Entering, AtWork, Detaching, Leaving
<1>19. CASE DisableIntr
  BY <1>19 DEF DisableIntr, CtlInv, HeldBy, FlagsTell, GhdHolds, Entering, AtWork, Detaching, Leaving
<1>20. CASE AtapiDetach
  BY <1>20 DEF AtapiDetach, Give, AtapiHeld, CtlInv, HeldBy, FlagsTell, GhdHolds, Entering, AtWork, Detaching, Leaving
<1>21. CASE RemoveMinor
  BY <1>21 DEF RemoveMinor, Give, CtlInv, HeldBy, FlagsTell, GhdHolds, Entering, AtWork, Detaching, Leaving
<1>22. CASE DestroyDrives
  BY <1>22 DEF DestroyDrives, CtlInv, HeldBy, FlagsTell, GhdHolds, Entering, AtWork, Detaching, Leaving
<1>23. CASE Unmap
  BY <1>23 DEF Unmap, Give, CtlInv, HeldBy, FlagsTell, GhdHolds, Entering, AtWork, Detaching, Leaving
<1>24. CASE RegisterWaitq
  BY <1>24 DEF RegisterWaitq, Take, CtlInv, HeldBy, FlagsTell, GhdHolds, Entering, AtWork, Detaching, Leaving
<1> QED
  BY <1>1, <1>2, <1>3, <1>4, <1>5, <1>6, <1>7, <1>8, <1>9, <1>10, <1>11, <1>12, <1>13,
     <1>14, <1>15, <1>16, <1>17, <1>18, <1>19,
     <1>20, <1>21, <1>22, <1>23, <1>24 DEF CtlStep, BusStep

(* The flags that ata_detach goes by.                                      *)
LEMMA FlagsStep ==
  ASSUME BusTypeOK, CtlInv, CtlStep
  PROVE  FlagsTell'
<1>1. CASE ProbeCtl
  BY <1>1 DEF ProbeCtl, CtlInv, FlagsTell, Entering, AtWork
<1>2. CASE ProbeDone
  BY <1>2 DEF ProbeDone, CtlInv, FlagsTell, Entering, AtWork
<1>3. CASE Attach
  BY <1>3 DEF Attach, CtlInv, FlagsTell, Entering, AtWork
<1>4. CASE MapRegisters
  BY <1>4 DEF MapRegisters, CtlInv, FlagsTell, Entering, AtWork
<1>5. CASE InitPciide
  BY <1>5 DEF InitPciide, CtlInv, FlagsTell, Entering, AtWork
<1>6. CASE RegisterMutex
  BY <1>6 DEF RegisterMutex, CtlInv, FlagsTell, Entering, AtWork
<1>7. CASE RegisterIntr
  BY <1>7 DEF RegisterIntr, CtlInv, FlagsTell, Entering, AtWork
<1>8. CASE RegisterTimer
  BY <1>8 DEF RegisterTimer, CtlInv, FlagsTell, Entering, AtWork
<1>9. CASE RegisterDoneq
  BY <1>9 DEF RegisterDoneq, CtlInv, FlagsTell, Entering, AtWork
<1>10. CASE InitDrives
  BY <1>10 DEF InitDrives, CtlInv, FlagsTell, Entering, AtWork
<1>11. CASE DrivesDone
  BY <1>11 DEF DrivesDone, CtlInv, FlagsTell, Entering, AtWork
<1>12. CASE AtapiAttach
  BY <1>12 DEF AtapiAttach, CtlInv, FlagsTell, Entering, AtWork
<1>13. CASE DiskAttach
  BY <1>13 DEF DiskAttach, CtlInv, FlagsTell, Entering, AtWork
<1>14. CASE AttachDone
  BY <1>14 DEF AttachDone, CtlInv, FlagsTell, Entering, AtWork
<1>15. CASE Detach
  BY <1>15 DEF Detach, CtlInv, FlagsTell, Entering, AtWork
<1>16. CASE TimerDetach
  BY <1>16 DEF TimerDetach, CtlInv, FlagsTell, Entering, AtWork
<1>17. CASE Unregister
  BY <1>17 DEF Unregister, CtlInv, FlagsTell, Entering, AtWork
<1>18. CASE DestroyController
  BY <1>18 DEF DestroyController, CtlInv, FlagsTell, Entering, AtWork
<1>19. CASE DisableIntr
  BY <1>19 DEF DisableIntr, CtlInv, FlagsTell, Entering, AtWork
<1>20. CASE AtapiDetach
  BY <1>20 DEF AtapiDetach, CtlInv, FlagsTell, Entering, AtWork
<1>21. CASE RemoveMinor
  BY <1>21 DEF RemoveMinor, CtlInv, FlagsTell, Entering, AtWork
<1>22. CASE DestroyDrives
  BY <1>22 DEF DestroyDrives, CtlInv, FlagsTell, Entering, AtWork
<1>23. CASE Unmap
  BY <1>23 DEF Unmap, CtlInv, FlagsTell, Entering, AtWork
<1>24. CASE RegisterWaitq
  BY <1>24 DEF RegisterWaitq, CtlInv, FlagsTell, Entering, AtWork
<1> QED
  BY <1>1, <1>2, <1>3, <1>4, <1>5, <1>6, <1>7, <1>8, <1>9, <1>10,
     <1>11, <1>12, <1>13, <1>14, <1>15, <1>16, <1>17, <1>18, <1>19,
     <1>20, <1>21, <1>22, <1>23, <1>24 DEF CtlStep, BusStep

(* The drive structures: ata_detach frees those that the loop allocated.   *)
LEMMA DrivesStep ==
  ASSUME BusTypeOK, CtlInv, CtlStep
  PROVE  DrivesTell'
<1>1. CASE ProbeCtl
  BY <1>1 DEF ProbeCtl, CtlInv, DrivesTell, UninitDrives, Leaving
<1>2. CASE ProbeDone
  BY <1>2 DEF ProbeDone, CtlInv, DrivesTell, UninitDrives, Leaving
<1>3. CASE Attach
  BY <1>3 DEF Attach, CtlInv, DrivesTell, UninitDrives, Leaving
<1>4. CASE MapRegisters
  BY <1>4 DEF MapRegisters, CtlInv, DrivesTell, UninitDrives, Leaving
<1>5. CASE InitPciide
  BY <1>5 DEF InitPciide, CtlInv, DrivesTell, UninitDrives, Leaving
<1>6. CASE RegisterMutex
  BY <1>6 DEF RegisterMutex, CtlInv, DrivesTell, UninitDrives, Leaving
<1>7. CASE RegisterIntr
  BY <1>7 DEF RegisterIntr, CtlInv, DrivesTell, UninitDrives, Leaving
<1>8. CASE RegisterTimer
  BY <1>8 DEF RegisterTimer, CtlInv, DrivesTell, UninitDrives, Leaving
<1>9. CASE RegisterDoneq
  BY <1>9 DEF RegisterDoneq, CtlInv, DrivesTell, UninitDrives, Leaving
<1>10. CASE InitDrives
  <2>1. PICK t \in Targets, busy, identify, identify_packet, ok \in BOOLEAN :
          /\ t \notin drives
          /\ LET kind == DriveType(busy, identify, identify_packet)
             IN InitDrive(t, kind, ok /\ kind # "none")
    BY <1>10 DEF InitDrives
  <2>2. drv \in [Targets -> {"none", "disk", "atapi"}] /\ drives = UninitDrives
    BY <1>10 DEF BusTypeOK, CtlInv, DrivesTell, InitDrives, Leaving
  <2>3. \E kind \in {"none", "disk", "atapi"} :
          /\ drives' = IF kind # "none" THEN drives \cup {t} ELSE drives
          /\ drv' = [drv EXCEPT ![t] = kind]
    BY <2>1 DEF InitDrive, DriveType
  <2>4. drives' = UninitDrives'
    BY <2>1, <2>2, <2>3 DEF UninitDrives
  <2> QED
    BY <1>10, <2>4 DEF InitDrives, DrivesTell, Leaving
<1>11. CASE DrivesDone
  BY <1>11 DEF DrivesDone, CtlInv, DrivesTell, UninitDrives, Leaving
<1>12. CASE AtapiAttach
  BY <1>12 DEF AtapiAttach, CtlInv, DrivesTell, UninitDrives, Leaving
<1>13. CASE DiskAttach
  BY <1>13 DEF DiskAttach, CtlInv, DrivesTell, UninitDrives, Leaving
<1>14. CASE AttachDone
  BY <1>14 DEF AttachDone, CtlInv, DrivesTell, UninitDrives, Leaving
<1>15. CASE Detach
  BY <1>15 DEF Detach, CtlInv, DrivesTell, UninitDrives, Leaving
<1>16. CASE TimerDetach
  BY <1>16 DEF TimerDetach, CtlInv, DrivesTell, UninitDrives, Leaving
<1>17. CASE Unregister
  BY <1>17 DEF Unregister, CtlInv, DrivesTell, UninitDrives, Leaving
<1>18. CASE DestroyController
  BY <1>18 DEF DestroyController, CtlInv, DrivesTell, UninitDrives, Leaving
<1>19. CASE DisableIntr
  BY <1>19 DEF DisableIntr, CtlInv, DrivesTell, UninitDrives, Leaving
<1>20. CASE AtapiDetach
  BY <1>20 DEF AtapiDetach, CtlInv, DrivesTell, UninitDrives, Leaving
<1>21. CASE RemoveMinor
  BY <1>21 DEF RemoveMinor, CtlInv, DrivesTell, UninitDrives, Leaving
<1>22. CASE DestroyDrives
  BY <1>22 DEF DestroyDrives, CtlInv, DrivesTell, UninitDrives, Leaving
<1>23. CASE Unmap
  BY <1>23 DEF Unmap, CtlInv, DrivesTell, UninitDrives, Leaving
<1>24. CASE RegisterWaitq
  BY <1>24 DEF RegisterWaitq, CtlInv, DrivesTell, UninitDrives, Leaving
<1> QED
  BY <1>1, <1>2, <1>3, <1>4, <1>5, <1>6, <1>7, <1>8, <1>9, <1>10,
     <1>11, <1>12, <1>13, <1>14, <1>15, <1>16, <1>17, <1>18, <1>19,
     <1>20, <1>21, <1>22, <1>23, <1>24 DEF CtlStep, BusStep

(* No node is initialised below a controller that is not attached, or that *)
(* is about to be detached.                                                *)
LEMMA NoNodes ==
  ASSUME BusTypeOK, NodeInv, CtlStep
  PROVE  gtgts = {} /\ \A n \in Nodes : node[n] = "named"
<1>1. step = "attached" => \A n \in Nodes : node[n] = "named"
  BY DEF CtlStep, BusStep, ProbeCtl, ProbeDone, Attach, MapRegisters, InitPciide, RegisterMutex,
         RegisterIntr, RegisterWaitq, RegisterTimer, RegisterDoneq, InitDrives, DrivesDone, AtapiAttach,
         DiskAttach, AttachDone, Detach, DisableIntr, AtapiDetach, RemoveMinor, DestroyDrives, Unmap, TimerDetach, Unregister, DestroyController
<1>2. gtgts = {}
  BY <1>1 DEF NodeInv
<1> QED
  BY <1>1, <1>2 DEF NodeInv, BusTypeOK

(* What a step of the controller leaves of the nodes, and of their types.  *)
LEMMA CtlFrame ==
  ASSUME BusTypeOK, CtlStep
  PROVE  /\ UNCHANGED <<node, class, gtgts, gdevs>>
         /\ step' \in Steps /\ held' \subseteq Resources /\ drives' \subseteq Targets
         /\ drv' \in [Targets -> {"none", "disk", "atapi"}]
         /\ sd_dev' \in [Targets -> Nodes \cup {NoNode}]
         /\ c_data' \in [Targets -> Nodes \cup {NoNode}]
<1>1. CASE Attach
  BY <1>1 DEF Attach, Take, BusTypeOK, Steps, Resources
<1>2. CASE InitDrives
  <2>1. PICK t \in Targets, busy, identify, identify_packet, ok \in BOOLEAN :
          LET kind == DriveType(busy, identify, identify_packet)
          IN InitDrive(t, kind, ok /\ kind # "none")
    BY <1>2 DEF InitDrives
  <2>2. /\ drives' \subseteq Targets
        /\ drv' \in [Targets -> {"none", "disk", "atapi"}]
    BY <2>1 DEF InitDrive, DriveType, BusTypeOK
  <2> QED
    BY <1>2, <2>2 DEF InitDrives, nodeVars, BusTypeOK
<1>3. CASE (BusStep /\ ~Attach /\ ~InitDrives) \/ DestroyController
  <2>1. UNCHANGED nodeVars
    BY <1>3 DEF BusStep, ProbeCtl, ProbeDone, MapRegisters, InitPciide, RegisterMutex,
         RegisterIntr, RegisterWaitq, RegisterTimer, RegisterDoneq, DrivesDone, AtapiAttach,
         DiskAttach, AttachDone, Detach, DisableIntr, AtapiDetach, RemoveMinor, DestroyDrives, Unmap, TimerDetach, Unregister, DestroyController
  <2>2. drv' = drv /\ drives' \subseteq drives
    BY <1>3 DEF BusStep, ProbeCtl, ProbeDone, MapRegisters, InitPciide, RegisterMutex,
         RegisterIntr, RegisterWaitq, RegisterTimer, RegisterDoneq, DrivesDone, AtapiAttach,
         DiskAttach, AttachDone, Detach, DisableIntr, AtapiDetach, RemoveMinor, DestroyDrives, Unmap, TimerDetach, Unregister, DestroyController
  <2>3. step' \in Steps
    BY <1>3 DEF BusStep, ProbeCtl, ProbeDone, MapRegisters, InitPciide, RegisterMutex,
         RegisterIntr, RegisterWaitq, RegisterTimer, RegisterDoneq, DrivesDone, AtapiAttach, Steps,
         DiskAttach, AttachDone, Detach, DisableIntr, AtapiDetach, RemoveMinor, DestroyDrives, Unmap, TimerDetach, Unregister, DestroyController
  <2>4. held' \subseteq Resources
    BY <1>3 DEF BusStep, ProbeCtl, ProbeDone, MapRegisters, InitPciide, RegisterMutex,
         RegisterIntr, RegisterWaitq, RegisterTimer, RegisterDoneq, DrivesDone, AtapiAttach, Take, Give,
         DiskAttach, AttachDone, Detach, DisableIntr, AtapiDetach, RemoveMinor, DestroyDrives, Unmap, TimerDetach, Unregister, DestroyController,
         SetupIoaddr, PciideAlloc, PciideFree, AtapiHeld, GhdMutexes, Resources, BusTypeOK
  <2> QED
    BY <2>1, <2>2, <2>3, <2>4 DEF nodeVars, BusTypeOK
<1> QED
  BY <1>1, <1>2, <1>3 DEF CtlStep

(* The structures of a device are some of the nodes.                       *)
LEMMA InstancesFinite ==
  ASSUME NEW S \in SUBSET Nodes, NEW t
  PROVE  LET I == {n \in S : Target[n] = t}
         IN /\ IsFiniteSet(I) /\ Cardinality(I) \in 0 .. Cardinality(Nodes)
<1> DEFINE I == {n \in S : Target[n] = t}
<1>1. I \subseteq Nodes /\ IsFiniteSet(Nodes)
  BY BusAssumption
<1> HIDE DEF I
<1>2. IsFiniteSet(I) /\ Cardinality(I) <= Cardinality(Nodes)
  BY <1>1, FS_Subset
<1>3. Cardinality(I) \in Nat /\ Cardinality(Nodes) \in Nat
  BY <1>1, <1>2, FS_CardinalityType
<1> QED
  BY <1>2, <1>3 DEF I

(* A step of the controller.                                               *)
LEMMA CtlNodes ==
  ASSUME BusTypeOK, NodeInv, CtlStep
  PROVE  BusTypeOK' /\ NodeInv'
<1>1. gtgts = {} /\ gtgts' = {} /\ gdevs' = gdevs
  BY NoNodes, CtlFrame
<1>2. BusTypeOK'
  BY CtlFrame DEF BusTypeOK
<1>3. \A t \in Targets : gdevs'[t] = Cardinality({n \in gtgts' : Target[n] = t})
  BY <1>1 DEF NodeInv
<1>4. gtgts' = {n \in Nodes : node'[n] = "init"}
  BY NoNodes, CtlFrame
<1> QED
  BY <1>1, <1>2, <1>3, <1>4 DEF NodeInv

(* A node that is initialised adds one structure to its device, ...        *)
LEMMA InstanceMore ==
  ASSUME BusTypeOK, NodeInv, NEW n \in Nodes, n \notin gtgts, TargetInit(n),
         node' = [node EXCEPT ![n] = "init"]
  PROVE  /\ gtgts' = {m \in Nodes : node'[m] = "init"} /\ gtgts' \subseteq Nodes
         /\ \A t \in Targets : gdevs'[t] = Cardinality({m \in gtgts' : Target[m] = t})
<1>1. gtgts' = gtgts \cup {n} /\ gtgts \subseteq Nodes
  BY DEF TargetInit, NodeInv
<1>2. gtgts' = {m \in Nodes : node'[m] = "init"}
  BY <1>1 DEF NodeInv, BusTypeOK
<1>3. ASSUME NEW t \in Targets
      PROVE  gdevs'[t] = Cardinality({m \in gtgts' : Target[m] = t})
  <2> DEFINE I == {m \in gtgts : Target[m] = t}
             J == {m \in gtgts' : Target[m] = t}
  <2>1. IsFiniteSet(I) /\ n \notin I
    BY <1>1, InstancesFinite
  <2>2. gdevs[t] = Cardinality(I)
    BY DEF NodeInv
  <2>3. CASE t = Target[n]
    <3>1. J = I \cup {n}
      BY <1>1, <2>3
    <3>2. gdevs'[t] = gdevs[t] + 1
      BY <2>3 DEF TargetInit, BusTypeOK
    <3> HIDE DEF I, J
    <3>3. Cardinality(J) = Cardinality(I) + 1
      BY <2>1, <3>1, FS_AddElement
    <3> QED
      BY <2>2, <3>2, <3>3 DEF J
  <2>4. CASE t # Target[n]
    <3>1. J = I
      BY <1>1, <2>4
    <3>2. gdevs'[t] = gdevs[t]
      BY <2>4 DEF TargetInit, BusTypeOK
    <3> QED
      BY <2>2, <3>1, <3>2
  <2> QED
    BY <2>3, <2>4
<1> QED
  BY <1>1, <1>2, <1>3

(* ... and one that is uninitialised takes one away.                       *)
LEMMA InstanceLess ==
  ASSUME BusTypeOK, NodeInv, NEW n \in gtgts, TargetFree(n),
         node' = [node EXCEPT ![n] = "named"]
  PROVE  /\ gtgts' = {m \in Nodes : node'[m] = "init"} /\ gtgts' \subseteq Nodes
         /\ \A t \in Targets : gdevs'[t] = Cardinality({m \in gtgts' : Target[m] = t})
<1>1. gtgts' = gtgts \ {n} /\ gtgts \subseteq Nodes /\ n \in Nodes
  BY DEF TargetFree, NodeInv
<1>2. gtgts' = {m \in Nodes : node'[m] = "init"}
  BY <1>1 DEF NodeInv, BusTypeOK
<1>3. ASSUME NEW t \in Targets
      PROVE  gdevs'[t] = Cardinality({m \in gtgts' : Target[m] = t})
  <2> DEFINE I == {m \in gtgts : Target[m] = t}
             J == {m \in gtgts' : Target[m] = t}
  <2>1. IsFiniteSet(I)
    BY <1>1, InstancesFinite
  <2>2. gdevs[t] = Cardinality(I)
    BY DEF NodeInv
  <2>3. CASE t = Target[n]
    <3>1. J = I \ {n} /\ n \in I
      BY <1>1, <2>3
    <3>2. gdevs'[t] = gdevs[t] - 1
      BY <2>3 DEF TargetFree, BusTypeOK
    <3> HIDE DEF I, J
    <3>3. Cardinality(J) = Cardinality(I) - 1
      BY <2>1, <3>1, FS_RemoveElement
    <3> QED
      BY <2>2, <3>2, <3>3 DEF J
  <2>4. CASE t # Target[n]
    <3>1. J = I
      BY <1>1, <2>4
    <3>2. gdevs'[t] = gdevs[t]
      BY <2>4 DEF TargetFree, BusTypeOK
    <3> QED
      BY <2>2, <3>1, <3>2
  <2> QED
    BY <2>3, <2>4
<1> QED
  BY <1>1, <1>2, <1>3

(* The counts are in their range.                                          *)
LEMMA CountsTyped ==
  ASSUME gtgts' \subseteq Nodes, gdevs' \in [Targets -> Int],
         \A t \in Targets : gdevs'[t] = Cardinality({m \in gtgts' : Target[m] = t})
  PROVE  gdevs' \in [Targets -> 0 .. Cardinality(Nodes)]
<1>1. ASSUME NEW t \in Targets PROVE gdevs'[t] \in 0 .. Cardinality(Nodes)
  <2>1. gtgts' \in SUBSET Nodes
    OBVIOUS
  <2> QED
    BY <2>1, InstancesFinite
<1> QED
  BY <1>1

(* DDI_CTLOPS_INITCHILD.                                                   *)
LEMMA InitChildStep ==
  ASSUME BusTypeOK, NodeInv, NEW n \in Nodes, InitChild(n)
  PROVE  BusTypeOK' /\ NodeInv' /\ gtgts \subseteq gtgts' /\ UNCHANGED ctlVars
<1>1. /\ step = "attached" /\ node[n] = "named" /\ n \notin gtgts
      /\ drv[Target[n]] # "none" /\ UNCHANGED ctlVars /\ Target[n] \in Targets
  BY BusAssumption DEF InitChild, NodeInv
<1>2. class' \in [Nodes -> Classes]
  <2>1. Morph(n) \in Classes
    BY DEF Morph, Classes, BusTypeOK
  <2> QED
    BY <2>1 DEF InitChild, BusTypeOK
<1>3. CASE drv[Target[n]] = "disk" /\ sd_dev[Target[n]] # NoNode
  <2>1. UNCHANGED <<sd_dev, gtgts, gdevs, c_data, node>>
    BY <1>3 DEF InitChild, InitDisk
  <2> QED
    BY <1>1, <1>2, <2>1 DEF BusTypeOK, NodeInv, ctlVars
<1>4. ASSUME TargetInit(n), node' = [node EXCEPT ![n] = "init"],
             sd_dev' \in [Targets -> Nodes \cup {NoNode}],
             c_data' \in [Targets -> Nodes \cup {NoNode}],
             \A m \in gtgts \cup {n} : drv[Target[m]] = "disk" =>
               sd_dev'[Target[m]] = m /\ c_data'[Target[m]] = m
      PROVE  BusTypeOK' /\ NodeInv' /\ gtgts \subseteq gtgts'
  <2>1. /\ gtgts' = {m \in Nodes : node'[m] = "init"} /\ gtgts' \subseteq Nodes
        /\ \A t \in Targets : gdevs'[t] = Cardinality({m \in gtgts' : Target[m] = t})
    BY <1>1, <1>4, InstanceMore
  <2>2. gtgts' = gtgts \cup {n} /\ gdevs' \in [Targets -> Int]
    BY <1>1, <1>4 DEF TargetInit, BusTypeOK
  <2>3. gdevs' \in [Targets -> 0 .. Cardinality(Nodes)]
    BY <2>1, <2>2, CountsTyped
  <2>4. node' \in [Nodes -> {"named", "init"}]
    BY <1>4 DEF BusTypeOK
  <2>5. BusTypeOK'
    BY <1>1, <1>2, <1>4, <2>1, <2>3, <2>4 DEF BusTypeOK, ctlVars
  <2>6. \A m \in gtgts' : step' = "attached" /\ drv'[Target[m]] # "none"
    BY <1>1, <2>2 DEF NodeInv, ctlVars
  <2>7. \A m \in gtgts' : drv'[Target[m]] = "disk" =>
          sd_dev'[Target[m]] = m /\ c_data'[Target[m]] = m
    BY <1>1, <1>4, <2>2 DEF ctlVars
  <2> QED
    BY <2>1, <2>2, <2>5, <2>6, <2>7 DEF NodeInv
<1>5. ASSUME drv[Target[n]] = "disk", sd_dev[Target[n]] = NoNode
      PROVE  BusTypeOK' /\ NodeInv' /\ gtgts \subseteq gtgts'
  <2>1. sd_dev' = [sd_dev EXCEPT ![Target[n]] = n]
    BY <1>5 DEF InitChild, InitDisk
  <2>2. \A m \in gtgts : m \in Nodes /\ m # NoNode
    BY BusAssumption DEF NodeInv
  <2>3. ASSUME NEW m \in gtgts, drv[Target[m]] = "disk"
        PROVE  /\ sd_dev'[Target[m]] = m /\ c_data[Target[m]] = m
               /\ Target[m] # Target[n]
    <3>1. sd_dev[Target[m]] = m /\ c_data[Target[m]] = m
      BY <2>3 DEF NodeInv
    <3>2. Target[m] # Target[n]
      BY <1>5, <2>2, <3>1
    <3> QED
      BY <2>1, <3>1, <3>2, <1>1 DEF BusTypeOK
  <2>4. sd_dev' \in [Targets -> Nodes \cup {NoNode}]
    BY <2>1 DEF BusTypeOK
  <2>5. CASE UNCHANGED <<gtgts, gdevs, c_data, node>>
    <3>1. BusTypeOK'
      BY <1>1, <1>2, <2>4, <2>5 DEF BusTypeOK, ctlVars
    <3>2. \A m \in gtgts : drv[Target[m]] = "disk" =>
            sd_dev'[Target[m]] = m /\ c_data[Target[m]] = m
      BY <2>3
    <3> QED
      BY <1>1, <2>5, <3>1, <3>2 DEF NodeInv, ctlVars
  <2>6. CASE /\ TargetInit(n) /\ c_data' = [c_data EXCEPT ![Target[n]] = n]
             /\ node' = [node EXCEPT ![n] = "init"]
    <3>1. \A m \in gtgts : drv[Target[m]] = "disk" =>
            sd_dev'[Target[m]] = m /\ c_data'[Target[m]] = m
      BY <1>1, <2>3, <2>6 DEF BusTypeOK
    <3>2. sd_dev'[Target[n]] = n /\ c_data'[Target[n]] = n
      BY <1>1, <2>1, <2>6 DEF BusTypeOK
    <3>3. c_data' \in [Targets -> Nodes \cup {NoNode}]
      BY <2>6 DEF BusTypeOK
    <3> QED
      BY <1>1, <1>4, <2>4, <2>6, <3>1, <3>2, <3>3
  <2> QED
    BY <1>5, <2>5, <2>6 DEF InitChild, InitDisk
<1>6. CASE drv[Target[n]] # "disk"
  <2>1. UNCHANGED <<sd_dev, c_data>>
    BY <1>6 DEF InitChild, InitScsi
  <2>2. \A m \in gtgts \cup {n} : drv[Target[m]] = "disk" =>
          sd_dev'[Target[m]] = m /\ c_data'[Target[m]] = m
    BY <1>6, <2>1 DEF NodeInv
  <2>3. CASE TargetInit(n) /\ node' = [node EXCEPT ![n] = "init"]
    BY <1>1, <1>4, <2>1, <2>2, <2>3 DEF BusTypeOK
  <2>4. CASE UNCHANGED <<gtgts, gdevs, node>>
    BY <1>1, <1>2, <2>1, <2>4 DEF BusTypeOK, NodeInv, ctlVars
  <2> QED
    BY <1>6, <2>3, <2>4 DEF InitChild, InitScsi
<1> QED
  BY <1>1, <1>3, <1>5, <1>6

(* DDI_CTLOPS_UNINITCHILD: the structure that it finds through the disk is *)
(* that of the node.                                                       *)
LEMMA UninitChildStep ==
  ASSUME BusTypeOK, NodeInv, NEW n \in Nodes, UninitChild(n)
  PROVE  BusTypeOK' /\ NodeInv' /\ gtgts' = gtgts \ {n} /\ UNCHANGED ctlVars
<1>1. /\ n \in gtgts /\ node' = [node EXCEPT ![n] = "named"]
      /\ UNCHANGED <<ctlVars, class, sd_dev, c_data>>
  BY DEF UninitChild, NodeInv
<1>2. TargetFree(n)
  BY <1>1 DEF UninitChild, UninitDisk, TranTgtFree, NodeInv
<1>3. /\ gtgts' = {m \in Nodes : node'[m] = "init"} /\ gtgts' \subseteq Nodes
      /\ \A t \in Targets : gdevs'[t] = Cardinality({m \in gtgts' : Target[m] = t})
  BY <1>1, <1>2, InstanceLess
<1>4. gtgts' = gtgts \ {n} /\ gdevs' \in [Targets -> Int]
  <2>1. gdevs \in [Targets -> Int]
    BY DEF BusTypeOK
  <2>2. /\ gtgts' = gtgts \ {n}
        /\ gdevs' = [gdevs EXCEPT ![Target[n]] = @ - 1]
    BY <1>2 DEF TargetFree
  <2>3. Target[n] \in Targets
    BY BusAssumption
  <2> QED
    BY <2>1, <2>2, <2>3
<1>5. gdevs' \in [Targets -> 0 .. Cardinality(Nodes)]
  BY <1>3, <1>4, CountsTyped
<1>6. node' \in [Nodes -> {"named", "init"}]
  BY <1>1 DEF BusTypeOK
<1>7. BusTypeOK'
  BY <1>1, <1>3, <1>5, <1>6 DEF BusTypeOK, ctlVars
<1>8. /\ \A m \in gtgts' : step' = "attached" /\ drv'[Target[m]] # "none"
      /\ \A m \in gtgts' : drv'[Target[m]] = "disk" =>
           sd_dev'[Target[m]] = m /\ c_data'[Target[m]] = m
  BY <1>1, <1>4 DEF NodeInv, ctlVars
<1> QED
  BY <1>1, <1>3, <1>4, <1>7, <1>8 DEF NodeInv

(* CtlInv depends on the variables of the controller alone.                *)
LEMMA CtlKept ==
  ASSUME CtlInv, UNCHANGED ctlVars
  PROVE  CtlInv'
BY DEF CtlInv, HeldBy, FlagsTell, DrivesTell, UninitDrives, GhdHolds, ctlVars

-----------------------------------------------------------------------------
(* The units: what a step that leaves some of their state alone keeps.     *)

Labelings == {"invalid", "read", "stale"}
SameAccounts == \A v \in Units :
  dk'[v].reg = dk[v].reg /\ dk'[v].lyr = dk[v].lyr /\ dk'[v].exl = dk[v].exl
SameAlts  == \A v \in Units : dk'[v].alts = dk[v].alts
SameFlags == \A v \in Units : dk[v].flag \subseteq dk'[v].flag
NoneStale == \A v \in Units : dk'[v].label = "stale" => dk[v].label = "stale"

(* ... what it has acquired, ...                                           *)
LEMMA HoldsKept ==
  ASSUME UnitHolds, UnitsGivenBack, UNCHANGED <<soft, got>>, SameFlags, SameAlts
  PROVE  UnitHolds' /\ UnitsGivenBack'
BY DEF UnitHolds, UnitsGivenBack, SameFlags, SameAlts

(* ... and a devid, if it is attached.                                     *)
LEMMA HoldsDevid ==
  ASSUME UnitHolds, UnitsGivenBack, got \in [Units -> SUBSET Things],
         UNCHANGED soft, SameFlags, SameAlts, NEW u \in Units, soft[u] = "attached",
         got' = [got EXCEPT ![u] = @ \cup {"devid"}]
  PROVE  UnitHolds' /\ UnitsGivenBack' /\ got' \in [Units -> SUBSET Things]
<1>1. /\ got'[u] = got[u] \cup {"devid"}
      /\ \A v \in Units : v # u => got'[v] = got[v]
  OBVIOUS
<1>2. \A v \in Units : soft[v] # "attached" => got'[v] = got[v]
  BY <1>1
<1>3. UnitHolds'
  BY <1>2 DEF UnitHolds, SameFlags
<1>4. \A v \in Units : ("alts" \in got'[v] <=> "alts" \in got[v])
                     /\ ("slc" \in got'[v] <=> "slc" \in got[v])
  BY <1>1
<1>5. UnitsGivenBack'
  BY <1>2, <1>4 DEF UnitsGivenBack, SameAlts
<1>6. got' \in [Units -> SUBSET Things]
  BY DEF Things
<1> QED
  BY <1>3, <1>5, <1>6

(* ... who uses it, ...                                                    *)
LEMMA UseKept ==
  ASSUME InUse, UNCHANGED <<soft, opens, walk, call>>
  PROVE  InUse'
BY DEF InUse, Opened

(* ... the accounts of its opens, ...                                      *)
LEMMA AccountsKept ==
  ASSUME OpensAccounted, SameAccounts, UNCHANGED <<opens, exclusive>>
  PROVE  OpensAccounted'
BY DEF OpensAccounted, SameAccounts

(* ... the freshness of its label, ...                                     *)
LEMMA LabelKept ==
  ASSUME LabelFresh, NoneStale, UNCHANGED closing
  PROVE  LabelFresh'
BY DEF LabelFresh, NoneStale

(* ... that of its bad block table, and the table's stability, ...         *)
LEMMA BbhKept ==
  ASSUME BbhStable, BbhFresh, SameAlts, UNCHANGED <<walk, least>>
  PROVE  BbhStable' /\ BbhFresh'
BY DEF BbhStable, BbhFresh, SameAlts

(* ... and what is known of the ioctls.                                    *)
LEMMA CallsKept ==
  ASSUME Company, Versions, DevidInv, UNCHANGED <<soft, call, diskVars>>
  PROVE  Company' /\ Versions' /\ DevidInv'
BY DEF Company, Versions, DevidInv, diskVars

(* A unit of which only the label is set.                                  *)
LEMMA DkLabel ==
  ASSUME dk \in [Units -> Dks], NEW u \in Units, NEW l \in Labelings,
         dk' = [dk EXCEPT ![u].label = l]
  PROVE  /\ dk' \in [Units -> Dks] /\ SameAccounts /\ SameAlts /\ SameFlags
         /\ \A v \in Units : v # u => dk'[v] = dk[v]
         /\ dk'[u].label = l
<1>1. dk'[u] = [dk[u] EXCEPT !.label = l] /\ \A v \in Units : v # u => dk'[v] = dk[v]
  OBVIOUS
<1>2. dk[u] \in Dks
  OBVIOUS
<1>3. /\ dk'[u] \in Dks /\ dk'[u].label = l
      /\ dk'[u].reg = dk[u].reg /\ dk'[u].lyr = dk[u].lyr /\ dk'[u].exl = dk[u].exl
      /\ dk'[u].alts = dk[u].alts /\ dk'[u].flag = dk[u].flag
  BY <1>1, <1>2 DEF Dks, Labelings
<1> QED
  BY <1>1, <1>3 DEF SameAccounts, SameAlts, SameFlags

(* The label of a typed unit, and what cmlb may make of it.                *)
LEMMA LabelsTyped ==
  ASSUME dk \in [Units -> Dks], NEW u \in Units, NEW l \in Labels(u)
  PROVE  l \in Labelings /\ (l = "stale" => dk[u].label = "stale")
<1>1. dk[u].label \in Labelings
  BY DEF Dks, Labelings
<1> QED
  BY <1>1 DEF Labels, Labelings

(* A unit of which nothing but the label is set, by cmlb.                  *)
LEMMA OnlyLabel ==
  ASSUME CmdkInv, NEW u \in Units, NEW l \in Labels(u) \cup {"read"},
         dk' = [dk EXCEPT ![u].label = l]
  PROVE  dk' \in [Units -> Dks] /\ SameAccounts /\ SameAlts /\ SameFlags /\ NoneStale
<1>1. dk \in [Units -> Dks]
  BY DEF CmdkInv, CmdkTypeOK
<1>2. l \in Labelings /\ (l = "stale" => dk[u].label = "stale")
  BY <1>1, LabelsTyped DEF Labelings
<1>3. /\ dk' \in [Units -> Dks] /\ SameAccounts /\ SameAlts /\ SameFlags
      /\ \A v \in Units : v # u => dk'[v] = dk[v]
      /\ dk'[u].label = l
  BY <1>1, <1>2, DkLabel
<1> QED
  BY <1>2, <1>3 DEF NoneStale

(* A use of the label.                                                     *)
LEMMA UseLabelStep ==
  ASSUME CmdkInv, NEW u \in Units, UseLabel(u)
  PROVE  CmdkInv' /\ soft' = soft
<1>1. PICK l \in Labels(u) : dk' = [dk EXCEPT ![u].label = l]
  BY DEF UseLabel
<1>2. UNCHANGED <<soft, got, maxinst, opens, exclusive, closing, call, walk,
                  altsver, diskid, least, spoiled>>
  BY DEF UseLabel, specVars, diskVars
<1>3. dk' \in [Units -> Dks] /\ SameAccounts /\ SameAlts /\ SameFlags /\ NoneStale
  BY <1>1, OnlyLabel
<1> QED
  BY <1>2, <1>3, HoldsKept, UseKept, AccountsKept, LabelKept, BbhKept, CallsKept
     DEF CmdkInv, CmdkTypeOK, diskVars

(* addbadsec writes a table: there is a newer version.                     *)
LEMMA WriteTableStep ==
  ASSUME CmdkInv, NEW u \in Units, WriteTable(u)
  PROVE  CmdkInv' /\ soft' = soft
<1>1. /\ UNCHANGED <<soft, got, maxinst, dk, opens, exclusive, closing, call, walk,
                     diskid, least, spoiled>>
      /\ altsver' = [altsver EXCEPT ![u] = @ + 1] /\ altsver[u] < MaxVersion
  BY DEF WriteTable, specVars, unitVars
<1>2. altsver \in [Units -> 0 .. MaxVersion] /\ least \in [Units -> 0 .. MaxVersion]
  BY DEF CmdkInv, CmdkTypeOK
<1>3. altsver' \in [Units -> 0 .. MaxVersion] /\ \A v \in Units : altsver[v] <= altsver'[v]
  BY <1>1, <1>2, UnitAssumption
<1>4. Versions'
  <2>1. \A v \in Units : least'[v] <= altsver'[v]
    BY <1>1, <1>2, <1>3, UnitAssumption DEF CmdkInv, Versions
  <2>2. ASSUME NEW c \in Callers, call'[c].op = "addbad"
        PROVE  /\ least'[call'[c].unit] <= call'[c].from /\ call'[c].from <= altsver'[call'[c].unit]
               /\ call'[c].at \in {"table", "install"} =>
                    call'[c].read = NoTable \/ call'[c].from <= call'[c].read
    <3>1. call[c] \in Calls /\ call[c].from \in 0 .. MaxVersion /\ call[c].unit \in Units
      BY <1>1, <2>2 DEF CmdkInv, CmdkTypeOK, InUse, Calls
    <3>2. call[c].from <= altsver[call[c].unit]
      BY <1>1, <2>2 DEF CmdkInv, Versions
    <3>3. call[c].from <= altsver'[call[c].unit]
      <4>1. /\ altsver[call[c].unit] <= altsver'[call[c].unit]
            /\ altsver[call[c].unit] \in Nat /\ altsver'[call[c].unit] \in Nat
            /\ call[c].from \in Nat
        <5> DEFINE v == call[c].unit
        <5>1. v \in Units
          BY <3>1
        <5> HIDE DEF v
        <5>2. altsver[v] <= altsver'[v] /\ altsver[v] \in Nat /\ altsver'[v] \in Nat
          BY <1>2, <1>3, <5>1, UnitAssumption
        <5>3. call[c].from \in Nat
          BY <3>1, UnitAssumption
        <5> QED
          BY <5>2, <5>3 DEF v
      <4> QED
        BY <3>2, <4>1
    <3> QED
      BY <1>1, <2>2, <3>3 DEF CmdkInv, Versions
  <2> QED
    BY <1>1, <2>1, <2>2 DEF CmdkInv, Versions
<1>5. SameAccounts /\ SameAlts /\ SameFlags /\ NoneStale
  BY <1>1 DEF SameAccounts, SameAlts, SameFlags, NoneStale
<1>6. Company' /\ DevidInv'
  BY <1>1 DEF CmdkInv, Company, DevidInv
<1> QED
  BY <1>1, <1>3, <1>4, <1>5, <1>6, HoldsKept, UseKept, AccountsKept, LabelKept, BbhKept
     DEF CmdkInv, CmdkTypeOK

(* A look into the table, and its end.                                     *)
LEMMA WalkStep ==
  ASSUME CmdkInv, NEW u \in Units, Walk(u) \/ WalkDone(u)
  PROVE  CmdkInv' /\ soft' = soft
<1>1. UNCHANGED <<soft, got, maxinst, dk, opens, exclusive, closing, call,
                  altsver, diskid, least, spoiled>>
  BY DEF Walk, WalkDone, specVars, unitVars, diskVars
<1>2. dk \in [Units -> Dks] /\ dk[u].alts \in 0 .. MaxVersion
      /\ walk \in [Units -> 0 .. MaxVersion]
  BY DEF CmdkInv, CmdkTypeOK, Dks
<1>3. walk' \in [Units -> 0 .. MaxVersion]
  BY <1>2, UnitAssumption DEF Walk, WalkDone, NoTable
<1>4. \A v \in Units : walk'[v] # NoTable =>
        \/ walk'[v] = walk[v]
        \/ v = u /\ Opened(u) # {} /\ walk'[v] = dk[u].alts
  BY <1>2 DEF Walk, WalkDone
<1>5. BbhStable'
  BY <1>1, <1>4 DEF CmdkInv, BbhStable
<1>6. InUse'
  BY <1>1, <1>4 DEF CmdkInv, InUse, Opened
<1>7. SameAccounts /\ SameAlts /\ SameFlags /\ NoneStale
  BY <1>1 DEF SameAccounts, SameAlts, SameFlags, NoneStale
<1> QED
  BY <1>1, <1>3, <1>5, <1>6, <1>7, HoldsKept, AccountsKept, LabelKept, CallsKept
     DEF CmdkInv, CmdkTypeOK, BbhFresh, diskVars

(* A unit that is not open is not used.                                    *)
LEMMA NotOpen ==
  ASSUME CmdkInv, NEW u \in Units, Opened(u) = {}
  PROVE  /\ \A x \in Parts \X OTypes : opens[u][x] = 0
         /\ exclusive[u] = {} /\ walk[u] = NoTable
         /\ \A c \in Callers : call[c].op # "none" => call[c].unit # u
<1>1. opens[u] \in [Parts \X OTypes -> Nat] /\ exclusive[u] \subseteq Parts \X OTypes
  BY DEF CmdkInv, CmdkTypeOK
<1>2. \A x \in Parts \X OTypes : opens[u][x] = 0
  BY <1>1 DEF Opened
<1>3. exclusive[u] = {}
  <2>1. SUFFICES ASSUME NEW x \in exclusive[u] PROVE FALSE
    OBVIOUS
  <2>2. PICK p \in Parts, o \in OTypes : x = <<p, o>>
    BY <1>1, <2>1
  <2>3. opens[u][<<p, o>>] = 1
    BY <2>1, <2>2 DEF CmdkInv, OpensAccounted
  <2> QED
    BY <1>2, <2>3
<1> QED
  BY <1>2, <1>3 DEF CmdkInv, InUse

(* A unit as cmdkprobe leaves it.                                          *)
LEMMA FreshFacts ==
  /\ Fresh \in Dks /\ Fresh.label = "invalid" /\ Fresh.alts = NoTable /\ Fresh.exl = {}
  /\ \A o \in RegTypes : Fresh.reg[o] = {}
  /\ \A p \in Parts : Fresh.lyr[p] = 0
<1>1. 0 \in 0 .. MaxVersion
  BY UnitAssumption
<1>2. [o \in RegTypes |-> {}] \in [RegTypes -> SUBSET Parts] /\ [p \in Parts |-> 0] \in [Parts -> Nat]
  OBVIOUS
<1> QED
  BY <1>1, <1>2 DEF Fresh, Dks, Devids, NoTable, NoDevid

(* A unit that is set up anew while it is not open.                        *)
LEMMA Renewed ==
  ASSUME CmdkInv, NEW u \in Units, Opened(u) = {},
         dk' = [dk EXCEPT ![u] = Fresh],
         UNCHANGED <<opens, exclusive, closing, walk>>,
         \A v \in Units : v # u => least'[v] = least[v]
  PROVE  /\ dk' \in [Units -> Dks] /\ OpensAccounted' /\ LabelFresh'
         /\ BbhStable' /\ BbhFresh'
<1>1. dk' \in [Units -> Dks] /\ dk'[u] = Fresh /\ \A v \in Units : v # u => dk'[v] = dk[v]
  BY FreshFacts DEF CmdkInv, CmdkTypeOK
<1>2. LabelFresh'
  BY <1>1, FreshFacts DEF CmdkInv, LabelFresh
<1>3. BbhStable'
  BY <1>1, NotOpen DEF CmdkInv, BbhStable
<1>4. BbhFresh'
  BY <1>1, FreshFacts DEF CmdkInv, BbhFresh
<1>5. OpensAccounted'
  <2>1. SUFFICES ASSUME NEW v \in Units
        PROVE  /\ \A o \in RegTypes : dk'[v].reg[o] = {p \in Parts : opens[v][<<p, o>>] > 0}
               /\ \A p \in Parts : dk'[v].lyr[p] = opens[v][<<p, "lyr">>]
               /\ dk'[v].exl = {x[1] : x \in exclusive[v]}
               /\ \A x \in exclusive[v] :
                    \A o \in OTypes : opens[v][<<x[1], o>>] = IF o = x[2] THEN 1 ELSE 0
    BY DEF OpensAccounted
  <2>2. CASE v # u
    BY <1>1, <2>2 DEF CmdkInv, OpensAccounted
  <2>3. CASE v = u
    <3>1. \A p \in Parts, o \in OTypes : opens[u][<<p, o>>] = 0
      BY NotOpen
    <3>2. exclusive[u] = {}
      BY NotOpen
    <3> QED
      BY <1>1, <2>3, <3>1, <3>2, FreshFacts DEF OTypes
  <2> QED
    BY <2>2, <2>3
<1> QED
  BY <1>1, <1>2, <1>3, <1>4, <1>5

(* cmdkprobe.                                                              *)
LEMMA ProbeStep ==
  ASSUME CmdkInv, NEW u \in Units, NEW ok \in BOOLEAN, Probe(u, ok)
  PROVE  /\ CmdkInv'
         /\ \A v \in Units : soft'[v] # "none" => soft[v] # "none" \/ (v = u /\ ok)
<1>1. /\ soft[u] = "none" /\ Opened(u) = {}
      /\ UNCHANGED <<maxinst, opens, exclusive, closing, call, walk, altsver, diskid, least, spoiled>>
  BY DEF Probe, specVars, diskVars, CmdkInv, InUse
<1>2. soft \in [Units -> {"none", "probed", "attached"}] /\ dk \in [Units -> Dks]
      /\ got \in [Units -> SUBSET Things]
  BY DEF CmdkInv, CmdkTypeOK
<1>3. CASE /\ ok
           /\ soft' = [soft EXCEPT ![u] = "probed"]
           /\ got' = [got EXCEPT ![u] = CreateObj({"locks"}, "none")]
           /\ dk' = [dk EXCEPT ![u] = Fresh]
  <2>1. /\ soft' \in [Units -> {"none", "probed", "attached"}]
        /\ got' \in [Units -> SUBSET Things]
    BY <1>2, <1>3 DEF CreateObj, Things
  <2>2. /\ dk' \in [Units -> Dks] /\ OpensAccounted' /\ LabelFresh'
        /\ BbhStable' /\ BbhFresh'
    BY <1>1, <1>3, Renewed
  <2>3. UnitHolds' /\ UnitsGivenBack'
    <3>1. /\ \A v \in Units : v # u => /\ soft'[v] = soft[v] /\ got'[v] = got[v]
                                     /\ dk'[v] = dk[v]
          /\ soft'[u] = "probed" /\ got'[u] = CreateObj({"locks"}, "none")
      BY <1>2, <1>3
    <3>2. "alts" \notin CreateObj({"locks"}, "none")
      BY DEF CreateObj
    <3> QED
      BY <3>1, <3>2 DEF CmdkInv, UnitHolds, UnitsGivenBack
  <2>4. InUse'
    BY <1>1, <1>2, <1>3 DEF CmdkInv, InUse, Opened
  <2>5. Company' /\ DevidInv' /\ Versions'
    BY <1>1, <1>2, <1>3 DEF CmdkInv, Company, DevidInv, Versions
  <2>6. CmdkTypeOK'
    BY <1>1, <2>1, <2>2 DEF CmdkInv, CmdkTypeOK
  <2> QED
    BY <1>2, <1>3, <2>2, <2>3, <2>4, <2>5, <2>6 DEF CmdkInv
<1>4. CASE /\ UNCHANGED <<soft, dk>>
           /\ \E objs \in {CreateObj({"locks"}, "queue"), CreateObj({"locks"}, "flow_control"),
                           DestroyObj(CreateObj({"locks"}, "none"))} :
                got' = [got EXCEPT ![u] = objs \ {"locks"}]
  <2>1. PICK g \in {{}, {"queobj"}} : got' = [got EXCEPT ![u] = g]
    BY <1>4 DEF DestroyObj, Cleanup, CreateObj
  <2>2. got' \in [Units -> SUBSET Things]
    BY <1>2, <2>1 DEF Things
  <2>3. UnitHolds' /\ UnitsGivenBack'
    <3>1. /\ \A v \in Units : v # u => got'[v] = got[v]
          /\ got'[u] = g /\ UNCHANGED <<soft, dk>>
      BY <1>2, <1>4, <2>1
    <3> QED
      BY <1>1, <2>1, <3>1 DEF CmdkInv, UnitHolds, UnitsGivenBack
  <2>4. SameAccounts /\ SameAlts /\ NoneStale
    BY <1>4 DEF SameAccounts, SameAlts, NoneStale
  <2>5. CmdkTypeOK'
    BY <1>1, <1>4, <2>2 DEF CmdkInv, CmdkTypeOK
  <2>6. InUse' /\ OpensAccounted' /\ LabelFresh' /\ BbhStable' /\ BbhFresh'
    BY <1>1, <1>4, <2>4, UseKept, AccountsKept, LabelKept, BbhKept DEF CmdkInv
  <2>7. Company' /\ Versions' /\ DevidInv'
    BY <1>1, <1>4, CallsKept DEF CmdkInv, diskVars
  <2>8. \A v \in Units : soft'[v] = soft[v]
    BY <1>4
  <2>9. CmdkInv'
    BY <2>3, <2>5, <2>6, <2>7 DEF CmdkInv
  <2> QED
    BY <2>8, <2>9
<1> QED
  BY <1>3, <1>4 DEF Probe

(* cmdkdetach.                                                             *)
LEMMA DetachUnitStep ==
  ASSUME CmdkInv, NEW u \in Units, DetachUnit(u)
  PROVE  /\ CmdkInv'
         /\ \A v \in Units : soft'[v] # "none" => soft[v] # "none"
<1>1. /\ soft[u] = "attached" /\ Opened(u) = {}
      /\ soft' = [soft EXCEPT ![u] = "none"]
      /\ dk' = [dk EXCEPT ![u] = Fresh]
      /\ least' = [least EXCEPT ![u] = NoTable]
      /\ UNCHANGED <<maxinst, opens, exclusive, closing, call, walk, altsver, diskid, spoiled>>
  BY DEF DetachUnit, specVars
<1>2. soft \in [Units -> {"none", "probed", "attached"}] /\ dk \in [Units -> Dks]
      /\ got \in [Units -> SUBSET Things]
      /\ least \in [Units -> 0 .. MaxVersion] /\ altsver \in [Units -> 0 .. MaxVersion]
  BY DEF CmdkInv, CmdkTypeOK
<1>3. PICK g \in SUBSET {"slc", "alts", "devid"} :
        got' = [got EXCEPT ![u] = g] /\ ("alts" \in g => "slc" \in g)
  <2> DEFINE g == DestroyObj(DadkClose(got[u])) \ {"cmlb", "locks"}
  <2>1. "CMDK_TGDK_OPEN" \in dk[u].flag
    BY <1>1 DEF CmdkInv, UnitHolds
  <2>2. got' = [got EXCEPT ![u] = g]
    BY <2>1 DEF DetachUnit
  <2>3. got[u] \subseteq Things /\ ("alts" \in got[u] => "slc" \in got[u])
    BY <1>2 DEF CmdkInv, UnitsGivenBack
  <2>4. g \subseteq {"slc", "alts", "devid"} /\ ("alts" \in g => "slc" \in g)
    BY <2>3 DEF DestroyObj, Cleanup, DadkClose, Things
  <2> QED
    BY <2>2, <2>4
<1>4. /\ dk' \in [Units -> Dks] /\ OpensAccounted' /\ LabelFresh'
      /\ BbhStable' /\ BbhFresh'
  BY <1>1, <1>2, Renewed
<1>5. UnitHolds' /\ UnitsGivenBack'
  <2>1. /\ \A v \in Units : v # u => /\ soft'[v] = soft[v] /\ got'[v] = got[v]
                                   /\ dk'[v] = dk[v]
        /\ soft'[u] = "none" /\ got'[u] = g
    BY <1>1, <1>2, <1>3
  <2> QED
    BY <1>3, <2>1 DEF CmdkInv, UnitHolds, UnitsGivenBack
<1>6. InUse'
  BY <1>1, <1>2 DEF CmdkInv, InUse, Opened
<1>7. Company' /\ DevidInv'
  BY <1>1 DEF CmdkInv, Company, DevidInv
<1>8. Versions'
  <2>1. \A v \in Units : /\ least'[v] <= altsver'[v]
                         /\ soft'[v] # "attached" => least'[v] = NoTable
    BY <1>1, <1>2, UnitAssumption DEF CmdkInv, Versions, NoTable
  <2>2. ASSUME NEW c \in Callers, call'[c].op = "addbad"
        PROVE  /\ least'[call'[c].unit] <= call'[c].from /\ call'[c].from <= altsver'[call'[c].unit]
               /\ call'[c].at \in {"table", "install"} =>
                    call'[c].read = NoTable \/ call'[c].from <= call'[c].read
    <3>1. call[c].unit # u
      BY <1>1, <2>2, NotOpen
    <3>2. call[c].unit \in Units
      BY <1>1, <2>2 DEF CmdkInv, InUse
    <3> QED
      BY <1>1, <1>2, <2>2, <3>1, <3>2 DEF CmdkInv, Versions
  <2> QED
    BY <2>1, <2>2 DEF Versions
<1>9. CmdkTypeOK'
  <2>1. /\ soft' \in [Units -> {"none", "probed", "attached"}]
        /\ got' \in [Units -> SUBSET Things]
    BY <1>1, <1>2, <1>3 DEF Things
  <2>2. least' \in [Units -> 0 .. MaxVersion]
    BY <1>1, <1>2, UnitAssumption DEF NoTable
  <2> QED
    BY <1>1, <1>4, <2>1, <2>2 DEF CmdkInv, CmdkTypeOK
<1> QED
  BY <1>1, <1>2, <1>4, <1>5, <1>6, <1>7, <1>8, <1>9 DEF CmdkInv

(* What cmdk_devid_setup may leave.                                        *)
LEMMA DevidSetupFacts ==
  ASSUME CmdkInv, NEW u \in Units, NEW d \in DevidSetup(u, "attach")
  PROVE  /\ d[1] \in Devids /\ d[2] \in Devids
         /\ diskid[u] # NoDevid => d[2] = diskid[u] \/ d[3]
<1>1. diskid[u] \in Devids
  BY DEF CmdkInv, CmdkTypeOK
<1>2. \/ d = <<"serial", diskid[u], FALSE>> \/ d = <<NoDevid, diskid[u], FALSE>>
      \/ d = <<diskid[u], diskid[u], FALSE>>
      \/ d = <<"attach", "attach", diskid[u] # NoDevid>> \/ d = <<"attach", diskid[u], TRUE>>
  BY DEF DevidSetup, DevidRead
<1>3. {"serial", NoDevid, diskid[u], "attach"} \subseteq Devids
  BY <1>1 DEF Devids
<1>4. CASE d = <<"attach", "attach", diskid[u] # NoDevid>>
  <2>1. d[1] = "attach" /\ d[2] = "attach" /\ (d[3] <=> diskid[u] # NoDevid)
    BY <1>4
  <2> QED
    BY <1>3, <2>1
<1>5. CASE d = <<"attach", diskid[u], TRUE>>
  BY <1>3, <1>5
<1>6. CASE \E e \in Devids : d = <<e, diskid[u], FALSE>>
  BY <1>1, <1>6
<1> QED
  BY <1>2, <1>3, <1>4, <1>5, <1>6

(* A unit with what cmdkattach sets.                                       *)
LEMMA AttachedFields ==
  ASSUME dk \in [Units -> Dks], NEW u \in Units,
         NEW l \in {"invalid", "read", "stale"}, NEW a \in 0 .. MaxVersion,
         NEW e \in Devids
  PROVE  LET d == AsAttached(u, l, a, e)
         IN /\ d \in Dks /\ d.label = l /\ d.alts = a
            /\ d.reg = dk[u].reg /\ d.lyr = dk[u].lyr /\ d.exl = dk[u].exl
            /\ d.flag = dk[u].flag \cup {"CMDK_TGDK_OPEN"}
<1>1. dk[u] \in Dks
  OBVIOUS
<1> QED
  BY <1>1 DEF AsAttached, Dks

(* cmdkattach that succeeds.                                               *)
LEMMA AttachedStep ==
  ASSUME CmdkInv, NEW u \in Units, soft[u] = "probed",
         NEW l \in Labels(u), NEW a \in {NoTable, altsver[u]},
         NEW d \in DevidSetup(u, "attach"),
         soft' = [soft EXCEPT ![u] = "attached"],
         NEW g \in SUBSET Things, got' = [got EXCEPT ![u] = g],
         "alts" \in g <=> a # NoTable, "alts" \in g => "slc" \in g,
         dk' = [dk EXCEPT ![u] = AsAttached(u, l, a, d[1])],
         diskid' = [diskid EXCEPT ![u] = d[2]],
         spoiled' = IF d[3] THEN spoiled \cup {u} ELSE spoiled,
         maxinst' = IF u > maxinst THEN u ELSE maxinst,
         UNCHANGED <<opens, exclusive, closing, call, walk, altsver, least>>
  PROVE  CmdkInv'
<1>1. soft \in [Units -> {"none", "probed", "attached"}] /\ dk \in [Units -> Dks]
      /\ got \in [Units -> SUBSET Things]
      /\ least \in [Units -> 0 .. MaxVersion] /\ altsver \in [Units -> 0 .. MaxVersion]
      /\ diskid \in [Units -> Devids] /\ maxinst \in Units \cup {0} /\ spoiled \subseteq Units
  BY DEF CmdkInv, CmdkTypeOK
<1>2. Opened(u) = {} /\ walk[u] = NoTable
  BY NotOpen DEF CmdkInv, InUse
<1>3. l \in Labelings /\ (l = "stale" => dk[u].label = "stale")
  BY <1>1, LabelsTyped
<1>4. d[1] \in Devids /\ d[2] \in Devids
  BY DevidSetupFacts
<1>5. a \in 0 .. MaxVersion
  BY <1>1, UnitAssumption DEF NoTable
<1>6. /\ \A v \in Units : v # u => dk'[v] = dk[v]
      /\ dk'[u] \in Dks /\ dk'[u].label = l /\ dk'[u].alts = a
      /\ dk'[u].reg = dk[u].reg /\ dk'[u].lyr = dk[u].lyr /\ dk'[u].exl = dk[u].exl
      /\ dk'[u].flag = dk[u].flag \cup {"CMDK_TGDK_OPEN"}
      /\ dk' \in [Units -> Dks]
  BY <1>1, <1>3, <1>4, <1>5, AttachedFields DEF Labelings
<1>9. SameAccounts /\ NoneStale /\ SameFlags /\ dk' \in [Units -> Dks]
  BY <1>3, <1>6 DEF SameAccounts, NoneStale, SameFlags
<1>10. OpensAccounted' /\ LabelFresh'
  BY <1>9, AccountsKept, LabelKept DEF CmdkInv
<1>11. BbhStable'
  BY <1>2, <1>6 DEF CmdkInv, BbhStable
<1>12. BbhFresh'
  BY <1>6 DEF CmdkInv, BbhFresh, Versions
<1>13. UnitHolds' /\ UnitsGivenBack'
  <2>1. /\ \A v \in Units : v # u => soft'[v] = soft[v] /\ got'[v] = got[v]
        /\ soft'[u] = "attached" /\ got'[u] = g
    BY <1>1
  <2> QED
    BY <1>6, <2>1 DEF CmdkInv, UnitHolds, UnitsGivenBack
<1>14. InUse'
  BY <1>1, <1>2 DEF CmdkInv, InUse, Opened
<1>15. Company'
  BY DEF CmdkInv, Company
<1>16. Versions'
  BY <1>1 DEF CmdkInv, Versions
<1>17. DevidInv'
  <2>1. ASSUME NEW c \in Callers, call'[c].op = "svtoc", call'[c].at = "write", call'[c].alone,
               diskid'[call'[c].unit] # NoDevid
        PROVE  call'[c].unit \in spoiled'
    <3>1. call[c].unit # u /\ call[c].unit \in Units
      BY <1>2, <2>1, NotOpen DEF CmdkInv, InUse
    <3>2. diskid[call[c].unit] # NoDevid
      BY <1>1, <2>1, <3>1
    <3>3. call[c].unit \in spoiled
      BY <2>1, <3>2 DEF CmdkInv, DevidInv
    <3> QED
      BY <3>3
  <2> QED
    BY <2>1 DEF DevidInv
<1>18. CmdkTypeOK'
  <2>1. /\ soft' \in [Units -> {"none", "probed", "attached"}] /\ maxinst' \in Units \cup {0}
        /\ got' \in [Units -> SUBSET Things]
    BY <1>1
  <2>2. diskid' \in [Units -> Devids] /\ spoiled' \subseteq Units
    BY <1>1, <1>4
  <2> QED
    BY <1>9, <2>1, <2>2 DEF CmdkInv, CmdkTypeOK
<1> QED
  BY <1>10, <1>11, <1>12, <1>13, <1>14, <1>15, <1>16, <1>17, <1>18 DEF CmdkInv

(* cmdkattach that fails.                                                  *)
LEMMA NotAttachedStep ==
  ASSUME CmdkInv, NEW u \in Units, soft[u] = "probed",
         soft' = [soft EXCEPT ![u] = "none"], AttachFails(u),
         UNCHANGED <<dk, maxinst, opens, exclusive, closing, call, walk, diskVars>>
  PROVE  CmdkInv'
<1>1. soft \in [Units -> {"none", "probed", "attached"}]
      /\ got \in [Units -> SUBSET Things]
  BY DEF CmdkInv, CmdkTypeOK
<1>2. got' = [got EXCEPT ![u] = {}]
  <2> DEFINE objs == CreateObj({"locks"}, "none")
             closed == DadkClose((DadkOpen(got[u]) \cup {"cmlb"}) \ {"cmlb"})
  <2>1. got[u] \subseteq objs
    BY DEF CmdkInv, UnitHolds
  <2>2. closed \subseteq objs
    BY <2>1 DEF DadkOpen, DadkClose
  <2>3. ASSUME NEW r, r \subseteq objs
        PROVE  DestroyObj(r) \ {"locks"} = {}
    BY <2>3 DEF DestroyObj, Cleanup, CreateObj
  <2> HIDE DEF objs, closed
  <2>4. PICK opened \in BOOLEAN :
          got' = [got EXCEPT ![u] = DestroyObj(IF opened THEN closed ELSE got[u]) \ {"locks"}]
    BY DEF AttachFails, closed
  <2> QED
    BY <2>1, <2>2, <2>3, <2>4
<1>3. UnitHolds' /\ UnitsGivenBack'
  BY <1>1, <1>2 DEF CmdkInv, UnitHolds, UnitsGivenBack
<1>4. InUse'
  BY <1>1 DEF CmdkInv, InUse, Opened
<1>5. SameAccounts /\ SameAlts /\ NoneStale
  BY DEF SameAccounts, SameAlts, NoneStale
<1>6. OpensAccounted' /\ LabelFresh' /\ BbhStable' /\ BbhFresh'
  BY <1>5, AccountsKept, LabelKept, BbhKept DEF CmdkInv, diskVars
<1>7. Company' /\ Versions' /\ DevidInv'
  BY <1>1 DEF CmdkInv, Company, Versions, DevidInv, diskVars
<1>8. CmdkTypeOK'
  BY <1>1, <1>2 DEF CmdkInv, CmdkTypeOK, diskVars
<1> QED
  BY <1>3, <1>4, <1>6, <1>7, <1>8 DEF CmdkInv

(* cmdkattach.                                                             *)
LEMMA AttachUnitStep ==
  ASSUME CmdkInv, NEW u \in Units, AttachUnit(u)
  PROVE  /\ CmdkInv'
         /\ \A v \in Units : soft'[v] # "none" => soft[v] # "none"
<1>1. soft \in [Units -> {"none", "probed", "attached"}] /\ soft[u] = "probed"
      /\ UNCHANGED <<opens, exclusive, closing, call, walk, altsver, least>>
  BY DEF CmdkInv, CmdkTypeOK, AttachUnit, specVars
<1>2. CASE soft' = [soft EXCEPT ![u] = "attached"]
  <2>1. PICK l \in Labels(u), a \in {NoTable, altsver[u]}, d \in DevidSetup(u, "attach"),
             slc \in SUBSET {"slc"} :
          /\ a # NoTable => slc # {}
          /\ got' = [got EXCEPT ![u] =
                       Devid(Table(DadkOpen(got[u]) \cup {"cmlb"} \cup slc, a), d[1])]
          /\ dk' = [dk EXCEPT ![u] = AsAttached(u, l, a, d[1])]
          /\ diskid' = [diskid EXCEPT ![u] = d[2]]
          /\ spoiled' = IF d[3] THEN spoiled \cup {u} ELSE spoiled
    BY <1>1, <1>2 DEF AttachUnit
  <2>2. maxinst' = IF u > maxinst THEN u ELSE maxinst
    BY <1>1, <1>2 DEF AttachUnit
  <2> DEFINE t == DadkOpen(got[u]) \cup {"cmlb"} \cup slc
             g == Devid(Table(t, a), d[1])
  <2>3. /\ g \in SUBSET Things
        /\ "alts" \in g <=> a # NoTable
        /\ "alts" \in g => "slc" \in g
    <3>1. got[u] \subseteq CreateObj({"locks"}, "none")
      BY <1>1 DEF CmdkInv, UnitHolds
    <3>2. /\ t \subseteq Things \ {"alts"}
          /\ a # NoTable => "slc" \in t
      BY <2>1, <3>1 DEF CreateObj, DadkOpen, Things
    <3> QED
      BY <3>2 DEF Devid, Table, Things
  <2> HIDE DEF t, g
  <2>4. got' = [got EXCEPT ![u] = g]
    BY <2>1 DEF t, g
  <2>5. CmdkInv'
    BY <1>1, <1>2, <2>1, <2>2, <2>3, <2>4, AttachedStep
  <2> QED
    BY <1>1, <1>2, <2>5
<1>3. CASE soft' = [soft EXCEPT ![u] = "none"]
  <2>1. AttachFails(u) /\ UNCHANGED <<dk, diskid, spoiled, maxinst>>
    BY <1>1, <1>3 DEF AttachUnit
  <2>2. CmdkInv'
    BY <1>1, <1>3, <2>1, NotAttachedStep DEF diskVars
  <2> QED
    BY <1>1, <1>3, <2>2
<1> QED
  BY <1>2, <1>3 DEF AttachUnit

-----------------------------------------------------------------------------
(* The accounts of one unit: d of the driver, n and e of specfs.           *)

Accounted(d, n, e) ==
  /\ \A o \in RegTypes : d.reg[o] = {p \in Parts : n[<<p, o>>] > 0}
  /\ \A p \in Parts : d.lyr[p] = n[<<p, "lyr">>]
  /\ d.exl = {x[1] : x \in e}
  /\ \A x \in e : \A o \in OTypes : n[<<x[1], o>>] = IF o = x[2] THEN 1 ELSE 0

(* The accounts of all units are those of each.                            *)
LEMMA AccountedAll ==
  OpensAccounted <=> \A u \in Units : Accounted(dk[u], opens[u], exclusive[u])
BY DEF OpensAccounted, Accounted

(* A unit d with what cmdkopen sets, of a unit r before.                   *)
OneOpened(r, d, p, o, excl, l) ==
  /\ d \in Dks /\ d.label = l /\ d.alts = r.alts /\ r.flag \subseteq d.flag
  /\ \A q \in RegTypes : d.reg[q] = IF q = o THEN r.reg[q] \cup {p} ELSE r.reg[q]
  /\ \A q \in Parts : d.lyr[q] = IF q = p /\ o = "lyr" THEN r.lyr[q] + 1 ELSE r.lyr[q]
  /\ d.exl = IF excl THEN r.exl \cup {p} ELSE r.exl

(* A unit after cmdkopen.                                                  *)
LEMMA OpenedFields ==
  ASSUME dk \in [Units -> Dks], NEW u \in Units, NEW p \in Parts, NEW o \in OTypes,
         NEW excl \in BOOLEAN, NEW l \in Labelings
  PROVE  OneOpened(dk[u], AsOpened(u, p, o, excl, l), p, o, excl, l)
<1> DEFINE r == dk[u]
           g == [q \in RegTypes |-> IF q = o THEN r.reg[q] \cup {p} ELSE r.reg[q]]
           y == [r.lyr EXCEPT ![p] = IF o = "lyr" THEN @ + 1 ELSE @]
           f == r.flag \cup {"CMDK_OPEN"}
           x == IF excl THEN r.exl \cup {p} ELSE r.exl
           d == AsOpened(u, p, o, excl, l)
<1>1. r \in Dks
  OBVIOUS
<1>2. d = [r EXCEPT !.label = l, !.flag = f, !.reg = g, !.lyr = y, !.exl = x]
  BY <1>1 DEF AsOpened, Dks
<1> HIDE DEF r
<1>3. /\ r.reg \in [RegTypes -> SUBSET Parts] /\ r.lyr \in [Parts -> Nat]
      /\ r.exl \in SUBSET Parts /\ r.flag \in SUBSET {"CMDK_OPEN", "CMDK_TGDK_OPEN"}
  BY <1>1 DEF Dks
<1>4. /\ g \in [RegTypes -> SUBSET Parts] /\ y \in [Parts -> Nat]
      /\ x \in SUBSET Parts /\ f \in SUBSET {"CMDK_OPEN", "CMDK_TGDK_OPEN"}
  BY <1>3
<1>5. /\ \A q \in RegTypes : g[q] = IF q = o THEN r.reg[q] \cup {p} ELSE r.reg[q]
      /\ \A q \in Parts : y[q] = IF q = p /\ o = "lyr" THEN r.lyr[q] + 1 ELSE r.lyr[q]
      /\ r.flag \subseteq f
  BY <1>3
<1>6. x = IF excl THEN r.exl \cup {p} ELSE r.exl
  OBVIOUS
<1> HIDE DEF g, y, f, x, d
<1>7. /\ d \in Dks /\ d.label = l /\ d.alts = r.alts /\ d.flag = f
      /\ d.reg = g /\ d.lyr = y /\ d.exl = x
  BY <1>1, <1>2, <1>4 DEF Dks, Labelings
<1> QED
  BY <1>5, <1>6, <1>7 DEF r, d, OneOpened

(* The partitions of a set of opens with one more.                         *)
LEMMA FirstsMore ==
  ASSUME NEW e, NEW p, NEW o
  PROVE  {x[1] : x \in e \cup {<<p, o>>}} = {x[1] : x \in e} \cup {p}
<1>1. <<p, o>>[1] = p
  OBVIOUS
<1>2. ASSUME NEW q \in {x[1] : x \in e \cup {<<p, o>>}}
      PROVE  q \in {x[1] : x \in e} \cup {p}
  <2>1. PICK x \in e \cup {<<p, o>>} : q = x[1]
    BY <1>2
  <2>2. CASE x \in e
    BY <2>1, <2>2
  <2>3. CASE x = <<p, o>>
    BY <1>1, <2>1, <2>3
  <2> QED
    BY <2>1, <2>2, <2>3
<1>3. ASSUME NEW q \in {x[1] : x \in e} \cup {p}
      PROVE  q \in {x[1] : x \in e \cup {<<p, o>>}}
  <2>1. CASE q = p
    <3>1. \E x \in e \cup {<<p, o>>} : x[1] = p
      BY <1>1
    <3> QED
      BY <2>1, <3>1
  <2>2. CASE q \in {x[1] : x \in e}
    <3>1. PICK x \in e : q = x[1]
      BY <2>2
    <3> QED
      BY <3>1
  <2> QED
    BY <1>3, <2>1, <2>2
<1> QED
  BY <1>2, <1>3

(* The counts of opens after one more, or one less.                        *)
LEMMA CountsMore ==
  ASSUME NEW n \in [Parts \X OTypes -> Nat], NEW p \in Parts, NEW o \in OTypes,
         NEW k \in Nat
  PROVE  LET m == [n EXCEPT ![<<p, o>>] = k]
         IN /\ m \in [Parts \X OTypes -> Nat]
            /\ m[<<p, o>>] = k
            /\ \A q \in Parts, t \in OTypes : q # p \/ t # o => m[<<q, t>>] = n[<<q, t>>]
OBVIOUS

(* An open adds to the accounts of both sides alike, and an exclusive one  *)
(* is let in only if it is alone.                                          *)
LEMMA AccountedOpen ==
  ASSUME NEW r, NEW n \in [Parts \X OTypes -> Nat], NEW e \in SUBSET (Parts \X OTypes),
         Accounted(r, n, e),
         NEW p \in Parts, NEW o \in OTypes, NEW excl \in BOOLEAN, NEW d,
         p \notin r.exl,
         excl => r.lyr[p] = 0 /\ \A q \in RegTypes : p \notin r.reg[q],
         \A q \in RegTypes : d.reg[q] = IF q = o THEN r.reg[q] \cup {p} ELSE r.reg[q],
         \A q \in Parts : d.lyr[q] = IF q = p /\ o = "lyr" THEN r.lyr[q] + 1 ELSE r.lyr[q],
         d.exl = IF excl THEN r.exl \cup {p} ELSE r.exl
  PROVE  Accounted(d, [n EXCEPT ![<<p, o>>] = @ + 1], IF excl THEN e \cup {<<p, o>>} ELSE e)
<1> DEFINE m == [n EXCEPT ![<<p, o>>] = @ + 1]
           b == IF excl THEN e \cup {<<p, o>>} ELSE e
<1>1. n[<<p, o>>] \in Nat
  OBVIOUS
<1>2. /\ m[<<p, o>>] = n[<<p, o>>] + 1
      /\ \A q \in Parts, t \in OTypes : q # p \/ t # o => m[<<q, t>>] = n[<<q, t>>]
  BY <1>1, CountsMore
<1>3. \A q \in Parts, t \in OTypes : n[<<q, t>>] \in Nat
  OBVIOUS
<1>4. RegTypes \subseteq OTypes /\ "lyr" \in OTypes /\ \A q \in RegTypes : q # "lyr"
  BY UnitAssumption DEF OTypes
<1> HIDE DEF m
<1>5. \A t \in RegTypes : d.reg[t] = {q \in Parts : m[<<q, t>>] > 0}
  <2>1. SUFFICES ASSUME NEW t \in RegTypes, NEW q
                 PROVE  q \in d.reg[t] <=> q \in Parts /\ m[<<q, t>>] > 0
    <3>1. \A t \in RegTypes : d.reg[t] \subseteq Parts
      BY DEF Accounted
    <3> QED
      BY <2>1, <3>1
  <2>2. q \in r.reg[t] <=> q \in Parts /\ n[<<q, t>>] > 0
    BY DEF Accounted
  <2>3. CASE q = p /\ t = o
    <3>1. d.reg[t] = r.reg[t] \cup {p}
      BY <2>3
    <3>2. m[<<q, t>>] > 0
      BY <1>1, <1>2, <2>3
    <3> QED
      BY <2>3, <3>1, <3>2
  <2>4. CASE q # p \/ t # o
    <3>1. q \in d.reg[t] <=> q \in r.reg[t]
      BY <2>4
    <3>2. q \in Parts => m[<<q, t>>] = n[<<q, t>>]
      BY <1>2, <1>4, <2>4
    <3> QED
      BY <2>2, <3>1, <3>2
  <2> QED
    BY <2>3, <2>4
<1>6. \A q \in Parts : d.lyr[q] = m[<<q, "lyr">>]
  <2>1. SUFFICES ASSUME NEW q \in Parts PROVE d.lyr[q] = m[<<q, "lyr">>]
    OBVIOUS
  <2>2. r.lyr[q] = n[<<q, "lyr">>]
    BY DEF Accounted
  <2>3. CASE q = p /\ o = "lyr"
    BY <1>2, <2>2, <2>3
  <2>4. CASE q # p \/ o # "lyr"
    BY <1>2, <1>4, <2>2, <2>4
  <2> QED
    BY <2>3, <2>4
<1>7. \A x \in e : x[1] # p /\ x[1] \in Parts
  BY DEF Accounted
<1>8. ASSUME excl
      PROVE  \A t \in OTypes : n[<<p, t>>] = 0
  <2>1. SUFFICES ASSUME NEW t \in OTypes PROVE n[<<p, t>>] = 0
    OBVIOUS
  <2>2. CASE t = "lyr"
    BY <1>8, <2>2 DEF Accounted
  <2>3. CASE t \in RegTypes
    <3>1. p \notin r.reg[t]
      BY <1>8, <2>3
    <3>2. ~(n[<<p, t>>] > 0)
      BY <2>3, <3>1 DEF Accounted
    <3> QED
      BY <1>3, <3>2
  <2> QED
    BY <2>2, <2>3 DEF OTypes
<1>9. d.exl = {x[1] : x \in b}
  <2>1. r.exl = {x[1] : x \in e}
    BY DEF Accounted
  <2>2. CASE excl
    <3>1. b = e \cup {<<p, o>>} /\ d.exl = r.exl \cup {p}
      BY <2>2
    <3>2. {x[1] : x \in b} = {x[1] : x \in e} \cup {p}
      BY <3>1, FirstsMore
    <3> QED
      BY <2>1, <3>1, <3>2
  <2>3. CASE ~excl
    BY <2>1, <2>3
  <2> QED
    BY <2>2, <2>3
<1>10. \A x \in b : \A t \in OTypes : m[<<x[1], t>>] = IF t = x[2] THEN 1 ELSE 0
  <2>1. SUFFICES ASSUME NEW x \in b, NEW t \in OTypes
                 PROVE  m[<<x[1], t>>] = IF t = x[2] THEN 1 ELSE 0
    OBVIOUS
  <2>2. CASE x \in e
    <3>1. m[<<x[1], t>>] = n[<<x[1], t>>]
      BY <1>2, <1>7, <2>2
    <3> QED
      BY <2>2, <3>1 DEF Accounted
  <2>3. CASE excl /\ x = <<p, o>>
    <3>1. x[1] = p /\ x[2] = o
      BY <2>3
    <3>2. n[<<p, t>>] = 0
      BY <1>8, <2>3
    <3>3. CASE t = o
      BY <1>2, <3>1, <3>2, <3>3
    <3>4. CASE t # o
      BY <1>2, <3>1, <3>2, <3>4
    <3> QED
      BY <3>3, <3>4
  <2> QED
    BY <2>1, <2>2, <2>3
<1> QED
  BY <1>5, <1>6, <1>9, <1>10 DEF Accounted, m

(* cmdkopen.                                                               *)
LEMMA OpenStep ==
  ASSUME CmdkInv, NEW u \in Units, NEW p \in Parts, NEW o \in OTypes, NEW excl \in BOOLEAN,
         Open(u, p, o, excl)
  PROVE  CmdkInv' /\ soft' = soft
<1>1. PICK l \in Labels(u) : dk' = [dk EXCEPT ![u] = AsOpened(u, p, o, excl, l)]
  BY DEF Open
<1>2. /\ soft[u] = "attached" /\ MayOpen(u, p, excl)
      /\ opens' = [opens EXCEPT ![u][<<p, o>>] = @ + 1]
      /\ exclusive' = [exclusive EXCEPT ![u] = IF excl THEN @ \cup {<<p, o>>} ELSE @]
      /\ UNCHANGED <<soft, got, maxinst, closing, call, walk, altsver, diskid, least, spoiled>>
  BY DEF Open, diskVars
<1>3. /\ dk \in [Units -> Dks]
      /\ opens \in [Units -> [Parts \X OTypes -> Nat]]
      /\ exclusive \in [Units -> SUBSET (Parts \X OTypes)]
  BY DEF CmdkInv, CmdkTypeOK
<1>4. l \in Labelings /\ (l = "stale" => dk[u].label = "stale")
  BY <1>3, LabelsTyped
<1> DEFINE d == AsOpened(u, p, o, excl, l)
<1> HIDE DEF d
<1>5. OneOpened(dk[u], d, p, o, excl, l)
  BY <1>3, <1>4, OpenedFields DEF d
<1>6. dk'[u] = d /\ (\A v \in Units : v # u => dk'[v] = dk[v]) /\ dk' \in [Units -> Dks]
  BY <1>1, <1>3, <1>5 DEF d, OneOpened
<1>7. /\ opens'[u] = [opens[u] EXCEPT ![<<p, o>>] = @ + 1]
      /\ exclusive'[u] = IF excl THEN exclusive[u] \cup {<<p, o>>} ELSE exclusive[u]
      /\ \A v \in Units : v # u => opens'[v] = opens[v] /\ exclusive'[v] = exclusive[v]
  BY <1>2, <1>3
<1>8. opens[u] \in [Parts \X OTypes -> Nat] /\ exclusive[u] \in SUBSET (Parts \X OTypes)
  BY <1>3
<1>9. Accounted(d, opens'[u], exclusive'[u])
  <2> DEFINE n == opens[u]  e == exclusive[u]  r == dk[u]
  <2>1. Accounted(r, n, e)
    BY AccountedAll DEF CmdkInv
  <2>2. n \in [Parts \X OTypes -> Nat] /\ e \in SUBSET (Parts \X OTypes)
    BY <1>8
  <2>3. p \notin r.exl /\ (excl => r.lyr[p] = 0 /\ \A q \in RegTypes : p \notin r.reg[q])
    BY <1>2 DEF MayOpen
  <2>4. /\ \A q \in RegTypes : d.reg[q] = IF q = o THEN r.reg[q] \cup {p} ELSE r.reg[q]
        /\ \A q \in Parts : d.lyr[q] = IF q = p /\ o = "lyr" THEN r.lyr[q] + 1 ELSE r.lyr[q]
        /\ d.exl = IF excl THEN r.exl \cup {p} ELSE r.exl
    BY <1>5 DEF OneOpened
  <2>5. /\ opens'[u] = [n EXCEPT ![<<p, o>>] = @ + 1]
        /\ exclusive'[u] = IF excl THEN e \cup {<<p, o>>} ELSE e
    BY <1>7
  <2> HIDE DEF n, e, r
  <2>6. Accounted(d, [n EXCEPT ![<<p, o>>] = @ + 1], IF excl THEN e \cup {<<p, o>>} ELSE e)
    BY <2>1, <2>2, <2>3, <2>4, AccountedOpen, ZenonT(40)
  <2> QED
    BY <2>5, <2>6
<1>10. \A v \in Units : Accounted(dk'[v], opens'[v], exclusive'[v])
  <2>1. ASSUME NEW v \in Units, v # u PROVE Accounted(dk'[v], opens'[v], exclusive'[v])
    BY <1>6, <1>7, <2>1, AccountedAll DEF CmdkInv
  <2> QED
    BY <1>6, <1>9, <2>1
<1>11. OpensAccounted'
  BY <1>10 DEF OpensAccounted, Accounted
<1>12. opens' \in [Units -> [Parts \X OTypes -> Nat]]
  <2>1. opens[u][<<p, o>>] + 1 \in Nat
    BY <1>8
  <2>2. opens'[u] \in [Parts \X OTypes -> Nat]
    BY <1>7, <1>8, <2>1
  <2> QED
    BY <1>2, <1>3, <2>2
<1>13. exclusive' \in [Units -> SUBSET (Parts \X OTypes)]
  <2>1. exclusive'[u] \in SUBSET (Parts \X OTypes)
    BY <1>7, <1>8
  <2> QED
    BY <1>2, <1>3, <2>1
<1>14. SameAlts /\ NoneStale /\ SameFlags
  BY <1>4, <1>5, <1>6 DEF OneOpened, SameAlts, NoneStale, SameFlags
<1>15. InUse'
  <2>1. \A v \in Units : Opened(v) # {} => Opened(v)' # {}
    <3>1. SUFFICES ASSUME NEW v \in Units, NEW x \in Parts \X OTypes, opens[v][x] > 0
                   PROVE  opens'[v][x] > 0
      BY DEF Opened
    <3>2. CASE v # u
      BY <1>7, <3>1, <3>2
    <3>3. CASE v = u
      BY <1>7, <1>8, <3>1, <3>3
    <3> QED
      BY <3>2, <3>3
  <2>2. \A v \in Units : v # u => Opened(v)' = Opened(v)
    BY <1>7 DEF Opened
  <2>3. \A v \in Units : Opened(v)' # {} => soft'[v] = "attached"
    BY <1>2, <2>2 DEF CmdkInv, InUse
  <2> QED
    BY <1>2, <2>1, <2>3 DEF CmdkInv, InUse
<1>16. CmdkTypeOK'
  BY <1>2, <1>6, <1>12, <1>13 DEF CmdkInv, CmdkTypeOK
<1>17. UnitHolds' /\ UnitsGivenBack' /\ LabelFresh' /\ BbhStable' /\ BbhFresh'
  BY <1>2, <1>14, HoldsKept, LabelKept, BbhKept DEF CmdkInv
<1>18. Company' /\ Versions' /\ DevidInv'
  BY <1>2, CallsKept DEF CmdkInv, diskVars
<1> QED
  BY <1>2, <1>11, <1>15, <1>16, <1>17, <1>18 DEF CmdkInv

-----------------------------------------------------------------------------
(* Closes.                                                                 *)

(* A unit d with what cmdkclose clears, of a unit r before.                *)
OneClosed(r, d, p, o) ==
  /\ d \in Dks /\ d.label = r.label /\ d.alts = r.alts /\ d.flag = r.flag
  /\ \A q \in RegTypes : d.reg[q] = IF q = o THEN r.reg[q] \ {p} ELSE r.reg[q]
  /\ \A q \in Parts : d.lyr[q] = IF q = p /\ o = "lyr" /\ r.lyr[q] > 0
                                 THEN r.lyr[q] - 1 ELSE r.lyr[q]
  /\ d.exl = r.exl \ {p}

(* A unit after cmdkclose has taken the open off.                          *)
LEMMA ClosedFields ==
  ASSUME dk \in [Units -> Dks], NEW u \in Units, NEW p \in Parts, NEW o \in OTypes
  PROVE  OneClosed(dk[u], Closed(u, p, o), p, o)
<1> DEFINE r == dk[u]
           g == [q \in RegTypes |-> IF q = o THEN r.reg[q] \ {p} ELSE r.reg[q]]
           y == [r.lyr EXCEPT ![p] = IF o = "lyr" /\ @ > 0 THEN @ - 1 ELSE @]
           x == r.exl \ {p}
           d == Closed(u, p, o)
<1>1. r \in Dks
  OBVIOUS
<1>2. d = [r EXCEPT !.reg = g, !.lyr = y, !.exl = x]
  BY <1>1 DEF Closed, Dks
<1> HIDE DEF r
<1>3. /\ r.reg \in [RegTypes -> SUBSET Parts] /\ r.lyr \in [Parts -> Nat]
      /\ r.exl \in SUBSET Parts
  BY <1>1 DEF Dks
<1>4. /\ g \in [RegTypes -> SUBSET Parts] /\ y \in [Parts -> Nat] /\ x \in SUBSET Parts
  BY <1>3
<1>5. /\ \A q \in RegTypes : g[q] = IF q = o THEN r.reg[q] \ {p} ELSE r.reg[q]
      /\ \A q \in Parts : y[q] = IF q = p /\ o = "lyr" /\ r.lyr[q] > 0
                                 THEN r.lyr[q] - 1 ELSE r.lyr[q]
      /\ x = r.exl \ {p}
  BY <1>3
<1> HIDE DEF g, y, x, d
<1>6. /\ d \in Dks /\ d.label = r.label /\ d.alts = r.alts /\ d.flag = r.flag
      /\ d.reg = g /\ d.lyr = y /\ d.exl = x
  BY <1>1, <1>2, <1>4 DEF Dks
<1> QED
  BY <1>5, <1>6 DEF r, d, OneClosed

(* The accounts depend on three fields.                                    *)
LEMMA AccountedSame ==
  ASSUME NEW r, NEW d, NEW n, NEW e, Accounted(r, n, e),
         d.reg = r.reg, d.lyr = r.lyr, d.exl = r.exl
  PROVE  Accounted(d, n, e)
BY DEF Accounted

(* A close that cmdkclose is told of takes the open off both sides; so     *)
(* does the exclusive bit, which it clears for whoever closes: if the      *)
(* partition is open exclusively, that is who closes it.                   *)
LEMMA AccountedClose ==
  ASSUME NEW r, NEW n \in [Parts \X OTypes -> Nat], NEW e \in SUBSET (Parts \X OTypes),
         Accounted(r, n, e),
         NEW p \in Parts, NEW o \in OTypes, NEW d, OneClosed(r, d, p, o),
         n[<<p, o>>] > 0, o = "lyr" \/ n[<<p, o>>] = 1
  PROVE  Accounted(d, [n EXCEPT ![<<p, o>>] = @ - 1], e \ {<<p, o>>})
<1> DEFINE m == [n EXCEPT ![<<p, o>>] = @ - 1]
           b == e \ {<<p, o>>}
<1>1. n[<<p, o>>] \in Nat /\ n[<<p, o>>] - 1 \in Nat
  OBVIOUS
<1>2. /\ m[<<p, o>>] = n[<<p, o>>] - 1
      /\ \A q \in Parts, t \in OTypes : q # p \/ t # o => m[<<q, t>>] = n[<<q, t>>]
  BY <1>1, CountsMore
<1>3. /\ \A q \in RegTypes : d.reg[q] = IF q = o THEN r.reg[q] \ {p} ELSE r.reg[q]
      /\ \A q \in Parts : d.lyr[q] = IF q = p /\ o = "lyr" /\ r.lyr[q] > 0
                                     THEN r.lyr[q] - 1 ELSE r.lyr[q]
      /\ d.exl = r.exl \ {p}
  BY DEF OneClosed
<1>4. RegTypes \subseteq OTypes /\ "lyr" \in OTypes /\ \A q \in RegTypes : q # "lyr"
  BY UnitAssumption DEF OTypes
<1> HIDE DEF m
<1>5. \A t \in RegTypes : d.reg[t] = {q \in Parts : m[<<q, t>>] > 0}
  <2>1. SUFFICES ASSUME NEW t \in RegTypes, NEW q
                 PROVE  q \in d.reg[t] <=> q \in Parts /\ m[<<q, t>>] > 0
    <3>1. \A t \in RegTypes : d.reg[t] \subseteq Parts
      BY <1>3 DEF Accounted
    <3> QED
      BY <2>1, <3>1
  <2>2. q \in r.reg[t] <=> q \in Parts /\ n[<<q, t>>] > 0
    BY DEF Accounted
  <2>3. CASE q = p /\ t = o
    <3>1. n[<<p, o>>] = 1
      BY <1>4, <2>3
    <3>2. ~(m[<<q, t>>] > 0)
      BY <1>2, <2>3, <3>1
    <3>3. q \notin d.reg[t]
      BY <1>3, <2>3
    <3> QED
      BY <3>2, <3>3
  <2>4. CASE q # p \/ t # o
    <3>1. q \in d.reg[t] <=> q \in r.reg[t]
      BY <1>3, <2>4
    <3>2. q \in Parts => m[<<q, t>>] = n[<<q, t>>]
      BY <1>2, <1>4, <2>4
    <3> QED
      BY <2>2, <3>1, <3>2
  <2> QED
    BY <2>3, <2>4
<1>6. \A q \in Parts : d.lyr[q] = m[<<q, "lyr">>]
  <2>1. SUFFICES ASSUME NEW q \in Parts PROVE d.lyr[q] = m[<<q, "lyr">>]
    OBVIOUS
  <2>2. r.lyr[q] = n[<<q, "lyr">>]
    BY DEF Accounted
  <2>3. CASE q = p /\ o = "lyr"
    BY <1>2, <1>3, <2>2, <2>3
  <2>4. CASE q # p \/ o # "lyr"
    BY <1>2, <1>3, <1>4, <2>2, <2>4
  <2> QED
    BY <2>3, <2>4
<1>7. \A x \in e : \A t \in OTypes : n[<<x[1], t>>] = IF t = x[2] THEN 1 ELSE 0
  BY DEF Accounted
<1>8. \A x \in b : x[1] # p
  <2>1. SUFFICES ASSUME NEW x \in b, x[1] = p PROVE FALSE
    OBVIOUS
  <2>2. x \in e /\ x # <<p, o>> /\ x \in Parts \X OTypes
    OBVIOUS
  <2>3. x[2] # o
    BY <2>1, <2>2
  <2>4. n[<<p, o>>] = 0
    BY <1>7, <2>1, <2>2, <2>3
  <2> QED
    BY <2>4
<1>9. d.exl = {x[1] : x \in b}
  <2>1. r.exl = {x[1] : x \in e}
    BY DEF Accounted
  <2>2. \A x \in e : x[1] # p => x \in b
    OBVIOUS
  <2>3. ASSUME NEW q \in d.exl PROVE q \in {x[1] : x \in b}
    <3>1. q # p /\ \E x \in e : q = x[1]
      BY <1>3, <2>1, <2>3
    <3> QED
      BY <2>2, <3>1
  <2>4. ASSUME NEW q \in {x[1] : x \in b} PROVE q \in d.exl
    <3>1. PICK x \in b : q = x[1]
      BY <2>4
    <3>2. q # p /\ q \in r.exl
      BY <1>8, <2>1, <3>1
    <3> QED
      BY <1>3, <3>2
  <2> QED
    BY <2>3, <2>4
<1>10. \A x \in b : \A t \in OTypes : m[<<x[1], t>>] = IF t = x[2] THEN 1 ELSE 0
  <2>1. SUFFICES ASSUME NEW x \in b, NEW t \in OTypes
                 PROVE  m[<<x[1], t>>] = IF t = x[2] THEN 1 ELSE 0
    OBVIOUS
  <2>2. x \in e /\ x[1] \in Parts /\ x[1] # p
    BY <1>8
  <2>3. m[<<x[1], t>>] = n[<<x[1], t>>]
    BY <1>2, <2>2
  <2> QED
    BY <1>7, <2>2, <2>3
<1> QED
  BY <1>5, <1>6, <1>9, <1>10 DEF Accounted, m

(* A close that cmdkclose is not told of is not the last of its type, so   *)
(* it closes nothing that was opened exclusively.                          *)
LEMMA AccountedQuiet ==
  ASSUME NEW r, NEW n \in [Parts \X OTypes -> Nat], NEW e \in SUBSET (Parts \X OTypes),
         Accounted(r, n, e),
         NEW p \in Parts, NEW o \in OTypes,
         o # "lyr", n[<<p, o>>] > 1
  PROVE  Accounted(r, [n EXCEPT ![<<p, o>>] = @ - 1], e \ {<<p, o>>})
<1> DEFINE m == [n EXCEPT ![<<p, o>>] = @ - 1]
<1>1. n[<<p, o>>] \in Nat /\ n[<<p, o>>] - 1 \in Nat
  OBVIOUS
<1>2. /\ m[<<p, o>>] = n[<<p, o>>] - 1
      /\ \A q \in Parts, t \in OTypes : q # p \/ t # o => m[<<q, t>>] = n[<<q, t>>]
  BY <1>1, CountsMore
<1>3. \A x \in e : \A t \in OTypes : n[<<x[1], t>>] = IF t = x[2] THEN 1 ELSE 0
  BY DEF Accounted
<1>4. \A x \in e : x[1] # p /\ x[1] \in Parts
  <2>1. SUFFICES ASSUME NEW x \in e, x[1] = p PROVE FALSE
    OBVIOUS
  <2>2. n[<<p, o>>] = 1 \/ n[<<p, o>>] = 0
    BY <1>3, <2>1
  <2> QED
    BY <2>2
<1>5. e \ {<<p, o>>} = e
  BY <1>4
<1>6. RegTypes \subseteq OTypes /\ "lyr" \in OTypes
  BY DEF OTypes
<1> HIDE DEF m
<1>7. \A q \in Parts, t \in OTypes : (m[<<q, t>>] > 0) <=> (n[<<q, t>>] > 0)
  <2>1. SUFFICES ASSUME NEW q \in Parts, NEW t \in OTypes
                 PROVE  (m[<<q, t>>] > 0) <=> (n[<<q, t>>] > 0)
    OBVIOUS
  <2>2. CASE q = p /\ t = o
    <3>1. m[<<p, o>>] > 0 /\ n[<<p, o>>] > 0
      BY <1>1, <1>2
    <3> QED
      BY <2>2, <3>1
  <2>3. CASE q # p \/ t # o
    BY <1>2, <2>3
  <2> QED
    BY <2>2, <2>3
<1>8. \A t \in RegTypes : r.reg[t] = {q \in Parts : m[<<q, t>>] > 0}
  BY <1>6, <1>7 DEF Accounted
<1>9. \A q \in Parts : r.lyr[q] = m[<<q, "lyr">>]
  BY <1>2, <1>6 DEF Accounted
<1>10. \A x \in e : \A t \in OTypes : m[<<x[1], t>>] = IF t = x[2] THEN 1 ELSE 0
  <2>1. SUFFICES ASSUME NEW x \in e, NEW t \in OTypes
                 PROVE  m[<<x[1], t>>] = IF t = x[2] THEN 1 ELSE 0
    OBVIOUS
  <2>2. m[<<x[1], t>>] = n[<<x[1], t>>]
    BY <1>2, <1>4
  <2> QED
    BY <1>3, <2>2
<1> QED
  BY <1>5, <1>8, <1>9, <1>10 DEF Accounted, m

(* A close.                                                                *)
LEMMA CloseStep ==
  ASSUME CmdkInv, NEW u \in Units, NEW p \in Parts, NEW o \in OTypes, Close(u, p, o)
  PROVE  CmdkInv' /\ soft' = soft
<1> DEFINE n == opens[u]
           e == exclusive[u]
           r == dk[u]
           d == Closed(u, p, o)
           left == [opens EXCEPT ![u][<<p, o>>] = @ - 1]
           m == left[u]
           gone == \A x \in Parts \X OTypes : left[u][x] = 0
           s == IF gone /\ d.label = "read" THEN [d EXCEPT !.label = "stale"] ELSE d
           told == o = "lyr" \/ n[<<p, o>>] = 1
<1>1. /\ n[<<p, o>>] > 0 /\ opens' = left
      /\ exclusive' = [exclusive EXCEPT ![u] = @ \ {<<p, o>>}]
      /\ gone => InCall(u) = {} /\ walk[u] = NoTable
      /\ UNCHANGED <<soft, got, maxinst, call, walk, altsver, diskid, least, spoiled>>
  BY DEF Close, diskVars
<1>2. /\ told => /\ dk' = [dk EXCEPT ![u] = s]
                 /\ closing' = [closing EXCEPT ![u] = IF LastClose(u, d) THEN @ \cup {<<p, o>>}
                                                      ELSE @]
      /\ ~told => UNCHANGED <<dk, closing>>
  BY DEF Close
<1>3. /\ dk \in [Units -> Dks] /\ opens \in [Units -> [Parts \X OTypes -> Nat]]
      /\ exclusive \in [Units -> SUBSET (Parts \X OTypes)]
      /\ closing \in [Units -> SUBSET (Parts \X OTypes)]
  BY DEF CmdkInv, CmdkTypeOK
<1>4. /\ n \in [Parts \X OTypes -> Nat] /\ e \in SUBSET (Parts \X OTypes)
      /\ r \in Dks /\ Accounted(r, n, e)
  BY <1>3, AccountedAll DEF CmdkInv
<1>5. /\ opens'[u] = m /\ m = [n EXCEPT ![<<p, o>>] = @ - 1]
      /\ exclusive'[u] = e \ {<<p, o>>}
      /\ \A v \in Units : v # u => opens'[v] = opens[v] /\ exclusive'[v] = exclusive[v]
  BY <1>1, <1>3
<1>6. OneClosed(r, d, p, o)
  BY <1>3, ClosedFields
<1> HIDE DEF d
<1>7. /\ d \in Dks
      /\ s \in Dks /\ s.reg = d.reg /\ s.lyr = d.lyr /\ s.exl = d.exl
      /\ s.alts = r.alts /\ s.flag = r.flag
      /\ s.label = "stale" => r.label = "stale" \/ gone
  <2> HIDE DEF gone, r
  <2>1. d \in Dks /\ d.label = r.label /\ d.alts = r.alts /\ d.flag = r.flag
    BY <1>6 DEF OneClosed
  <2>2. CASE ~(gone /\ d.label = "read")
    BY <2>1, <2>2
  <2>3. CASE gone /\ d.label = "read"
    BY <2>1, <2>3 DEF Dks
  <2> QED
    BY <2>2, <2>3
<1> HIDE DEF s, n, e, left, m, told, r
<1>8. ASSUME told
      PROVE  /\ Accounted(dk'[u], opens'[u], exclusive'[u]) /\ SameAlts /\ SameFlags /\ LabelFresh'
             /\ dk' \in [Units -> Dks] /\ closing' \in [Units -> SUBSET (Parts \X OTypes)]
             /\ \A v \in Units : v # u => dk'[v] = dk[v]
  <2>1. Accounted(d, m, e \ {<<p, o>>})
    <3>1. o = "lyr" \/ n[<<p, o>>] = 1
      BY <1>8 DEF told
    <3>2. Accounted(d, [n EXCEPT ![<<p, o>>] = @ - 1], e \ {<<p, o>>})
      BY <1>1, <1>4, <1>6, <3>1, AccountedClose
    <3> QED
      BY <1>5, <3>2
  <2>2. Accounted(s, m, e \ {<<p, o>>})
    BY <1>7, <2>1, AccountedSame
  <2>3. /\ dk'[u] = s /\ dk' \in [Units -> Dks]
        /\ \A v \in Units : v # u => dk'[v] = dk[v] /\ closing'[v] = closing[v]
        /\ closing[u] \subseteq closing'[u]
        /\ LastClose(u, d) => closing'[u] # {}
        /\ closing' \in [Units -> SUBSET (Parts \X OTypes)]
    <3>1. /\ dk' = [dk EXCEPT ![u] = s]
          /\ closing' = [closing EXCEPT ![u] = IF LastClose(u, d) THEN @ \cup {<<p, o>>} ELSE @]
      BY <1>2, <1>8
    <3>2. closing'[u] = IF LastClose(u, d) THEN closing[u] \cup {<<p, o>>} ELSE closing[u]
      BY <1>3, <3>1
    <3>3. closing[u] \cup {<<p, o>>} \in SUBSET (Parts \X OTypes)
      BY <1>3
    <3>4. closing' \in [Units -> SUBSET (Parts \X OTypes)]
      BY <1>3, <3>1, <3>3
    <3> QED
      BY <1>3, <1>7, <3>1, <3>2, <3>4
  <2>4. SameAlts /\ SameFlags
    BY <1>7, <2>3 DEF SameAlts, SameFlags, r
  <2>5. LabelFresh'
    <3>1. gone => LastClose(u, d)
      <4>1. RegTypes \subseteq OTypes /\ "lyr" \in OTypes
        BY DEF OTypes
      <4>2. gone => \A q \in Parts, t \in OTypes : m[<<q, t>>] = 0
        BY DEF m
      <4> HIDE DEF gone
      <4>3. gone => \A q \in Parts : d.lyr[q] = 0
        BY <2>1, <4>1, <4>2 DEF Accounted
      <4>4. ASSUME gone, NEW t \in RegTypes PROVE d.reg[t] = {}
        <5>1. d.reg[t] = {q \in Parts : m[<<q, t>>] > 0}
          BY <2>1 DEF Accounted
        <5>2. \A q \in Parts : ~(m[<<q, t>>] > 0)
          BY <4>1, <4>2, <4>4
        <5> QED
          BY <5>1, <5>2
      <4> QED
        BY <4>3, <4>4 DEF LastClose
    <3> HIDE DEF gone
    <3>2. dk'[u].label = "stale" => closing'[u] # {}
      <4>1. r.label = "stale" => closing[u] # {}
        BY DEF CmdkInv, LabelFresh, r
      <4> QED
        BY <1>7, <2>3, <3>1, <4>1
    <3>3. ASSUME NEW v \in Units, v # u PROVE dk'[v].label = "stale" => closing'[v] # {}
      BY <2>3, <3>3 DEF CmdkInv, LabelFresh
    <3> QED
      BY <3>2, <3>3 DEF LabelFresh
  <2> QED
    BY <1>5, <2>2, <2>3, <2>4, <2>5
<1>9. ASSUME ~told
      PROVE  /\ Accounted(dk'[u], opens'[u], exclusive'[u]) /\ SameAlts /\ SameFlags /\ LabelFresh'
             /\ dk' \in [Units -> Dks] /\ closing' \in [Units -> SUBSET (Parts \X OTypes)]
             /\ \A v \in Units : v # u => dk'[v] = dk[v]
  <2>1. o # "lyr" /\ n[<<p, o>>] > 1
    <3>1. n[<<p, o>>] \in Nat /\ n[<<p, o>>] # 1 /\ o # "lyr"
      BY <1>4, <1>9 DEF told
    <3> QED
      BY <1>1, <3>1
  <2>2. Accounted(r, m, e \ {<<p, o>>})
    <3>1. Accounted(r, [n EXCEPT ![<<p, o>>] = @ - 1], e \ {<<p, o>>})
      BY <1>4, <2>1, AccountedQuiet
    <3> QED
      BY <1>5, <3>1
  <2>3. dk' = dk /\ closing' = closing
    BY <1>2, <1>9
  <2>4. SameAlts /\ SameFlags
    BY <2>3 DEF SameAlts, SameFlags
  <2>5. LabelFresh'
    BY <2>3 DEF CmdkInv, LabelFresh
  <2> QED
    BY <1>3, <1>5, <2>2, <2>3, <2>4, <2>5 DEF r
<1>10. OpensAccounted'
  <2>1. \A v \in Units : Accounted(dk'[v], opens'[v], exclusive'[v])
    BY <1>5, <1>8, <1>9, AccountedAll DEF CmdkInv
  <2> QED
    BY <2>1 DEF OpensAccounted, Accounted
<1>11. opens' \in [Units -> [Parts \X OTypes -> Nat]]
  <2>1. n[<<p, o>>] - 1 \in Nat
    BY <1>1, <1>4
  <2>2. m \in [Parts \X OTypes -> Nat]
    BY <1>4, <1>5, <2>1
  <2>3. opens' = [opens EXCEPT ![u] = m]
    BY <1>1, <1>3 DEF left, m
  <2> QED
    BY <1>3, <2>2, <2>3
<1>12. exclusive' \in [Units -> SUBSET (Parts \X OTypes)]
  BY <1>1, <1>3
<1>13. InUse'
  <2>1. \A x \in Parts \X OTypes : m[x] > 0 => n[x] > 0
    BY <1>1, <1>4, <1>5
  <2>2. Opened(u) # {} /\ soft[u] = "attached"
    BY <1>1 DEF Opened, CmdkInv, InUse, n
  <2>3. \A v \in Units : v # u => Opened(v)' = Opened(v)
    BY <1>5 DEF Opened
  <2>4. ~gone => Opened(u)' # {}
    <3>1. \A x \in Parts \X OTypes : m[x] \in Nat
        <4>1. u \in Units /\ opens'[u] = m
          BY <1>5
        <4> HIDE DEF m
        <4> QED
          BY ONLY <4>1, <1>11
    <3>2. ~gone => \E x \in Parts \X OTypes : m[x] > 0
      BY <3>1 DEF m
    <3> HIDE DEF gone
    <3> QED
      BY <1>5, <3>2 DEF Opened
  <2> HIDE DEF gone
  <2>5. \A v \in Units : Opened(v)' # {} => soft'[v] = "attached"
    BY <1>1, <2>2, <2>3 DEF CmdkInv, InUse
  <2>6. \A v \in Units : walk'[v] # NoTable => Opened(v)' # {}
    BY <1>1, <2>3, <2>4 DEF CmdkInv, InUse
  <2>7. ASSUME NEW c \in Callers, call[c].op # "none"
        PROVE  call[c].unit \in Units /\ Opened(call[c].unit)' # {}
    <3>1. call[c].unit \in Units /\ Opened(call[c].unit) # {}
      BY <2>7 DEF CmdkInv, InUse
    <3>2. call[c].unit = u => ~gone
      BY <1>1, <2>7, <3>1 DEF InCall
    <3>3. call'[c].unit = call[c].unit
      BY <1>1
    <3>4. \A v \in Units : v = call[c].unit => Opened(v)' # {}
      BY <2>3, <2>4, <3>1, <3>2
    <3> QED
      BY <3>1, <3>3, <3>4 DEF Opened
  <2>8. \A c \in Callers : call'[c] = call[c]
    BY <1>1
  <2> QED
    BY <2>5, <2>6, <2>7, <2>8 DEF InUse
<1>14. CmdkTypeOK'
  BY <1>1, <1>8, <1>9, <1>11, <1>12 DEF CmdkInv, CmdkTypeOK
<1>15. UnitHolds' /\ UnitsGivenBack' /\ BbhStable' /\ BbhFresh'
  BY <1>1, <1>8, <1>9, HoldsKept, BbhKept DEF CmdkInv
<1>16. Company' /\ Versions' /\ DevidInv'
  BY <1>1, CallsKept DEF CmdkInv, diskVars
<1>17. LabelFresh'
  BY <1>8, <1>9
<1> QED
  BY <1>1, <1>10, <1>13, <1>14, <1>15, <1>16, <1>17 DEF CmdkInv

(* The end of cmdkclose.                                                   *)
LEMMA InvalidateStep ==
  ASSUME CmdkInv, NEW u \in Units, NEW x, Invalidate(u, x)
  PROVE  CmdkInv' /\ soft' = soft
<1>1. /\ dk' = [dk EXCEPT ![u].label = "invalid"]
      /\ closing' = [closing EXCEPT ![u] = @ \ {x}]
      /\ UNCHANGED <<soft, got, maxinst, opens, exclusive, call, walk, altsver, diskid, least, spoiled>>
  BY DEF Invalidate, diskVars
<1>2. dk \in [Units -> Dks] /\ closing \in [Units -> SUBSET (Parts \X OTypes)]
  BY DEF CmdkInv, CmdkTypeOK
<1>3. /\ dk' \in [Units -> Dks] /\ SameAccounts /\ SameAlts /\ SameFlags
      /\ \A v \in Units : v # u => dk'[v] = dk[v]
      /\ dk'[u].label = "invalid"
  BY <1>1, <1>2, DkLabel DEF Labelings
<1>4. \A v \in Units : v # u => closing'[v] = closing[v]
  BY <1>1, <1>2
<1>5. LabelFresh'
  BY <1>3, <1>4 DEF CmdkInv, LabelFresh
<1>6. CmdkTypeOK'
  BY <1>1, <1>2, <1>3 DEF CmdkInv, CmdkTypeOK
<1> QED
  BY <1>1, <1>3, <1>5, <1>6, HoldsKept, UseKept, AccountsKept, BbhKept, CallsKept
     DEF CmdkInv, diskVars

-----------------------------------------------------------------------------
(* The ioctls.                                                             *)

(* A typed call of an open unit.                                           *)
LEMMA CallFacts ==
  ASSUME CmdkInv, NEW c \in Callers
  PROVE  /\ call[c] \in Calls /\ call[c].from \in Nat /\ call[c].read \in Nat
         /\ call[c].op # "none" =>
              call[c].unit \in Units /\ Opened(call[c].unit) # {}
<1>1. call[c] \in Calls
  BY DEF CmdkInv, CmdkTypeOK
<1>2. call[c].from \in 0 .. MaxVersion /\ call[c].read \in 0 .. MaxVersion
  BY <1>1 DEF Calls
<1>3. call[c].from \in Nat /\ call[c].read \in Nat
  BY <1>2, UnitAssumption
<1> QED
  BY <1>1, <1>3 DEF CmdkInv, InUse

(* What is known of a call alone.                                          *)
GoodCall(c) ==
  /\ call[c].op # "none" => call[c].unit \in Units /\ Opened(call[c].unit) # {}
  /\ call[c].op = "addbad" =>
       /\ least[call[c].unit] <= call[c].from /\ call[c].from <= altsver[call[c].unit]
       /\ call[c].at \in {"table", "install"} =>
            call[c].read = NoTable \/ call[c].from <= call[c].read
  /\ call[c].op = "svtoc" /\ call[c].at = "write" /\ call[c].alone
       /\ diskid[call[c].unit] # NoDevid => call[c].unit \in spoiled

(* ... which the invariant says of all of them.                            *)
LEMMA CallsGood ==
  ASSUME CmdkInv
  PROVE  \A c \in Callers : GoodCall(c)
BY DEF CmdkInv, InUse, Versions, DevidInv, GoodCall

(* A call that enters, and those that were there.                          *)
LEMMA EnterStep ==
  ASSUME CmdkInv, NEW c \in Callers, NEW u \in Units,
         NEW op \in {"addbad", "svtoc"}, NEW at \in {"read", "setup"}, Enter(c, u, op, at),
         UNCHANGED <<soft, opens, walk, diskVars>>
  PROVE  /\ call' \in [Callers -> Calls]
         /\ InUse' /\ Company' /\ Versions' /\ DevidInv'
<1> DEFINE same == {b \in InCall(u) : call[b].op = op}
           with == [b \in Callers |->
                      IF b \in same THEN [call[b] EXCEPT !.alone = FALSE] ELSE call[b]]
           new == [op |-> op, at |-> at, unit |-> u, read |-> 0,
                   from |-> altsver[u], alone |-> same = {}]
<1>1. /\ call[c].op = "none" /\ Opened(u) # {}
      /\ call' = [with EXCEPT ![c] = new]
  BY DEF Enter
<1>2. /\ UNCHANGED <<soft, opens, walk, altsver, diskid, least, spoiled>>
      /\ altsver \in [Units -> 0 .. MaxVersion] /\ call \in [Callers -> Calls]
      /\ least \in [Units -> 0 .. MaxVersion]
  BY DEF CmdkInv, CmdkTypeOK, diskVars
<1>3. /\ new \in Calls /\ new.op = op /\ new.at = at /\ new.unit = u /\ new.read = 0
      /\ new.from = altsver[u] /\ (new.alone <=> same = {})
  <2> DEFINE al == same = {}
  <2>1. altsver[u] \in 0 .. MaxVersion /\ 0 \in 0 .. MaxVersion /\ al \in BOOLEAN
    BY <1>2, UnitAssumption
  <2> HIDE DEF al
  <2> QED
    BY <2>1 DEF Calls, al
<1>4. /\ call'[c] = new
      /\ \A b \in Callers : b # c => call'[b] = with[b]
  BY <1>1
<1>5. ASSUME NEW b \in Callers
      PROVE  /\ with[b] \in Calls /\ with[b].op = call[b].op /\ with[b].at = call[b].at
             /\ with[b].unit = call[b].unit /\ with[b].read = call[b].read
             /\ with[b].from = call[b].from
             /\ with[b].alone => call[b].alone /\ b \notin same
  <2> DEFINE k == call[b]
  <2>1. k \in Calls
    BY <1>2
  <2>2. with[b] = IF b \in same THEN [k EXCEPT !.alone = FALSE] ELSE k
    OBVIOUS
  <2> HIDE DEF k, with, same
  <2>3. CASE b \in same
    BY <2>1, <2>2, <2>3 DEF Calls, k
  <2>4. CASE b \notin same
    BY <2>1, <2>2, <2>4 DEF k
  <2> QED
    BY <2>3, <2>4
<1> HIDE DEF new, with
<1>6. \A b \in Callers : b \in same <=>
        call[b].op = op /\ call[b].unit = u
  BY DEF InCall
<1> HIDE DEF same
<1>7. call' \in [Callers -> Calls]
  <2>1. with \in [Callers -> Calls]
    BY <1>5 DEF with
  <2> QED
    BY <1>1, <1>3, <2>1
<1>8. Company'
  <2>1. SUFFICES ASSUME NEW a \in Callers, NEW b \in Callers, a # b, call'[a].op # "none",
                        call'[b].op = call'[a].op, call'[b].unit = call'[a].unit
                 PROVE  ~call'[a].alone
    BY DEF Company
  <2>2. CASE a = c
    <3>1. call[b].op = op /\ call[b].unit = u
      BY <1>3, <1>4, <1>5, <2>1, <2>2
    <3> QED
      BY <1>3, <1>4, <1>6, <2>2, <3>1
  <2>3. CASE b = c
    <3>1. call[a].op = op /\ call[a].unit = u
      BY <1>3, <1>4, <1>5, <2>1, <2>3
    <3> QED
      BY <1>4, <1>5, <1>6, <2>1, <2>3, <3>1
  <2>4. CASE a # c /\ b # c
    <3>1. call[a].op # "none" /\ call[b].op = call[a].op /\ call[b].unit = call[a].unit
      BY <1>4, <1>5, <2>1, <2>4
    <3>2. ~call[a].alone
      BY <2>1, <3>1 DEF CmdkInv, Company
    <3> QED
      BY <1>4, <1>5, <2>4, <3>2
  <2> QED
    BY <2>2, <2>3, <2>4
<1>9. ASSUME NEW b \in Callers
      PROVE  GoodCall(b)'
  <2>1. CASE b # c
    <3>1. GoodCall(b)
      BY CallsGood
    <3>2. /\ call'[b].op = call[b].op /\ call'[b].at = call[b].at
          /\ call'[b].unit = call[b].unit /\ call'[b].read = call[b].read
          /\ call'[b].from = call[b].from
          /\ call'[b].alone => call[b].alone
      BY <1>4, <1>5, <2>1
    <3> QED
      BY <1>2, <3>1, <3>2 DEF GoodCall, Opened
  <2>2. CASE b = c
    <3>1. altsver[u] \in Nat
      BY <1>2, UnitAssumption
    <3>2. call'[c].from = altsver[u] /\ least[u] <= altsver[u] /\ altsver[u] <= altsver[u]
      BY <1>3, <1>4, <3>1 DEF CmdkInv, Versions
    <3>3. /\ call'[c].op # "none" => call'[c].unit \in Units /\ Opened(u)' # {}
          /\ call'[c].unit = u /\ call'[c].at \notin {"table", "install", "write"}
      BY <1>1, <1>2, <1>3, <1>4 DEF Opened
    <3> QED
      BY <1>2, <2>2, <3>2, <3>3 DEF GoodCall, Opened
  <2> QED
    BY <2>1, <2>2
<1>10. InUse'
  BY <1>2, <1>9 DEF CmdkInv, InUse, Opened, GoodCall
<1>11. Versions' /\ DevidInv'
  BY <1>2, <1>9 DEF CmdkInv, Versions, DevidInv, GoodCall
<1> QED
  BY <1>7, <1>8, <1>10, <1>11

(* DKIOCADDBAD begins.                                                     *)
LEMMA AddBadStep ==
  ASSUME CmdkInv, NEW c \in Callers, NEW u \in Units, AddBad(c, u)
  PROVE  CmdkInv' /\ soft' = soft
<1>1. /\ Enter(c, u, "addbad", "read")
      /\ UNCHANGED <<soft, got, maxinst, dk, opens, exclusive, closing, walk, diskVars>>
  BY DEF AddBad, unitVars, specVars
<1>2. call' \in [Callers -> Calls] /\ InUse' /\ Company' /\ Versions' /\ DevidInv'
  BY <1>1, EnterStep
<1>3. SameAccounts /\ SameAlts /\ SameFlags /\ NoneStale
  BY <1>1 DEF SameAccounts, SameAlts, SameFlags, NoneStale
<1>4. CmdkTypeOK'
  BY <1>1, <1>2 DEF CmdkInv, CmdkTypeOK, diskVars
<1> QED
  BY <1>1, <1>2, <1>3, <1>4, HoldsKept, AccountsKept, LabelKept, BbhKept DEF CmdkInv, diskVars

(* DKIOCSVTOC begins.                                                      *)
LEMMA SetVtocStep ==
  ASSUME CmdkInv, NEW c \in Callers, NEW u \in Units, SetVtoc(c, u)
  PROVE  CmdkInv' /\ soft' = soft
<1>1. /\ \E l \in Labels(u) \cup {"read"} : dk' = [dk EXCEPT ![u].label = l]
      /\ Enter(c, u, "svtoc", "setup") \/ UNCHANGED call
      /\ UNCHANGED <<soft, got, maxinst, opens, exclusive, closing, walk, diskVars>>
  BY DEF SetVtoc, specVars, Labels
<1>2. call' \in [Callers -> Calls] /\ InUse' /\ Company' /\ Versions' /\ DevidInv'
  <2>1. CASE Enter(c, u, "svtoc", "setup")
    BY <1>1, <2>1, EnterStep
  <2>2. CASE UNCHANGED call
    BY <1>1, <2>2, UseKept, CallsKept DEF CmdkInv, CmdkTypeOK
  <2> QED
    BY <1>1, <2>1, <2>2
<1>3. dk' \in [Units -> Dks] /\ SameAccounts /\ SameAlts /\ SameFlags /\ NoneStale
  BY <1>1, OnlyLabel
<1>4. CmdkTypeOK'
  BY <1>1, <1>2, <1>3 DEF CmdkInv, CmdkTypeOK, diskVars
<1> QED
  BY <1>1, <1>2, <1>3, <1>4, HoldsKept, AccountsKept, LabelKept, BbhKept DEF CmdkInv, diskVars

(* A step of one call: it goes on, or it is done.                          *)
OneCall(c) ==
  /\ \A b \in Callers : b # c => call'[b] = call[b]
  /\ call' \in [Callers -> Calls]
  /\ \/ call'[c].op = "none"
     \/ /\ call'[c].op = call[c].op /\ call'[c].unit = call[c].unit
        /\ call'[c].from = call[c].from /\ call'[c].alone = call[c].alone

(* It needs no new company, and no new open.                               *)
LEMMA OneCallKept ==
  ASSUME CmdkInv, NEW c \in Callers, OneCall(c), UNCHANGED <<soft, opens, walk>>
  PROVE  InUse' /\ Company'
<1>1. InUse'
  <2>1. ASSUME NEW b \in Callers, call'[b].op # "none"
        PROVE  call'[b].op = call[b].op /\ call'[b].unit = call[b].unit
    BY <2>1 DEF OneCall
  <2>2. \A b \in Callers : call'[b].op # "none" =>
          call'[b].unit \in Units /\ Opened(call[b].unit) # {} /\ call'[b].unit = call[b].unit
    BY <2>1 DEF CmdkInv, InUse
  <2> QED
    BY <2>2 DEF CmdkInv, InUse, Opened
<1>2. Company'
  <2>1. SUFFICES ASSUME NEW a \in Callers, NEW b \in Callers, a # b, call'[a].op # "none",
                        call'[b].op = call'[a].op, call'[b].unit = call'[a].unit
                 PROVE  ~call'[a].alone
    BY DEF Company
  <2>2. /\ call'[a].op = call[a].op /\ call'[a].unit = call[a].unit
        /\ call'[a].alone = call[a].alone
        /\ call'[b].op = call[b].op /\ call'[b].unit = call[b].unit
    BY <2>1 DEF OneCall
  <2>3. ~call[a].alone
    BY <2>1, <2>2 DEF CmdkInv, Company
  <2> QED
    BY <2>2, <2>3
<1> QED
  BY <1>1, <1>2

(* A call that is done.                                                    *)
LEMMA CallDone ==
  ASSUME CmdkInv, NEW c \in Callers, call' = [call EXCEPT ![c] = Idle]
  PROVE  OneCall(c) /\ call'[c].op = "none" /\ call'[c].at = "none"
<1>1. 0 \in 0 .. MaxVersion
  BY UnitAssumption
<1>2. Idle \in Calls /\ Idle.op = "none" /\ Idle.at = "none"
  BY <1>1 DEF Idle, Calls
<1>3. call \in [Callers -> Calls]
  BY DEF CmdkInv, CmdkTypeOK
<1> HIDE DEF Idle
<1> QED
  BY <1>2, <1>3 DEF OneCall

(* A call that goes on.                                                    *)
LEMMA CallOn ==
  ASSUME CmdkInv, NEW c \in Callers, NEW a \in {"install", "write", "keep"},
         call' = [call EXCEPT ![c].at = a]
  PROVE  /\ OneCall(c) /\ call'[c].at = a
         /\ call'[c].op = call[c].op /\ call'[c].unit = call[c].unit
         /\ call'[c].alone = call[c].alone
<1>1. call \in [Callers -> Calls] /\ call[c] \in Calls
  BY DEF CmdkInv, CmdkTypeOK
<1>2. call'[c] = [call[c] EXCEPT !.at = a] /\ \A b \in Callers : b # c => call'[b] = call[b]
  BY <1>1
<1> DEFINE k == call[c]
           j == call'[c]
<1>3. call' \in [Callers -> Calls] <=> j \in Calls
  BY <1>1
<1>4. k \in Calls /\ j = [k EXCEPT !.at = a]
  BY <1>1, <1>2
<1> HIDE DEF k, j
<1>5. /\ j \in Calls /\ j.at = a /\ j.op = k.op /\ j.unit = k.unit /\ j.from = k.from
      /\ j.alone = k.alone
  BY <1>4 DEF Calls
<1> QED
  BY <1>2, <1>3, <1>5 DEF OneCall, k, j

(* A call that has read something: that is nothing, or no older than what  *)
(* was on the disk when it began.                                          *)
LEMMA ReadStep ==
  ASSUME CmdkInv, NEW c \in Callers, NEW at \in {"table", "install"},
         NEW v \in 0 .. MaxVersion, call[c].op = "addbad",
         v = NoTable \/ call[c].from <= v,
         call' = [call EXCEPT ![c].at = at, ![c].read = v],
         dk' \in [Units -> Dks], SameAccounts, SameAlts, SameFlags, NoneStale,
         UNCHANGED <<soft, got, maxinst, opens, exclusive, closing, walk,
                     altsver, diskid, least, spoiled>>
  PROVE  CmdkInv'
<1> DEFINE u == call[c].unit
<1>1. call \in [Callers -> Calls] /\ call[c] \in Calls
  BY DEF CmdkInv, CmdkTypeOK
<1>2. /\ call'[c] = [call[c] EXCEPT !.at = at, !.read = v]
      /\ \A b \in Callers : b # c => call'[b] = call[b]
      /\ call' \in [Callers -> Calls] <=> call'[c] \in Calls
  BY <1>1
<1>3. /\ call'[c] \in Calls /\ call'[c].op = call[c].op /\ call'[c].unit = call[c].unit
      /\ call'[c].from = call[c].from /\ call'[c].alone = call[c].alone
      /\ call'[c].read = v
  <2> DEFINE k == call[c]
             j == call'[c]
  <2>1. k \in Calls /\ j = [k EXCEPT !.at = at, !.read = v]
    BY <1>1, <1>2
  <2> HIDE DEF k, j
  <2>2. /\ j \in Calls /\ j.op = k.op /\ j.unit = k.unit /\ j.from = k.from
        /\ j.alone = k.alone /\ j.read = v
    BY <2>1 DEF Calls
  <2> QED
    BY <2>2 DEF k, j
<1>4. OneCall(c)
  BY <1>2, <1>3 DEF OneCall
<1>5. InUse' /\ Company'
  BY <1>4, OneCallKept
<1>6. Versions'
  <2>1. ASSUME NEW b \in Callers, call'[b].op = "addbad"
        PROVE  /\ least'[call'[b].unit] <= call'[b].from /\ call'[b].from <= altsver'[call'[b].unit]
               /\ call'[b].at \in {"table", "install"} =>
                    call'[b].read = NoTable \/ call'[b].from <= call'[b].read
    <3>1. CASE b # c
      BY <1>2, <2>1, <3>1 DEF CmdkInv, Versions
    <3>2. CASE b = c
      <4>1. least[u] <= call[c].from /\ call[c].from <= altsver[u]
        BY DEF CmdkInv, Versions
      <4> QED
        BY <1>3, <3>2, <4>1
    <3> QED
      BY <3>1, <3>2
  <2> QED
    BY <2>1 DEF CmdkInv, Versions
<1>7. DevidInv'
  <2>1. ASSUME NEW b \in Callers, call'[b].op = "svtoc"
        PROVE  call'[b] = call[b]
    BY <1>2, <1>3, <2>1
  <2>2. DevidInv
    BY DEF CmdkInv
  <2>3. diskid' = diskid /\ spoiled' = spoiled
    OBVIOUS
  <2> QED
    BY ONLY <2>1, <2>2, <2>3 DEF DevidInv
<1>8. CmdkTypeOK'
  BY <1>2, <1>3 DEF CmdkInv, CmdkTypeOK
<1> QED
  BY <1>5, <1>6, <1>7, <1>8, HoldsKept, AccountsKept, LabelKept, BbhKept DEF CmdkInv

(* cmdk_bbh_reopen reads the header of the table, ...                      *)
LEMMA BbhHeaderStep ==
  ASSUME CmdkInv, NEW c \in Callers, BbhHeader(c)
  PROVE  CmdkInv' /\ soft' = soft
<1> DEFINE u == call[c].unit
<1>1. PICK l \in Labels(u), v \in {NoTable, altsver[u]} :
        /\ dk' = [dk EXCEPT ![u].label = l]
        /\ call' = [call EXCEPT ![c].at = IF v = NoTable THEN "install" ELSE "table",
                                ![c].read = v]
  BY DEF BbhHeader
<1>2. /\ call[c].op = "addbad" /\ u \in Units
      /\ UNCHANGED <<soft, got, maxinst, opens, exclusive, closing, walk, altsver, diskid, least, spoiled>>
  BY CallFacts DEF BbhHeader, specVars, diskVars
<1>3. dk' \in [Units -> Dks] /\ SameAccounts /\ SameAlts /\ SameFlags /\ NoneStale
  BY <1>1, <1>2, OnlyLabel
<1>4. v \in 0 .. MaxVersion
  <2>1. altsver[u] \in 0 .. MaxVersion
    BY <1>2 DEF CmdkInv, CmdkTypeOK
  <2> QED
    BY <2>1, UnitAssumption DEF NoTable
<1>5. v = NoTable \/ call[c].from <= v
  BY <1>2 DEF CmdkInv, Versions
<1>6. CASE v = NoTable
  <2>1. call' = [call EXCEPT ![c].at = "install", ![c].read = v]
    BY <1>1, <1>6
  <2> QED
    BY <1>2, <1>3, <1>4, <1>5, <2>1, ReadStep
<1>7. CASE v # NoTable
  <2>1. call' = [call EXCEPT ![c].at = "table", ![c].read = v]
    BY <1>1, <1>7
  <2> QED
    BY <1>2, <1>3, <1>4, <1>5, <2>1, ReadStep
<1> QED
  BY <1>6, <1>7

(* ... and the entries.                                                    *)
LEMMA BbhTableStep ==
  ASSUME CmdkInv, NEW c \in Callers, BbhTable(c)
  PROVE  CmdkInv' /\ soft' = soft
<1>1. PICK v \in {NoTable, call[c].read} :
        call' = [call EXCEPT ![c].at = "install", ![c].read = v]
  BY DEF BbhTable
<1>2. /\ call[c].op = "addbad" /\ call[c].at = "table" /\ call[c] \in Calls
      /\ UNCHANGED <<soft, got, maxinst, dk, opens, exclusive, closing, walk,
                     altsver, diskid, least, spoiled>>
  BY CallFacts DEF BbhTable, unitVars, specVars, diskVars
<1>3. dk' \in [Units -> Dks] /\ SameAccounts /\ SameAlts /\ SameFlags /\ NoneStale
  BY <1>2 DEF CmdkInv, CmdkTypeOK, SameAccounts, SameAlts, SameFlags, NoneStale
<1>4. v \in 0 .. MaxVersion
  <2>1. call[c].read \in 0 .. MaxVersion
    BY <1>2 DEF Calls
  <2> QED
    BY <2>1, UnitAssumption DEF NoTable
<1>5. v = NoTable \/ call[c].from <= v
  BY <1>2 DEF CmdkInv, Versions
<1> QED
  BY <1>1, <1>2, <1>3, <1>4, <1>5, ReadStep

(* cmdk_bbh_reopen installs the table.                                     *)
LEMMA BbhInstallStep ==
  ASSUME CmdkInv, NEW c \in Callers, BbhInstall(c)
  PROVE  CmdkInv' /\ soft' = soft
<1> DEFINE u == call[c].unit
<1>1. PICK v \in {NoTable, call[c].read} :
        /\ dk' = [dk EXCEPT ![u].alts = v]
        /\ got' = [got EXCEPT ![u] = Table(IF call[c].read = NoTable THEN got[u]
                                            ELSE got[u] \cup {"slc"}, v)]
        /\ least' = [least EXCEPT ![u] = IF call[c].alone THEN call[c].from ELSE @]
  BY DEF BbhInstall, Installed
<1>2. /\ call[c].op = "addbad" /\ call[c].at = "install" /\ walk[u] = NoTable
      /\ call[c] \in Calls /\ u \in Units /\ Opened(u) # {}
      /\ call' = [call EXCEPT ![c] = Idle]
      /\ UNCHANGED <<soft, maxinst, opens, exclusive, closing, walk, altsver, diskid, spoiled>>
  BY CallFacts DEF BbhInstall, BbhLock, specVars
<1>3. /\ dk \in [Units -> Dks] /\ least \in [Units -> 0 .. MaxVersion]
      /\ altsver \in [Units -> 0 .. MaxVersion]
      /\ call[c].from \in 0 .. MaxVersion /\ v \in 0 .. MaxVersion
  <2>1. call[c].from \in 0 .. MaxVersion /\ call[c].read \in 0 .. MaxVersion
    BY <1>2 DEF Calls
  <2> QED
    BY <2>1, UnitAssumption DEF CmdkInv, CmdkTypeOK, NoTable
<1> HIDE DEF u
<1>4. /\ dk' \in [Units -> Dks] /\ dk'[u].alts = v
      /\ \A w \in Units : w # u => dk'[w] = dk[w]
      /\ SameAccounts /\ SameFlags /\ NoneStale
  <2>1. dk'[u] = [dk[u] EXCEPT !.alts = v] /\ \A w \in Units : w # u => dk'[w] = dk[w]
    BY <1>1, <1>2, <1>3
  <2>2. dk[u] \in Dks
    BY <1>2, <1>3
  <2>3. /\ dk'[u] \in Dks /\ dk'[u].alts = v
        /\ dk'[u].reg = dk[u].reg /\ dk'[u].lyr = dk[u].lyr /\ dk'[u].exl = dk[u].exl
        /\ dk'[u].label = dk[u].label /\ dk'[u].flag = dk[u].flag
    BY <1>3, <2>1, <2>2 DEF Dks
  <2>4. dk' \in [Units -> Dks]
    BY <1>1, <1>2, <1>3, <2>3
  <2> QED
    BY <2>1, <2>3, <2>4 DEF SameAccounts, SameFlags, NoneStale
<1>5. OneCall(c) /\ call'[c].op = "none" /\ call'[c].at = "none"
  BY <1>2, CallDone
<1>6. InUse' /\ Company'
  BY <1>2, <1>5, OneCallKept
<1>7. /\ least[u] <= call[c].from /\ call[c].from <= altsver[u]
      /\ v = NoTable \/ call[c].from <= v
  BY <1>1, <1>2 DEF CmdkInv, Versions, u
<1>8. /\ least' \in [Units -> 0 .. MaxVersion]
      /\ \A w \in Units : w # u => least'[w] = least[w]
      /\ least'[u] = IF call[c].alone THEN call[c].from ELSE least[u]
  BY <1>1, <1>2, <1>3
<1>9. Versions'
  <2>1. \A w \in Units : least'[w] <= altsver'[w]
    BY <1>2, <1>7, <1>8 DEF CmdkInv, Versions
  <2>2. soft[u] = "attached"
    BY <1>2 DEF CmdkInv, InUse
  <2>3. \A w \in Units : soft'[w] # "attached" => least'[w] = NoTable
    BY <1>2, <1>8, <2>2 DEF CmdkInv, Versions
  <2>4. ASSUME NEW b \in Callers, call'[b].op = "addbad"
        PROVE  /\ least'[call'[b].unit] <= call'[b].from /\ call'[b].from <= altsver'[call'[b].unit]
               /\ call'[b].at \in {"table", "install"} =>
                    call'[b].read = NoTable \/ call'[b].from <= call'[b].read
    <3>1. b # c /\ call'[b] = call[b]
      BY <1>5, <2>4 DEF OneCall
    <3>2. call[b].unit = u => ~call[c].alone
      BY <1>2, <2>4, <3>1 DEF CmdkInv, Company, u
    <3>3. call[b].unit \in Units
      BY <2>4, <3>1 DEF CmdkInv, InUse
    <3>4. least'[call[b].unit] = least[call[b].unit]
      BY <1>8, <3>2, <3>3
    <3> QED
      BY <1>2, <2>4, <3>1, <3>4 DEF CmdkInv, Versions
  <2> QED
    BY <2>1, <2>3, <2>4 DEF Versions
<1>10. BbhFresh'
  <2>1. dk'[u].alts # NoTable => least'[u] <= dk'[u].alts
    <3>1. /\ least[u] \in Nat /\ call[c].from \in Nat /\ v \in Nat
      BY <1>2, <1>3, UnitAssumption
    <3> QED
      BY <1>4, <1>7, <1>8, <3>1
  <2>2. \A w \in Units : w # u => (dk'[w].alts # NoTable => dk'[w].alts >= least'[w])
    BY <1>4, <1>8 DEF CmdkInv, BbhFresh
  <2>3. dk'[u].alts \in Nat /\ least'[u] \in Nat
    BY <1>2, <1>3, <1>4, <1>8, UnitAssumption
  <2>4. dk'[u].alts # NoTable => dk'[u].alts >= least'[u]
    BY <2>1, <2>3
  <2> QED
    BY <2>2, <2>4 DEF BbhFresh
<1>11. BbhStable'
  BY <1>2, <1>4 DEF CmdkInv, BbhStable
<1>12. DevidInv'
  <2>1. \A b \in Callers : call'[b].op = "svtoc" => call'[b] = call[b]
    BY <1>5 DEF OneCall
  <2> QED
    BY <1>2, <2>1 DEF CmdkInv, DevidInv
<1>13. UnitHolds' /\ UnitsGivenBack' /\ got' \in [Units -> SUBSET Things]
  <2> DEFINE g == Table(IF call[c].read = NoTable THEN got[u] ELSE got[u] \cup {"slc"}, v)
  <2>1. got \in [Units -> SUBSET Things] /\ soft[u] = "attached"
    BY <1>2 DEF CmdkInv, CmdkTypeOK, InUse
  <2>2. "alts" \in got[u] => "slc" \in got[u]
    BY <1>2 DEF CmdkInv, UnitsGivenBack
  <2>3. /\ g \in SUBSET Things
        /\ "alts" \in g <=> v # NoTable
        /\ "alts" \in g => "slc" \in g
    BY <1>1, <1>2, <2>1, <2>2 DEF Table, Things
  <2>4. got' = [got EXCEPT ![u] = g]
    BY <1>1 DEF u
  <2> HIDE DEF g
  <2>5. got' \in [Units -> SUBSET Things]
    BY <2>1, <2>3, <2>4
  <2>6. got'[u] = g /\ \A w \in Units : w # u => got'[w] = got[w]
    BY <1>2, <2>1, <2>4
  <2>7. UnitHolds'
    BY <1>2, <1>4, <2>1, <2>6 DEF CmdkInv, UnitHolds, SameFlags
  <2>8. UnitsGivenBack'
    BY <1>2, <1>4, <2>1, <2>3, <2>6 DEF CmdkInv, UnitsGivenBack
  <2> QED
    BY <2>5, <2>7, <2>8
<1>14. CmdkTypeOK'
  BY <1>2, <1>4, <1>5, <1>8, <1>13 DEF CmdkInv, CmdkTypeOK, OneCall
<1> QED
  BY <1>2, <1>4, <1>6, <1>9, <1>10, <1>11, <1>12, <1>13, <1>14, AccountsKept, LabelKept DEF CmdkInv

-----------------------------------------------------------------------------
(* The device identity.                                                    *)

KeepsDevids ==
  \A u \in Units : diskid[u] # NoDevid /\ diskid'[u] # diskid[u] => u \in spoiled'

(* A unit of which only the devid is set.                                  *)
LEMMA OnlyDevid ==
  ASSUME dk \in [Units -> Dks], NEW u \in Units, NEW id \in Devids,
         dk' = [dk EXCEPT ![u].devid = id]
  PROVE  dk' \in [Units -> Dks] /\ SameAccounts /\ SameAlts /\ SameFlags /\ NoneStale
<1>1. dk'[u] = [dk[u] EXCEPT !.devid = id] /\ \A v \in Units : v # u => dk'[v] = dk[v]
  OBVIOUS
<1>2. dk[u] \in Dks
  OBVIOUS
<1>3. /\ dk'[u] \in Dks /\ dk'[u].label = dk[u].label
      /\ dk'[u].reg = dk[u].reg /\ dk'[u].lyr = dk[u].lyr /\ dk'[u].exl = dk[u].exl
      /\ dk'[u].alts = dk[u].alts /\ dk'[u].flag = dk[u].flag
  BY <1>1, <1>2 DEF Dks
<1> QED
  BY <1>1, <1>3 DEF SameAccounts, SameAlts, SameFlags, NoneStale

(* A step of a setup.                                                      *)
LEMMA SetupStep ==
  ASSUME CmdkInv, NEW c \in Callers, NEW u \in Units,
         call[c].op = "svtoc", call[c].unit = u, OneCall(c),
         dk' \in [Units -> Dks], SameAccounts, SameAlts, SameFlags, NoneStale,
         spoiled \subseteq spoiled', spoiled' \subseteq Units,
         diskid' \in [Units -> Devids], \A v \in Units : v # u => diskid'[v] = diskid[v],
         call'[c].op = "svtoc" /\ call'[c].at = "write" /\ call'[c].alone
           /\ diskid'[u] # NoDevid => u \in spoiled',
         got' = got \/ got' = [got EXCEPT ![u] = @ \cup {"devid"}],
         UNCHANGED <<soft, maxinst, opens, exclusive, closing, walk, altsver, least>>
  PROVE  CmdkInv'
<1>1. InUse' /\ Company'
  BY OneCallKept
<1>2. Versions'
  <2>1. \A b \in Callers : call'[b].op = "addbad" => call'[b] = call[b]
    BY DEF OneCall
  <2> QED
    BY <2>1 DEF CmdkInv, Versions
<1>3. DevidInv'
  <2>1. SUFFICES ASSUME NEW b \in Callers, call'[b].op = "svtoc", call'[b].at = "write",
                        call'[b].alone, diskid'[call'[b].unit] # NoDevid
                 PROVE  call'[b].unit \in spoiled'
    BY DEF DevidInv
  <2>2. CASE b = c
    BY <2>1, <2>2 DEF OneCall
  <2>3. CASE b # c
    <3>1. call'[b] = call[b] /\ call[b].unit \in Units
      BY <2>1, <2>3 DEF OneCall, CmdkInv, InUse
    <3>2. call[b].unit # u
      BY <2>1, <2>3, <3>1 DEF CmdkInv, Company
    <3> QED
      BY <2>1, <3>1, <3>2 DEF CmdkInv, DevidInv
  <2> QED
    BY <2>2, <2>3
<1>4. UnitHolds' /\ UnitsGivenBack' /\ got' \in [Units -> SUBSET Things]
  <2>1. UnitHolds /\ UnitsGivenBack /\ got \in [Units -> SUBSET Things]
    BY DEF CmdkInv, CmdkTypeOK
  <2>2. soft[u] = "attached"
    BY DEF CmdkInv, InUse
  <2> QED
    BY <2>1, <2>2, HoldsKept, HoldsDevid
<1>5. CmdkTypeOK'
  BY <1>4 DEF CmdkInv, CmdkTypeOK, OneCall
<1> QED
  BY <1>1, <1>2, <1>3, <1>4, <1>5, AccountsKept, LabelKept, BbhKept DEF CmdkInv

(* A setup that is done.                                                   *)
LEMMA RegisterStep ==
  ASSUME CmdkInv, NEW c \in Callers, NEW id \in Devids, call[c].op = "svtoc",
         Register(c, call[c].unit, id),
         UNCHANGED <<soft, maxinst, specVars, walk, altsver, diskid, least>>
  PROVE  CmdkInv'
<1> DEFINE u == call[c].unit
<1>1. u \in Units
  BY CallFacts
<1>2. /\ dk' = [dk EXCEPT ![u].devid = id]
      /\ call' = [call EXCEPT ![c] = Idle]
      /\ spoiled' = IF call[c].alone THEN spoiled ELSE spoiled \cup {u}
      /\ got' = [got EXCEPT ![u] = Devid(@, id)]
  BY DEF Register
<1>3. dk' \in [Units -> Dks] /\ SameAccounts /\ SameAlts /\ SameFlags /\ NoneStale
  BY <1>1, <1>2, OnlyDevid DEF CmdkInv, CmdkTypeOK
<1>4. OneCall(c) /\ call'[c].op = "none"
  BY <1>2, CallDone
<1>5. spoiled \subseteq spoiled' /\ spoiled' \subseteq Units /\ diskid' \in [Units -> Devids]
  BY <1>1, <1>2 DEF CmdkInv, CmdkTypeOK
<1>6. got' = got \/ got' = [got EXCEPT ![u] = @ \cup {"devid"}]
  <2>1. got \in [Units -> SUBSET Things]
    BY DEF CmdkInv, CmdkTypeOK
  <2> QED
    BY <1>1, <1>2, <2>1 DEF Devid
<1> QED
  BY <1>1, <1>3, <1>4, <1>5, <1>6, SetupStep DEF specVars

(* cmdk_devid_modser and cmdk_devid_read.                                  *)
LEMMA DevidLookStep ==
  ASSUME CmdkInv, NEW c \in Callers, DevidLook(c)
  PROVE  CmdkInv' /\ soft' = soft
<1> DEFINE u == call[c].unit
<1>1. /\ call[c].op = "svtoc" /\ u \in Units /\ diskid[u] \in Devids
      /\ UNCHANGED <<soft, maxinst, specVars, walk, altsver, diskid, least>>
  BY CallFacts DEF DevidLook, CmdkInv, CmdkTypeOK
<1>2. CASE Register(c, u, "serial") \/ Register(c, u, diskid[u])
  <2>1. "serial" \in Devids
    BY DEF Devids
  <2> QED
    BY <1>1, <1>2, <2>1, RegisterStep
<1>3. CASE /\ call' = [call EXCEPT ![c].at = "write"] /\ UNCHANGED <<dk, got>>
           /\ spoiled' = IF diskid[u] # NoDevid \/ ~call[c].alone
                         THEN spoiled \cup {u} ELSE spoiled
  <2>1. OneCall(c)
    BY <1>3, CallOn
  <2>2. dk' \in [Units -> Dks] /\ SameAccounts /\ SameAlts /\ SameFlags /\ NoneStale
    BY <1>3 DEF CmdkInv, CmdkTypeOK, SameAccounts, SameAlts, SameFlags, NoneStale
  <2>3. /\ spoiled \subseteq spoiled' /\ spoiled' \subseteq Units /\ diskid' \in [Units -> Devids]
        /\ diskid'[u] # NoDevid => u \in spoiled'
    BY <1>1, <1>3 DEF CmdkInv, CmdkTypeOK
  <2>4. got' = got
    BY <1>3
  <2> QED
    BY <1>1, <2>1, <2>2, <2>3, <2>4, SetupStep DEF specVars
<1> QED
  BY <1>1, <1>2, <1>3 DEF DevidLook

(* cmdk_devid_fabricate writes: a devid that is on the disk is replaced    *)
(* only if an error hid it or there was company.                           *)
LEMMA DevidWriteStep ==
  ASSUME CmdkInv, NEW c \in Callers, DevidWrite(c)
  PROVE  CmdkInv' /\ soft' = soft /\ KeepsDevids
<1> DEFINE u == call[c].unit
<1>1. /\ call[c].op = "svtoc" /\ call[c].at = "write" /\ u \in Units
      /\ diskid \in [Units -> Devids] /\ spoiled \subseteq Units
      /\ dk \in [Units -> Dks]
      /\ UNCHANGED <<soft, maxinst, specVars, walk, altsver, least>>
  BY CallFacts DEF DevidWrite, CmdkInv, CmdkTypeOK
<1>2. CASE UNCHANGED diskid /\ Register(c, u, NoDevid)
  <2>1. NoDevid \in Devids
    BY DEF Devids
  <2> QED
    BY <1>1, <1>2, <2>1, RegisterStep DEF KeepsDevids
<1>3. ASSUME call' = [call EXCEPT ![c].at = "keep"], UNCHANGED <<dk, got>>,
             diskid' = [diskid EXCEPT ![u] = c] \/ diskid' = diskid,
             spoiled \subseteq spoiled', spoiled' \subseteq Units
      PROVE  CmdkInv'
  <2>1. OneCall(c) /\ call'[c].at = "keep"
    BY <1>3, CallOn
  <2>2. dk' \in [Units -> Dks] /\ SameAccounts /\ SameAlts /\ SameFlags /\ NoneStale
    BY <1>1, <1>3 DEF SameAccounts, SameAlts, SameFlags, NoneStale
  <2>3. diskid' \in [Units -> Devids] /\ \A v \in Units : v # u => diskid'[v] = diskid[v]
    <3>1. c \in Devids
      BY DEF Devids
    <3> QED
      BY <1>1, <1>3, <3>1
  <2> QED
    BY <1>1, <1>3, <2>1, <2>2, <2>3, SetupStep DEF specVars
<1>4. CASE /\ diskid' = [diskid EXCEPT ![u] = c]
           /\ spoiled' = IF call[c].alone THEN spoiled ELSE spoiled \cup {u}
           /\ call' = [call EXCEPT ![c].at = "keep"] /\ UNCHANGED <<dk, got>>
  <2>1. CmdkInv'
    BY <1>1, <1>3, <1>4
  <2>2. diskid[u] # NoDevid => u \in spoiled'
    BY <1>1, <1>4 DEF CmdkInv, DevidInv
  <2>3. KeepsDevids
    BY <1>1, <1>4, <2>2 DEF KeepsDevids
  <2> QED
    BY <1>1, <2>1, <2>3
<1>5. CASE /\ spoiled' = spoiled \cup {u}
           /\ call' = [call EXCEPT ![c].at = "keep"] /\ UNCHANGED <<dk, got, diskid>>
  <2>1. CmdkInv'
    BY <1>1, <1>3, <1>5
  <2> QED
    BY <1>1, <1>5, <2>1 DEF KeepsDevids
<1> QED
  BY <1>2, <1>4, <1>5 DEF DevidWrite

(* The new devid is registered.                                            *)
LEMMA DevidKeepStep ==
  ASSUME CmdkInv, NEW c \in Callers, DevidKeep(c)
  PROVE  CmdkInv' /\ soft' = soft
<1>1. c \in Devids
  BY DEF Devids
<1> QED
  BY <1>1, RegisterStep DEF DevidKeep

-----------------------------------------------------------------------------
(* The framework's steps, and the whole.                                   *)

(* The disks are exchanged: no unit is left that has seen them.            *)
LEMMA ExchangeStep ==
  ASSUME CmdkInv, \A u \in Units : soft[u] = "none",
         UNCHANGED <<unitVars, specVars, call, walk>>,
         \E id \in {NoDevid, "written"} : diskid' = [u \in Units |-> id],
         altsver' = [u \in Units |-> NoTable],
         least' = [u \in Units |-> NoTable], spoiled' = {}
  PROVE  CmdkInv'
<1>1. \A u \in Units : Opened(u) = {}
  BY DEF CmdkInv, InUse
<1>2. \A c \in Callers : call[c].op = "none"
  BY <1>1 DEF CmdkInv, InUse
<1>3. UNCHANGED <<soft, got, maxinst, dk, opens, exclusive, closing>>
  BY DEF unitVars, specVars
<1>4. CmdkTypeOK'
  <2>1. NoTable \in 0 .. MaxVersion /\ NoDevid \in Devids /\ "written" \in Devids
    BY UnitAssumption DEF NoTable, Devids
  <2>2. /\ altsver' \in [Units -> 0 .. MaxVersion] /\ least' \in [Units -> 0 .. MaxVersion]
        /\ diskid' \in [Units -> Devids] /\ spoiled' \subseteq Units
    BY <2>1
  <2> QED
    BY <1>3, <2>2 DEF CmdkInv, CmdkTypeOK
<1>5. Company' /\ Versions' /\ DevidInv'
  BY <1>2 DEF Company, Versions, DevidInv, NoTable
<1>6. SameAccounts /\ SameAlts /\ SameFlags /\ NoneStale
  BY <1>3 DEF SameAccounts, SameAlts, SameFlags, NoneStale
<1>7. BbhFresh'
  <2>1. ASSUME NEW u \in Units PROVE dk[u].alts >= 0
    <3>1. dk[u].alts \in 0 .. MaxVersion
      BY DEF CmdkInv, CmdkTypeOK, Dks
    <3> QED
      BY <3>1, UnitAssumption
  <2> QED
    BY <1>3, <2>1 DEF BbhFresh, NoTable
<1>8. BbhStable' /\ InUse'
  BY <1>3, UseKept DEF CmdkInv, BbhStable
<1> QED
  BY <1>3, <1>4, <1>5, <1>6, <1>7, <1>8, HoldsKept, AccountsKept, LabelKept DEF CmdkInv

(* A step of the bus alone.                                                *)
LEMMA CmdkUnchanged ==
  ASSUME CmdkInv, UNCHANGED cmdkVars
  PROVE  CmdkInv' /\ soft' = soft
<1>1. UNCHANGED <<soft, got, maxinst, dk, opens, exclusive, closing, call, walk, diskVars>>
  BY DEF cmdkVars, diskVars
<1>2. SameAccounts /\ SameAlts /\ SameFlags /\ NoneStale
  BY <1>1 DEF SameAccounts, SameAlts, SameFlags, NoneStale
<1>3. CmdkTypeOK'
  BY <1>1 DEF CmdkInv, CmdkTypeOK, diskVars
<1> QED
  BY <1>1, <1>2, <1>3, HoldsKept, UseKept, AccountsKept, LabelKept, BbhKept, CallsKept
     DEF CmdkInv, diskVars

(* A step of the units alone.                                              *)
LEMMA BusUnchanged ==
  ASSUME BusTypeOK, CtlInv, NodeInv, UNCHANGED busVars
  PROVE  BusTypeOK' /\ CtlInv' /\ NodeInv'
<1>1. UNCHANGED ctlVars /\ UNCHANGED <<step, held, drives, drv, node, class, sd_dev, gtgts, gdevs, c_data>>
  BY DEF busVars, ctlVars
<1>2. CtlInv'
  BY <1>1, CtlKept
<1>3. BusTypeOK'
  BY <1>1 DEF BusTypeOK
<1>4. NodeInv'
  BY <1>1 DEF NodeInv
<1> QED
  BY <1>2, <1>3, <1>4

(* The units keep their nodes if no unit and no drive is new.              *)
LEMMA UnitsKept ==
  ASSUME UnitNodes, UNCHANGED drv, gtgts \subseteq gtgts',
         \A u \in Units : soft'[u] # "none" => soft[u] # "none"
  PROVE  UnitNodes'
BY DEF UnitNodes

(* A step of the controller: there are no units.                           *)
LEMMA NoUnits ==
  ASSUME StackInv, CtlStep
  PROVE  \A u \in Units : soft[u] = "none"
<1>1. gtgts = {}
  BY NoNodes DEF StackInv
<1>2. \A u \in Units : ~(soft[u] # "none")
  BY <1>1 DEF StackInv, UnitNodes
<1> QED
  BY <1>2

(* So a step of the controller keeps the invariant if it keeps the units'. *)
LEMMA CtlStackStep ==
  ASSUME StackInv, CtlStep, CmdkInv', \A u \in Units : soft'[u] = soft[u]
  PROVE  StackInv'
<1>1. BusTypeOK' /\ NodeInv'
  BY CtlNodes DEF StackInv
<1>2. CtlInv'
  BY HeldStep, FlagsStep, DrivesStep DEF StackInv, CtlInv
<1>3. UnitNodes'
  BY NoUnits DEF UnitNodes
<1> QED
  BY <1>1, <1>2, <1>3 DEF StackInv

(* A step of one unit, and of one call.                                    *)
LEMMA UnitStepKeeps ==
  ASSUME CmdkInv, NEW u \in Units, UnitStep(u)
  PROVE  /\ CmdkInv'
         /\ \A v \in Units : soft'[v] # "none" => soft[v] # "none"
<1>1. CASE AttachUnit(u)
  BY <1>1, AttachUnitStep
<1>2. CASE DetachUnit(u)
  BY <1>2, DetachUnitStep
<1>3. CASE UseLabel(u)
  BY <1>3, UseLabelStep
<1>4. CASE WriteTable(u)
  BY <1>4, WriteTableStep
<1>5. CASE \E p \in Parts, o \in OTypes : Close(u, p, o)
  BY <1>5, CloseStep
<1>6. CASE \E x : Invalidate(u, x)
  BY <1>6, InvalidateStep
<1>7. CASE \E p \in Parts, o \in OTypes, excl \in BOOLEAN : Open(u, p, o, excl)
  BY <1>7, OpenStep
<1>8. CASE Walk(u) \/ WalkDone(u)
  BY <1>8, WalkStep
<1>9. CASE \E c \in Callers : AddBad(c, u)
  BY <1>9, AddBadStep
<1>10. CASE \E c \in Callers : SetVtoc(c, u)
  BY <1>10, SetVtocStep
<1> QED
  BY <1>1, <1>2, <1>3, <1>4, <1>5, <1>6, <1>7, <1>8, <1>9, <1>10 DEF UnitStep

(* A step of an ioctl.                                                     *)
LEMMA CallStepKeeps ==
  ASSUME CmdkInv, NEW c \in Callers, CallStep(c)
  PROVE  CmdkInv' /\ soft' = soft
BY BbhHeaderStep, BbhTableStep, BbhInstallStep, DevidLookStep, DevidWriteStep, DevidKeepStep DEF CallStep

(* The invariant holds when the system starts, ...                         *)
LEMMA StackInit ==
  ASSUME Init
  PROVE  StackInv
<1>1. CtlInv
  BY DEF Init, BusInit, CtlInv, HeldBy, FlagsTell, DrivesTell, GhdHolds, Entering, AtWork,
         Detaching, Leaving
<1>2. NodeInv
  <2>1. gtgts = {} /\ gtgts = {n \in Nodes : node[n] = "init"}
    BY DEF Init, BusInit
  <2>2. \A t \in Targets : gdevs[t] = 0 /\ {n \in gtgts : Target[n] = t} = {}
    BY <2>1 DEF Init, BusInit
  <2>3. \A t \in Targets : gdevs[t] = Cardinality({n \in gtgts : Target[n] = t})
    BY <2>2, FS_EmptySet
  <2> QED
    BY <2>1, <2>3 DEF NodeInv
<1>3. BusTypeOK
  <2>1. 0 \in 0 .. Cardinality(Nodes)
    BY BusAssumption, FS_CardinalityType
  <2> QED
    BY <2>1, BusAssumption DEF Init, BusInit, BusTypeOK, Steps
<1>4. UnitNodes
  BY DEF Init, CmdkInit, UnitNodes
<1>5. 0 \in 0 .. MaxVersion /\ NoDevid \in Devids /\ "written" \in Devids
  BY UnitAssumption DEF Devids
<1>6. /\ dk = [u \in Units |-> Fresh] /\ dk \in [Units -> Dks]
      /\ \A u \in Units : dk[u] = Fresh
  BY FreshFacts DEF Init, CmdkInit
<1>7. Idle \in Calls /\ Idle.op = "none"
  BY <1>5 DEF Idle, Calls
<1>8. \A c \in Callers : call[c].op = "none"
  BY <1>7 DEF Init, CmdkInit
<1>9. CmdkTypeOK
  BY <1>5, <1>6, <1>7 DEF Init, CmdkInit, CmdkTypeOK, NoTable
<1>10. \A u \in Units : Opened(u) = {} /\ exclusive[u] = {}
  BY DEF Init, CmdkInit, Opened
<1>11. UnitHolds /\ UnitsGivenBack
  BY DEF Init, CmdkInit, UnitHolds, UnitsGivenBack
<1>12. InUse /\ BbhStable
  BY <1>8, <1>10 DEF Init, CmdkInit, InUse, BbhStable
<1>13. LabelFresh /\ BbhFresh
  BY <1>6, FreshFacts DEF LabelFresh, BbhFresh
<1>14. Company /\ Versions /\ DevidInv
  BY <1>8 DEF Init, CmdkInit, Company, Versions, DevidInv, NoTable
<1>15. OpensAccounted
  <2>1. \A u \in Units, p \in Parts, o \in OTypes : opens[u][<<p, o>>] = 0
    BY DEF Init, CmdkInit
  <2>2. RegTypes \subseteq OTypes /\ "lyr" \in OTypes
    BY DEF OTypes
  <2>3. \A u \in Units : \A o \in RegTypes : {p \in Parts : opens[u][<<p, o>>] > 0} = {}
    BY <2>1, <2>2
  <2> QED
    BY <1>6, <1>10, <2>1, <2>2, <2>3, FreshFacts DEF OpensAccounted
<1> QED
  BY <1>1, <1>2, <1>3, <1>4, <1>9, <1>11, <1>12, <1>13, <1>14, <1>15 DEF StackInv, CmdkInv

(* ... and after every step.                                               *)
LEMMA StackStep ==
  ASSUME StackInv, [Next]_stackVars
  PROVE  StackInv'
<1>1. BusTypeOK /\ CtlInv /\ NodeInv /\ UnitNodes /\ CmdkInv
  BY DEF StackInv
<1>2. CASE BusStep /\ UNCHANGED cmdkVars
  BY <1>1, <1>2, CmdkUnchanged, CtlStackStep DEF CtlStep
<1>3. CASE BusOff
  <2>1. CtlStep /\ UNCHANGED <<unitVars, specVars, call, walk>>
    BY <1>3 DEF BusOff, CtlStep
  <2>2. CmdkInv'
    BY <1>1, <1>3, <2>1, NoUnits, ExchangeStep DEF BusOff
  <2> QED
    BY <2>1, <2>2, CtlStackStep DEF unitVars
<1>4. ASSUME NEW n \in Nodes, InitChild(n), UNCHANGED cmdkVars
      PROVE  StackInv'
  <2>1. BusTypeOK' /\ NodeInv' /\ gtgts \subseteq gtgts' /\ UNCHANGED ctlVars
    BY <1>1, <1>4, InitChildStep
  <2>2. CmdkInv' /\ soft' = soft
    BY <1>1, <1>4, CmdkUnchanged
  <2>3. CtlInv' /\ UNCHANGED drv
    BY <1>1, <2>1, CtlKept DEF ctlVars
  <2>4. UnitNodes'
    BY <1>1, <2>1, <2>2, <2>3, UnitsKept
  <2> QED
    BY <2>1, <2>2, <2>3, <2>4 DEF StackInv
<1>5. ASSUME NEW n \in Nodes, Uninit(n)
      PROVE  StackInv'
  <2>1. UninitChild(n) /\ UNCHANGED cmdkVars /\ (n \in CmdkNodes => soft[Unit[n]] = "none")
    BY <1>5 DEF Uninit
  <2>2. BusTypeOK' /\ NodeInv' /\ gtgts' = gtgts \ {n} /\ UNCHANGED ctlVars
    BY <1>1, <2>1, UninitChildStep
  <2>3. CmdkInv' /\ soft' = soft
    BY <1>1, <2>1, CmdkUnchanged
  <2>4. CtlInv' /\ UNCHANGED drv
    BY <1>1, <2>2, CtlKept DEF ctlVars
  <2>5. UnitNodes'
    BY <1>1, <2>1, <2>2, <2>3, <2>4 DEF UnitNodes
  <2> QED
    BY <2>2, <2>3, <2>4, <2>5 DEF StackInv
<1>6. ASSUME NEW n \in CmdkNodes, ProbeNode(n)
      PROVE  StackInv'
  <2>1. /\ node[n] = "init" /\ Probe(Unit[n], DadkProbe(Target[n])) /\ UNCHANGED busVars
        /\ n \in Nodes /\ Unit[n] \in Units /\ DadkProbe(Target[n]) \in BOOLEAN
    BY <1>6, BusAssumption, StackAssumption DEF ProbeNode, DadkProbe
  <2>2. /\ CmdkInv'
        /\ \A v \in Units : soft'[v] # "none" =>
             soft[v] # "none" \/ (v = Unit[n] /\ DadkProbe(Target[n]))
    BY <1>1, <2>1, ProbeStep
  <2>3. BusTypeOK' /\ CtlInv' /\ NodeInv'
    BY <1>1, <2>1, BusUnchanged
  <2>4. UnitNodes'
    <3>1. gtgts' = gtgts /\ drv' = drv /\ n \in gtgts
      BY <1>1, <2>1 DEF busVars, NodeInv
    <3> QED
      BY <1>1, <1>6, <2>2, <3>1 DEF UnitNodes, DadkProbe
  <2> QED
    BY <2>2, <2>3, <2>4 DEF StackInv
<1>7. ASSUME NEW u \in Units, UnitStep(u), UNCHANGED busVars
      PROVE  StackInv'
  <2>1. CmdkInv' /\ \A v \in Units : soft'[v] # "none" => soft[v] # "none"
    BY <1>1, <1>7, UnitStepKeeps
  <2>2. BusTypeOK' /\ CtlInv' /\ NodeInv'
    BY <1>1, <1>7, BusUnchanged
  <2>3. gtgts' = gtgts /\ drv' = drv
    BY <1>7 DEF busVars
  <2>4. UnitNodes'
    BY <1>1, <2>1, <2>3, UnitsKept
  <2> QED
    BY <2>1, <2>2, <2>4 DEF StackInv
<1>8. ASSUME NEW c \in Callers, CallStep(c), UNCHANGED busVars
      PROVE  StackInv'
  <2>1. CmdkInv' /\ soft' = soft
    BY <1>1, <1>8, CallStepKeeps
  <2>2. BusTypeOK' /\ CtlInv' /\ NodeInv'
    BY <1>1, <1>8, BusUnchanged
  <2>3. gtgts' = gtgts /\ drv' = drv
    BY <1>8 DEF busVars
  <2>4. UnitNodes'
    BY <1>1, <2>1, <2>3, UnitsKept
  <2> QED
    BY <2>1, <2>2, <2>4 DEF StackInv
<1>9. CASE UNCHANGED stackVars
  <2>1. UNCHANGED busVars /\ UNCHANGED cmdkVars
    BY <1>9 DEF stackVars
  <2>2. CmdkInv' /\ soft' = soft
    BY <1>1, <2>1, CmdkUnchanged
  <2>3. BusTypeOK' /\ CtlInv' /\ NodeInv'
    BY <1>1, <2>1, BusUnchanged
  <2>4. gtgts' = gtgts /\ drv' = drv
    BY <2>1 DEF busVars
  <2>5. UnitNodes'
    BY <1>1, <2>2, <2>4, UnitsKept
  <2> QED
    BY <2>2, <2>3, <2>5 DEF StackInv
<1> QED
  BY <1>2, <1>3, <1>4, <1>5, <1>6, <1>7, <1>8, <1>9 DEF Next

(* The invariant of the stack.                                             *)
THEOREM StackAlwaysInv == Spec => []StackInv
<1>1. Init => StackInv
  BY StackInit
<1>2. StackInv /\ [Next]_stackVars => StackInv'
  BY StackStep
<1> QED
  BY <1>1, <1>2, PTL DEF Spec

-----------------------------------------------------------------------------
(* What the invariant says of the system.                                  *)

(* However ata_attach, cmdkprobe and cmdkattach fail, and after ata_detach *)
(* and cmdkdetach, nothing stays that was taken but the mutex of the reset *)
(* notifications; of a unit the queue of a cmdk_create_obj that failed, or *)
(* else the bad block table, its counts and the devid. Nothing is given    *)
(* back that is not held, no table of an attached unit is lost, the GHD's  *)
(* device structures count their instances, and types are correct.         *)
THEOREM NothingEverLeft == Spec => []NothingLeft
<1>1. StackInv => NothingLeft
  <2>1. SUFFICES ASSUME StackInv PROVE NothingLeft
    OBVIOUS
  <2>2. freed = {} /\ HeldBy /\ DrivesTell /\ held \subseteq Resources
    BY <2>1 DEF StackInv, CtlInv, BusTypeOK
  <2>3. step = "off" => held \subseteq {"reset_notify_mutex"}
    BY <2>2 DEF HeldBy, GhdHolds, AtWork, Detaching, Leaving, Resources, GhdMutexes
  <2>4. step = "off" => drives = {} /\ gtgts = {}
    BY <2>1, <2>2 DEF DrivesTell, StackInv, NodeInv
  <2>5. GivenBack
    BY <2>1, <2>2, <2>3, <2>4 DEF GivenBack, StackInv, NodeInv
  <2> QED
    BY <2>1, <2>5 DEF NothingLeft, TypeOK, StackInv, CmdkInv
<1> QED
  BY <1>1, StackAlwaysInv, PTL

(* The interrupt handler, the timer and the done queue find what they use, *)
(* at every step of ata_attach and ata_detach.                             *)
THEOREM AlwaysGrounded == Spec => []Grounded
<1>1. StackInv => Grounded
  BY DEF StackInv, CtlInv, HeldBy, FlagsTell, GhdHolds, Entering, AtWork, Detaching, Leaving, Grounded
<1> QED
  BY <1>1, StackAlwaysInv, PTL

(* An attached unit's disk can be called, through the structure that was   *)
(* made for its own node.                                                  *)
THEOREM StackAlwaysStands == Spec => []StackStands
<1>1. StackInv => StackStands
  <2>1. SUFFICES ASSUME StackInv, NEW n \in CmdkNodes, soft[Unit[n]] = "attached"
                 PROVE  /\ step = "attached" /\ drv[Target[n]] = "disk"
                        /\ c_data[Target[n]] = n /\ n \in gtgts
    BY DEF StackStands
  <2>2. PICK m \in CmdkNodes : Unit[m] = Unit[n] /\ m \in gtgts /\ drv[Target[m]] = "disk"
    BY <2>1, StackAssumption DEF StackInv, UnitNodes
  <2>3. m = n
    BY <2>2, StackAssumption
  <2> QED
    BY <2>1, <2>2, <2>3 DEF StackInv, NodeInv
<1> QED
  BY <1>1, StackAlwaysInv, PTL

(* The driver's accounts of opens agree with what specfs has open, and an  *)
(* exclusive open is the only one of its partition.                        *)
THEOREM OpensAlwaysAccounted == Spec => []OpensAccounted
<1>1. StackInv => OpensAccounted
  BY DEF StackInv, CmdkInv
<1> QED
  BY <1>1, StackAlwaysInv, PTL

(* A label from before the last close is used only while a cmdkclose is    *)
(* about to invalidate it.                                                 *)
THEOREM LabelAlwaysFresh == Spec => []LabelFresh
<1>1. StackInv => LabelFresh
  BY DEF StackInv, CmdkInv
<1> QED
  BY <1>1, StackAlwaysInv, PTL

(* The table of bad blocks in use is no older than the disk's was when the *)
(* last DKIOCADDBAD that overlapped no other began, ...                    *)
THEOREM BbhAlwaysFresh == Spec => []BbhFresh
<1>1. StackInv => BbhFresh
  BY DEF StackInv, CmdkInv
<1> QED
  BY <1>1, StackAlwaysInv, PTL

(* ... and is not freed under a lookup.                                    *)
THEOREM BbhAlwaysStable == Spec => []BbhStable
<1>1. StackInv => BbhStable
  BY DEF StackInv, CmdkInv
<1> QED
  BY <1>1, StackAlwaysInv, PTL

(* A step keeps the devids on the disks, as long as the controller stays.  *)
LEMMA DevidsKept ==
  ASSUME StackInv, [Next]_stackVars, step' # "off"
  PROVE  KeepsDevids
<1>1. CmdkInv
  BY DEF StackInv
<1>2. CASE UNCHANGED diskid
  BY <1>2 DEF KeepsDevids
<1>3. ASSUME NEW u \in Units, AttachUnit(u)
      PROVE  KeepsDevids
  <2>1. CASE UNCHANGED diskid
    BY <2>1 DEF KeepsDevids
  <2>2. CASE \E d \in DevidSetup(u, "attach") :
               /\ diskid' = [diskid EXCEPT ![u] = d[2]]
               /\ spoiled' = IF d[3] THEN spoiled \cup {u} ELSE spoiled
    <3>1. PICK d \in DevidSetup(u, "attach") :
               /\ diskid' = [diskid EXCEPT ![u] = d[2]]
               /\ spoiled' = IF d[3] THEN spoiled \cup {u} ELSE spoiled
      BY <2>2
    <3>2. diskid[u] # NoDevid => d[2] = diskid[u] \/ d[3]
      BY <1>1, DevidSetupFacts
    <3>3. diskid \in [Units -> Devids]
      BY <1>1 DEF CmdkInv, CmdkTypeOK
    <3> QED
      BY <3>1, <3>2, <3>3 DEF KeepsDevids
  <2> QED
    BY <1>3, <2>1, <2>2 DEF AttachUnit
<1>4. ASSUME NEW u \in Units, UnitStep(u)
      PROVE  UNCHANGED diskid \/ AttachUnit(u)
  BY <1>4 DEF UnitStep, DetachUnit, UseLabel, WriteTable, Close, Invalidate, Open, Walk,
              WalkDone, AddBad, SetVtoc, diskVars
<1>5. ASSUME NEW c \in Callers, CallStep(c)
      PROVE  KeepsDevids
  <2>1. CASE DevidWrite(c)
    BY <1>1, <2>1, DevidWriteStep
  <2>2. CASE ~DevidWrite(c)
    <3>1. UNCHANGED diskid
      BY <1>5, <2>2 DEF CallStep, BbhHeader, BbhTable, BbhInstall, DevidLook, DevidKeep, diskVars
    <3> QED
      BY <1>2, <3>1
  <2> QED
    BY <2>1, <2>2
<1>6. ~BusOff
  BY DEF BusOff, DestroyController
<1>7. UNCHANGED cmdkVars => UNCHANGED diskid
  BY DEF cmdkVars
<1>8. ASSUME NEW n \in CmdkNodes, ProbeNode(n)
      PROVE  UNCHANGED diskid
  BY <1>8 DEF ProbeNode, Probe, diskVars
<1>9. ASSUME NEW n \in Nodes, Uninit(n)
      PROVE  UNCHANGED diskid
  BY <1>7, <1>9 DEF Uninit
<1>10. UNCHANGED stackVars => UNCHANGED diskid
  BY <1>7 DEF stackVars
<1> QED
  BY <1>2, <1>3, <1>4, <1>5, <1>6, <1>7, <1>8, <1>9, <1>10 DEF Next

(* A devid on a disk is never replaced, unless an I/O error or two setups  *)
(* at a time came in.                                                      *)
THEOREM DevidAlwaysKept == Spec => DevidKept
<1>1. StackInv /\ [Next]_stackVars =>
        [step' # "off" =>
           \A u \in Units : diskid[u] # NoDevid /\ diskid'[u] # diskid[u]
                              => u \in spoiled']_stackVars
  BY DevidsKept DEF KeepsDevids
<1> QED
  BY <1>1, StackAlwaysInv, PTL DEF Spec, DevidKept

-----------------------------------------------------------------------------
(* The nexus                                                               *)

(* A nexus that is that of the chip c, some of whose children have come.   *)
NexusOf(c, n) ==
  /\ n \in [native : SUBSET {0, 1}, compat : SUBSET {0, 1}, vec : [{0, 1} -> Int]]
  /\ n.native = c.native \/ n.native = Nexus!Native(c)
  /\ n.compat \cap Nexus!Native(c) = {}
  /\ \A dev \in {0, 1} :
       n.vec[dev] # 0 =>
         /\ n.native = Nexus!Native(c)
         /\ dev \in n.compat <=> dev \notin Nexus!Native(c)
         /\ dev \notin Nexus!Native(c) => n.vec[dev] = Nexus!Line(c, dev)

(* The fields of a chip and the modes of its channels.                     *)
LEMMA ChipFields ==
  ASSUME NEW c \in Nexus!Chips
  PROVE  /\ c.ide \in BOOLEAN /\ c.native \subseteq {0, 1} /\ c.pre26 \in BOOLEAN
         /\ c.bm \in {0, 8, 12, 16} /\ c.conf \in [{0, 1} -> {0, 11}]
         /\ Nexus!Native(c) \subseteq {0, 1}
         /\ c.ide => Nexus!Native(c) = c.native
         /\ ~c.ide => Nexus!Native(c) = {0, 1}
<1>1. /\ c.ide \in BOOLEAN /\ c.native \subseteq {0, 1} /\ c.pre26 \in BOOLEAN
      /\ c.bm \in {0, 8, 12, 16} /\ c.conf \in [{0, 1} -> {0, 11}]
  BY DEF Nexus!Chips, Nexus!Channels, Nexus!NoVec
<1>2. /\ c.ide => Nexus!Native(c) = c.native
      /\ ~c.ide => Nexus!Native(c) = {0, 1}
  BY DEF Nexus!Native, Nexus!Channels
<1>. QED
  BY <1>1, <1>2

(* The nexus before its children come ...                                  *)
LEMMA NexusAttached ==
  ASSUME NEW c \in Nexus!Chips
  PROVE  NexusOf(c, Nexus!Attached(c))
<1>. DEFINE vec == [dev \in {0, 1} |-> 0]
            n == [native |-> c.native, compat |-> {}, vec |-> vec]
<1>1. Nexus!Attached(c) = n
  BY DEF Nexus!Attached, Nexus!Channels, Nexus!NoVec
<1>2. vec \in [{0, 1} -> Int] /\ \A dev \in {0, 1} : vec[dev] = 0
  OBVIOUS
<1>. HIDE DEF vec
<1>3. n.native = c.native /\ n.compat = {} /\ n.vec = vec
  OBVIOUS
<1>4. n \in [native : SUBSET {0, 1}, compat : SUBSET {0, 1}, vec : [{0, 1} -> Int]]
  BY <1>2, ChipFields
<1>. HIDE DEF n
<1>. QED
  BY <1>1, <1>2, <1>3, <1>4 DEF NexusOf

(* ... and with one more of them (pciide_initchild).                       *)
LEMMA NexusComes ==
  ASSUME NEW c \in Nexus!Chips, NEW n, NexusOf(c, n), NEW dev \in {0, 1}
  PROVE  NexusOf(c, Nexus!InitChild(c, n, dev))
<1>. DEFINE nat == Nexus!Native(c)
            own == n.compat \cup (IF dev \in nat THEN {} ELSE {dev})
            vec == IF dev \in own THEN Nexus!Line(c, dev) ELSE 1
            to == [n.vec EXCEPT ![dev] = vec]
            o == [native |-> nat, compat |-> own, vec |-> to]
<1>1. /\ n \in [native : SUBSET {0, 1}, compat : SUBSET {0, 1}, vec : [{0, 1} -> Int]]
      /\ n.compat \cap nat = {} /\ (n.native = c.native \/ n.native = nat)
      /\ n.compat \subseteq {0, 1} /\ n.vec \in [{0, 1} -> Int]
  BY DEF NexusOf
<1>2. /\ c.ide \in BOOLEAN /\ c.conf \in [{0, 1} -> {0, 11}] /\ nat \subseteq {0, 1}
      /\ c.ide => nat = c.native
      /\ ~c.ide => nat = {0, 1}
  BY ChipFields
<1>. HIDE DEF nat
<1>3. dev \in own <=> dev \notin nat
  BY <1>1
<1>4. dev \notin nat => Nexus!Line(c, dev) = IF c.conf[dev] # 0 THEN c.conf[dev] ELSE 14 + dev
  BY DEF Nexus!Line, nat, Nexus!NoVec
<1>5. vec \in Int
  <2>1. c.conf[dev] \in {0, 11}
    BY <1>2
  <2>. QED
    BY <2>1, <1>3, <1>4
<1>6. Nexus!CompatSetup(c, n, dev) = [n EXCEPT !.native = nat, !.compat = own]
  <2>1. CASE c.ide
    <3>1. n.native = nat
      BY <2>1, <1>1, <1>2
    <3>2. Nexus!CompatSetup(c, n, dev) = [n EXCEPT !.compat = IF dev \in nat THEN n.compat ELSE n.compat \cup {dev}]
      BY <2>1, <3>1 DEF Nexus!CompatSetup
    <3>3. own = IF dev \in nat THEN n.compat ELSE n.compat \cup {dev}
      OBVIOUS
    <3>. HIDE DEF own
    <3>. QED
      BY <3>1, <3>2, <3>3, <1>1
  <2>2. CASE ~c.ide
    <3>1. own = n.compat
      BY <2>2, <1>2
    <3>. HIDE DEF own
    <3>. QED
      BY <2>2, <3>1, <1>1, <1>2 DEF Nexus!CompatSetup, Nexus!Channels
  <2>. QED
    BY <2>1, <2>2, <1>2
<1>. HIDE DEF own
<1>7. Nexus!InitChild(c, n, dev) = o
  <2>. DEFINE m == Nexus!CompatSetup(c, n, dev)
  <2>1. m.compat = own /\ m.vec = n.vec /\ m = [native |-> nat, compat |-> own, vec |-> n.vec]
    BY <1>6, <1>1
  <2>. HIDE DEF m
  <2>2. Nexus!InitChild(c, n, dev) =
          [m EXCEPT !.vec[dev] = IF dev \notin own THEN 1
                                 ELSE IF c.conf[dev] # 0 THEN c.conf[dev] ELSE 14 + dev]
    BY <2>1 DEF Nexus!InitChild, Nexus!NativeMode, m, Nexus!NoVec
  <2>3. vec = IF dev \notin own THEN 1
              ELSE IF c.conf[dev] # 0 THEN c.conf[dev] ELSE 14 + dev
    BY <1>3, <1>4
  <2>. HIDE DEF vec
  <2>. QED
    BY <2>1, <2>2, <2>3
<1>8. o.native = nat /\ o.compat = own /\ o.vec = to
  OBVIOUS
<1>9. /\ to \in [{0, 1} -> Int] /\ to[dev] = vec
      /\ \A d \in {0, 1} : d # dev => to[d] = n.vec[d]
  <2>. HIDE DEF vec
  <2>. QED
    BY <1>1, <1>5
<1>. HIDE DEF to
<1>10. o \in [native : SUBSET {0, 1}, compat : SUBSET {0, 1}, vec : [{0, 1} -> Int]]
  BY <1>1, <1>2, <1>9 DEF own
<1>. HIDE DEF o
<1>11. o.compat \cap nat = {}
  BY <1>1, <1>8 DEF own
<1>12. ASSUME NEW d \in {0, 1}, o.vec[d] # 0
       PROVE  /\ d \in o.compat <=> d \notin nat
              /\ d \notin nat => o.vec[d] = Nexus!Line(c, d)
  <2>1. CASE d = dev
    BY <2>1, <1>3, <1>8, <1>9
  <2>2. CASE d # dev
    <3>1. d \in own <=> d \in n.compat
      BY <2>2 DEF own
    <3>2. o.vec[d] = n.vec[d] /\ n.vec[d] # 0
      BY <2>2, <1>8, <1>9, <1>12
    <3>3. /\ d \in n.compat <=> d \notin nat
          /\ d \notin nat => n.vec[d] = Nexus!Line(c, d)
      BY <3>2 DEF NexusOf, nat
    <3>. QED
      BY <3>1, <3>2, <3>3, <1>8
  <2>. QED
    BY <2>1, <2>2
<1>. QED
  BY <1>7, <1>8, <1>10, <1>11, <1>12 DEF NexusOf, nat

(* The modes of two channels are four.                                     *)
LEMMA Modes ==
  {0, 1} # {} /\ {0, 1} # {1} /\ {0, 1} # {0} /\ {} # {1} /\ {} # {0} /\ {0} # {1}
<1>1. 0 \in {0, 1} /\ 1 \in {0, 1} /\ 0 \notin {1} /\ 1 \notin {0} /\ 0 \in {0} /\ 1 \in {1}
  OBVIOUS
<1>. QED
  BY ONLY <1>1, Zenon

(* The tuples of a chip in order.                                          *)
LEMMA TupleOrder ==
  ASSUME NEW c \in Nexus!Chips
  PROVE  LET t == Nexus!Tuples(c)  nat == Nexus!Native(c)
         IN /\ ~c.pre26 \/ nat = {0, 1} =>
                 t[2] = "P0" /\ t[3] = "P1" /\ t[4] = "S0" /\ t[5] = "S1" /\ t[6] = "BM"
            /\ c.pre26 /\ nat = {} =>
                 t[2] = "BM" /\ t[3] = "P0" /\ t[4] = "P1" /\ t[5] = "S0" /\ t[6] = "S1"
            /\ c.pre26 /\ nat = {1} =>
                 t[2] = "S0" /\ t[3] = "S1" /\ t[4] = "BM" /\ t[5] = "P0" /\ t[6] = "P1"
            /\ c.pre26 /\ nat = {0} =>
                 t[2] = "P0" /\ t[3] = "P1" /\ t[4] = "BM" /\ t[5] = "S0" /\ t[6] = "S1"
<1>. DEFINE nat == Nexus!Native(c)  P == <<"P0", "P1">>  S == <<"S0", "S1">>
            B == <<"BM">>  H == <<"config">>
<1>1. nat \subseteq {0, 1}
  BY ChipFields
<1>2. /\ ~c.pre26 \/ nat = {0, 1} => Nexus!Tuples(c) = H \o (P \o S \o B)
      /\ c.pre26 /\ nat = {} => Nexus!Tuples(c) = H \o (B \o P \o S)
      /\ c.pre26 /\ nat = {1} => Nexus!Tuples(c) = H \o (S \o B \o P)
      /\ c.pre26 /\ nat = {0} => Nexus!Tuples(c) = H \o (P \o B \o S)
  <2>. HIDE DEF nat, P, S, B, H
  <2>1. Nexus!Tuples(c) = H \o CASE ~c.pre26 \/ nat = {0, 1} -> P \o S \o B
                              [] c.pre26 /\ nat = {}        -> B \o P \o S
                              [] c.pre26 /\ nat = {1}       -> S \o B \o P
                              [] c.pre26 /\ nat = {0}       -> P \o B \o S
    BY Zenon DEF Nexus!Tuples, Nexus!Channels, nat, P, S, B, H
  <2>2. {0, 1} # {} /\ {0, 1} # {1} /\ {0, 1} # {0} /\ {} # {1} /\ {} # {0} /\ {0} # {1}
    BY Modes
  <2>. QED
    BY <2>1, <2>2
<1>. HIDE DEF nat
<1>5. /\ (H \o (P \o S \o B))[2] = "P0" /\ (H \o (P \o S \o B))[3] = "P1"
      /\ (H \o (P \o S \o B))[4] = "S0" /\ (H \o (P \o S \o B))[5] = "S1"
      /\ (H \o (P \o S \o B))[6] = "BM"
  OBVIOUS
<1>6. /\ (H \o (B \o P \o S))[2] = "BM" /\ (H \o (B \o P \o S))[3] = "P0"
      /\ (H \o (B \o P \o S))[4] = "P1" /\ (H \o (B \o P \o S))[5] = "S0"
      /\ (H \o (B \o P \o S))[6] = "S1"
  OBVIOUS
<1>7. /\ (H \o (S \o B \o P))[2] = "S0" /\ (H \o (S \o B \o P))[3] = "S1"
      /\ (H \o (S \o B \o P))[4] = "BM" /\ (H \o (S \o B \o P))[5] = "P0"
      /\ (H \o (S \o B \o P))[6] = "P1"
  OBVIOUS
<1>8. /\ (H \o (P \o B \o S))[2] = "P0" /\ (H \o (P \o B \o S))[3] = "P1"
      /\ (H \o (P \o B \o S))[4] = "BM" /\ (H \o (P \o B \o S))[5] = "S0"
      /\ (H \o (P \o B \o S))[6] = "S1"
  OBVIOUS
<1>. HIDE DEF P, S, B, H
<1>. QED
  BY <1>2, <1>5, <1>6, <1>7, <1>8, Zenon DEF nat

(* Where the numbers of the tuples lead, for a nexus whose class code      *)
(* tells the modes.                                                        *)
LEMMA TupleFound ==
  ASSUME NEW c \in Nexus!Chips, NEW n, n.native = Nexus!Native(c), NEW dev \in {0, 1}
  PROVE  /\ Nexus!Tuple(c, Nexus!Rnumber(c, n, dev, 0)) = Nexus!Command(dev)
         /\ Nexus!Tuple(c, Nexus!Rnumber(c, n, dev, 1)) = Nexus!Control(dev)
         /\ Nexus!Tuple(c, Nexus!Rnumber(c, n, dev, 2)) = "BM"
<1>. DEFINE nat == Nexus!Native(c)  T == Nexus!Transform[nat]
            num(own) == IF c.pre26 THEN own + T[own + 1] ELSE own
            at(own) == Nexus!Tuples(c)[num(own) + 2]
<1>1. nat \subseteq {0, 1} /\ c.pre26 \in BOOLEAN
  BY ChipFields
<1>2. nat = {} \/ nat = {0} \/ nat = {1} \/ nat = {0, 1}
  BY <1>1
<1>3. ASSUME NEW own \in 0 .. 4 PROVE num(own) \in Int
        /\ num(own) = IF ~c.pre26 \/ nat = {0, 1} THEN own
                      ELSE IF nat = {} THEN IF own = 4 THEN 0 ELSE own + 1
                      ELSE IF nat = {1} THEN IF own < 2 THEN own + 3 ELSE own - 2
                      ELSE IF own < 2 THEN own ELSE IF own < 4 THEN own + 1 ELSE own - 2
  <2>1. /\ nat = {} => T = << 1,  1,  1,  1, -4>>
        /\ nat = {1} => T = << 3,  3, -2, -2, -2>>
        /\ nat = {0} => T = << 0,  0,  1,  1, -2>>
        /\ nat = {0, 1} => T = <<0, 0, 0, 0, 0>>
    <3>. HIDE DEF nat
    <3>1. nat \in SUBSET {0, 1}
      BY <1>1
    <3>2. {0, 1} # {} /\ {0, 1} # {1} /\ {0, 1} # {0} /\ {} # {1} /\ {} # {0} /\ {0} # {1}
      BY Modes
    <3>3. T = CASE nat = {}  -> << 1,  1,  1,  1, -4>>
                [] nat = {1} -> << 3,  3, -2, -2, -2>>
                [] nat = {0} -> << 0,  0,  1,  1, -2>>
                [] nat = {0, 1} -> <<0, 0, 0, 0, 0>>
      BY <3>1, Zenon DEF Nexus!Transform, Nexus!Channels
    <3>. HIDE DEF T
    <3>. QED
      BY <3>2, <3>3
  <2>. HIDE DEF T, nat
  <2>2. own = 0 \/ own = 1 \/ own = 2 \/ own = 3 \/ own = 4
    OBVIOUS
  <2>3. {0, 1} # {} /\ {0, 1} # {1} /\ {0, 1} # {0} /\ {} # {1} /\ {} # {0} /\ {0} # {1}
    BY Modes
  <2>. QED
    BY <2>1, <2>2, <2>3, <1>1, <1>2
<1>4. \A own : (IF c.pre26 THEN Nexus!Pre26RnumberMap(n, own) ELSE own) = num(own)
  BY DEF Nexus!Pre26RnumberMap
<1>5. /\ Nexus!Rnumber(c, n, dev, 0) = num(0 + 2 * dev) + 1
      /\ Nexus!Rnumber(c, n, dev, 1) = num(1 + 2 * dev) + 1
      /\ Nexus!Rnumber(c, n, dev, 2) = num(4) + 1
  <2>. HIDE DEF num
  <2>. QED
    BY <1>4 DEF Nexus!Rnumber
<1>. HIDE DEF T
<1>6. /\ Nexus!Tuple(c, Nexus!Rnumber(c, n, dev, 0)) = at(2 * dev)
      /\ Nexus!Tuple(c, Nexus!Rnumber(c, n, dev, 1)) = at(1 + 2 * dev)
      /\ Nexus!Tuple(c, Nexus!Rnumber(c, n, dev, 2)) = at(4)
  <2>1. num(2 * dev) \in Int /\ num(1 + 2 * dev) \in Int /\ num(4) \in Int
    <3>1. 2 * dev \in 0 .. 4 /\ 1 + 2 * dev \in 0 .. 4 /\ 4 \in 0 .. 4
      OBVIOUS
    <3>. HIDE DEF num
    <3>. QED
      BY <3>1, <1>3
  <2>2. 0 + 2 * dev = 2 * dev
    OBVIOUS
  <2>. HIDE DEF num
  <2>3. \A k \in Int : (k + 1) + 1 = k + 2
    OBVIOUS
  <2>. QED
    BY <2>1, <2>2, <2>3, <1>5 DEF Nexus!Tuple
<1>. DEFINE t == Nexus!Tuples(c)
<1>7. /\ at(0) = "P0" /\ at(1) = "P1" /\ at(2) = "S0" /\ at(3) = "S1" /\ at(4) = "BM"
  <2>1. /\ ~c.pre26 \/ nat = {0, 1} =>
             t[2] = "P0" /\ t[3] = "P1" /\ t[4] = "S0" /\ t[5] = "S1" /\ t[6] = "BM"
        /\ c.pre26 /\ nat = {} =>
             t[2] = "BM" /\ t[3] = "P0" /\ t[4] = "P1" /\ t[5] = "S0" /\ t[6] = "S1"
        /\ c.pre26 /\ nat = {1} =>
             t[2] = "S0" /\ t[3] = "S1" /\ t[4] = "BM" /\ t[5] = "P0" /\ t[6] = "P1"
        /\ c.pre26 /\ nat = {0} =>
             t[2] = "P0" /\ t[3] = "P1" /\ t[4] = "BM" /\ t[5] = "S0" /\ t[6] = "S1"
    BY TupleOrder
  <2>2. {0, 1} # {} /\ {0, 1} # {1} /\ {0, 1} # {0} /\ {} # {1} /\ {} # {0} /\ {0} # {1}
    BY Modes
  <2>. HIDE DEF num, nat, t
  <2>3. \A own \in 0 .. 4 :
          num(own) = IF ~c.pre26 \/ nat = {0, 1} THEN own
                     ELSE IF nat = {} THEN IF own = 4 THEN 0 ELSE own + 1
                     ELSE IF nat = {1} THEN IF own < 2 THEN own + 3 ELSE own - 2
                     ELSE IF own < 2 THEN own ELSE IF own < 4 THEN own + 1 ELSE own - 2
    BY <1>3
  <2>4. CASE ~c.pre26 \/ nat = {0, 1}
    <3>1. num(0) = 0 /\ num(1) = 1 /\ num(2) = 2 /\ num(3) = 3 /\ num(4) = 4
      BY <2>3, <2>4
    <3>. QED
      BY <2>1, <2>4, <3>1 DEF t
  <2>5. CASE c.pre26 /\ nat = {}
    <3>1. num(0) = 1 /\ num(1) = 2 /\ num(2) = 3 /\ num(3) = 4 /\ num(4) = 0
      BY <2>2, <2>3, <2>5
    <3>. QED
      BY <2>1, <2>5, <3>1 DEF t
  <2>6. CASE c.pre26 /\ nat = {1}
    <3>1. num(0) = 3 /\ num(1) = 4 /\ num(2) = 0 /\ num(3) = 1 /\ num(4) = 2
      BY <2>2, <2>3, <2>6
    <3>. QED
      BY <2>1, <2>6, <3>1 DEF t
  <2>7. CASE c.pre26 /\ nat = {0}
    <3>1. num(0) = 0 /\ num(1) = 1 /\ num(2) = 3 /\ num(3) = 4 /\ num(4) = 2
      BY <2>2, <2>3, <2>7
    <3>. QED
      BY <2>1, <2>7, <3>1 DEF t
  <2>. QED
    BY <2>4, <2>5, <2>6, <2>7, <1>1, <1>2
<1>. HIDE DEF at
<1>8. CASE dev = 0
  <2>1. 2 * dev = 0 /\ 1 + 2 * dev = 1
    BY <1>8
  <2>. QED
    BY <2>1, <1>6, <1>7, <1>8 DEF Nexus!Command, Nexus!Control
<1>9. CASE dev = 1
  <2>1. 2 * dev = 2 /\ 1 + 2 * dev = 3
    BY <1>9
  <2>. QED
    BY <2>1, <1>6, <1>7, <1>9 DEF Nexus!Command, Nexus!Control
<1>. QED
  BY <1>8, <1>9

(* As many bytes of its half of the bus master registers as there are.     *)
LEMMA HalfSize ==
  ASSUME NEW c \in Nexus!Chips, NEW n, NEW dev \in {0, 1},
         Nexus!Tuple(c, Nexus!Rnumber(c, n, dev, 2)) = "BM"
  PROVE  Nexus!RegSize(c, n, dev, 2) = Cardinality({b \in 8 * dev .. 8 * dev + 7 : b < c.bm})
<1>. DEFINE bm == c.bm  lo == 8 * dev  hi == IF bm < lo + 8 THEN bm - 1 ELSE lo + 7
            left == IF dev = 0 THEN bm ELSE IF bm < 8 THEN 0 ELSE bm - 8
<1>1. bm \in {0, 8, 12, 16}
  BY ChipFields
<1>2. Nexus!RegSize(c, n, dev, 2) = IF left > 8 THEN 8 ELSE left
  <2>1. Nexus!Size(c, "BM") = bm
    BY DEF Nexus!Size
  <2>. HIDE DEF bm
  <2>. QED
    BY <2>1 DEF Nexus!RegSize
<1>. HIDE DEF bm
<1>3. lo \in Int /\ hi \in Int /\ bm \in Int /\ (dev = 0 => lo = 0) /\ (dev = 1 => lo = 8)
  BY <1>1
<1>4. (IF lo > hi THEN 0 ELSE hi - lo + 1) = IF left > 8 THEN 8 ELSE left
  BY <1>1
<1>. HIDE DEF lo, left
<1>5. {b \in lo .. lo + 7 : b < bm} = lo .. hi
  BY <1>3
<1>. HIDE DEF hi
<1>6. Cardinality(lo .. hi) = IF lo > hi THEN 0 ELSE hi - lo + 1
  BY <1>3, FS_Interval
<1>. QED
  BY <1>2, <1>4, <1>5, <1>6, Zenon DEF bm, lo

(* What a nexus gives to a child that has come is its channel's.           *)
LEMMA NexusOwn ==
  ASSUME NEW c \in Nexus!Chips, NEW n, NexusOf(c, n), NEW dev \in {0, 1}, n.vec[dev] # 0
  PROVE  Nexus!OwnChannel(c, n, dev)
<1>1. /\ n.native = Nexus!Native(c)
      /\ dev \in n.compat <=> dev \notin Nexus!Native(c)
      /\ dev \notin Nexus!Native(c) => n.vec[dev] = Nexus!Line(c, dev)
  BY DEF NexusOf
<1>2. /\ Nexus!Tuple(c, Nexus!Rnumber(c, n, dev, 0)) = Nexus!Command(dev)
      /\ Nexus!Tuple(c, Nexus!Rnumber(c, n, dev, 1)) = Nexus!Control(dev)
      /\ Nexus!Tuple(c, Nexus!Rnumber(c, n, dev, 2)) = "BM"
  BY <1>1, TupleFound
<1>3. Nexus!RegSize(c, n, dev, 2) = Cardinality({b \in 8 * dev .. 8 * dev + 7 : b < c.bm})
  BY <1>2, HalfSize
<1>4. ASSUME NEW offset \in 0 .. 7, NEW len \in 0 .. 9, ~Nexus!Refused(2, offset, len)
      PROVE  LET g == Nexus!BusMap(c, n, dev, 2, offset, len)
             IN /\ g.tuple = "BM" /\ g.len > 0
                /\ g.offset >= 8 * dev
                /\ g.offset + g.len <= 8 * dev + 8
  <2>. DEFINE g == Nexus!BusMap(c, n, dev, 2, offset, len)
              size == IF len = 0 THEN 8 - offset ELSE len
  <2>1. offset + len <= 8
    BY <1>4 DEF Nexus!Refused
  <2>2. g.tuple = "BM" /\ g.offset = offset + 8 * dev /\ g.len = size
    BY <1>2 DEF Nexus!BusMap
  <2>3. size \in Int /\ size > 0 /\ offset + size <= 8
    BY <2>1
  <2>. HIDE DEF g, size
  <2>4. g.offset >= 8 * dev /\ g.offset + g.len <= 8 * dev + 8 /\ g.len > 0
    BY <2>2, <2>3
  <2>. QED
    BY <2>2, <2>4 DEF g
<1>5. Nexus!Ispec(n, dev).vec = Nexus!Line(c, dev)
  BY <1>1 DEF Nexus!Ispec, Nexus!NativeMode, Nexus!Line
<1>6. Nexus!Ispec(n, dev).of = Nexus!Enable(n, dev).of
  BY DEF Nexus!Ispec, Nexus!Enable, Nexus!NativeMode
<1>7. \A offset \in 0 .. 7, len \in 0 .. 9 :
        Nexus!Refused(2, offset, len)
          \/ LET g == Nexus!BusMap(c, n, dev, 2, offset, len)
             IN /\ g.tuple = "BM" /\ g.len > 0
                /\ g.offset >= 8 * dev
                /\ g.offset + g.len <= 8 * dev + 8
  BY ONLY <1>4, Zenon
<1>8. \A S : Nexus!Cardinality(S) = Cardinality(S)
  BY DEF Nexus!Cardinality, Cardinality
<1>. QED
  BY ONLY <1>2, <1>3, <1>5, <1>6, <1>7, <1>8, Zenon DEF Nexus!OwnChannel

(* The nexus gives each child its own channel: the registers and the       *)
(* interrupt that ata_setup_ioaddr and GHD are about to take, on a chip of *)
(* any kind and in either mode (pciide_initchild, pciide_bus_map,          *)
(* pciide_get_ispec). It holds of every nexus, at any time.                *)
THEOREM ChannelsAlwaysApart == Spec => []ChannelsApart
<1>1. ASSUME NEW c \in Nexus!Chips, NEW n \in Nexus!Nexuses(c)
      PROVE  NexusOf(c, n)
  <2>. DEFINE at == Nexus!Attached(c)
  <2>1. NexusOf(c, at)
    BY NexusAttached
  <2>. HIDE DEF at
  <2>2. \A dev \in {0, 1} : NexusOf(c, Nexus!InitChild(c, at, dev))
    BY <2>1, NexusComes
  <2>3. \A dev, d \in {0, 1} : NexusOf(c, Nexus!InitChild(c, Nexus!InitChild(c, at, dev), d))
    BY <2>2, NexusComes
  <2>4. \/ n = Nexus!InitChild(c, at, 0) \/ n = Nexus!InitChild(c, at, 1)
        \/ n = Nexus!InitChild(c, Nexus!InitChild(c, at, 0), 1)
        \/ n = Nexus!InitChild(c, Nexus!InitChild(c, at, 1), 0)
    BY DEF Nexus!Nexuses, at
  <2>. QED
    BY <2>2, <2>3, <2>4
<1>2. Nexus!AllOwnChannel
  BY <1>1, NexusOwn DEF Nexus!AllOwnChannel, Nexus!Channels, Nexus!NoVec
<1>3. ChannelsApart
  BY <1>2 DEF ChannelsApart
<1>. QED
  BY <1>3, PTL
=============================================================================
