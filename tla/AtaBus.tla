------------------------------- MODULE AtaBus -------------------------------
(***************************************************************************)
(* A controller of ata_common.c from ata_attach to ata_detach, and its     *)
(* child nodes from DDI_CTLOPS_INITCHILD to DDI_CTLOPS_UNINITCHILD.        *)
(*                                                                         *)
(* attach runs step by step, each helper may fail, and a failure unwinds   *)
(* through ata_detach. What the driver has allocated, mapped, registered   *)
(* or installed is the set held; the calls of the driver framework (which  *)
(* is external) come one at a time, and a controller is detached only when *)
(* none of its children is initialised.                                    *)
(***************************************************************************)
EXTENDS Naturals, FiniteSets

CONSTANTS
  Targets,   \* drives of a channel (ATA_MAXTARG)
  Nodes,     \* device nodes below the controller
  Target,    \* [Nodes -> Targets], the property "target"
  ConfClass, \* [Nodes -> Classes], the property "class_prop" in driver.conf
  CmdkNodes, \* the nodes of the driver sol11cmdk, the others are SCSI drivers
  NoNode

Classes == {"sol11dadk", "dadk", "scsi", "undefined"}

ASSUME BusAssumption ==
  /\ Targets \subseteq Nat /\ IsFiniteSet(Targets)
  /\ Target \in [Nodes -> Targets] /\ ConfClass \in [Nodes -> Classes]
  /\ IsFiniteSet(Nodes) /\ CmdkNodes \subseteq Nodes /\ NoNode \notin Nodes

VARIABLES
  step,     \* where ata_attach or ata_detach is; "attached", or "off"
  held,     \* resources of the controller
  flags,    \* ac_flags, ac_pciide and ac_pciide_bm
  drives,   \* the drive structures allocated
  drv,      \* CTL2DRV: the kind of each drive
  freed,    \* history: what was freed while it was not held
  node,     \* the nodes: "named" or initialised
  class,    \* their property class_prop
  sd_dev,   \* of each disk: the node that INITCHILD stored
  gtgts,    \* GHD target structures, by the node they were made for
  gdevs,    \* gd_ninstances of the GHD device of each target, 0: none
  c_data    \* of each disk: the target structure its entry points use

ctlVars  == <<step, held, flags, drives, drv, freed>>
nodeVars == <<node, class, sd_dev, gtgts, gdevs, c_data>>
busVars  == <<step, held, flags, drives, drv, freed,
              node, class, sd_dev, gtgts, gdevs, c_data>>

Steps == {"off", "probe", "ioaddr", "pciide", "mutex", "intr", "waitq", "timer", "softintr",
          "drives", "atapi", "disk", "minor", "attached",
          "detach", "unatapi", "unminor", "undrives", "unmap1", "unmap2", "unmapbm",
          "untimer", "unintr", "unmutex", "destroy"}
GhdMutexes == {"hba_mutex", "waitq_mutex", "doneq_mutex"}
Resources == {"soft_state", "arq_pkt", "cmd_regs", "ctl_regs", "bm_regs",
              "sg_handle", "sg_mem", "sg_bound", "intr", "timer", "softintr", "tran", "scsi_hba", "minor"}
             \cup GhdMutexes \cup {"reset_notify_mutex"}

BusInit ==
  /\ step = "off" /\ held = {} /\ flags = {} /\ drives = {}
  /\ drv = [t \in Targets |-> "none"] /\ freed = {}
  /\ node = [n \in Nodes |-> "named"] /\ class = ConfClass
  /\ sd_dev = [t \in Targets |-> NoNode]
  /\ gtgts = {} /\ gdevs = [t \in Targets |-> 0]
  /\ c_data = [t \in Targets |-> NoNode]

Take(r) == held' = held \cup r
Give(r) == held' = held \ r /\ freed' = freed \cup (r \ held)

-----------------------------------------------------------------------------
(* ata_probe and ata_attach                                                *)

(* ata_setup_ioaddr: what is mapped in the end, given which of its calls   *)
(* fails. Without the bus master registers it is not a PCI-IDE device.     *)
SetupIoaddr(bm, fail) ==
  CASE fail = "none"              -> {"cmd_regs", "ctl_regs"} \cup bm
    [] fail \in {"size", "cmd"}   -> {}    \* out1
    [] fail \in {"zero", "ctl"}   -> {}    \* out2, out1

(* ata_probe: the registers are mapped, both drives are asked for their    *)
(* type ...                                                                *)
ProbeCtl ==
  /\ step = "off" /\ step' = "probe"
  /\ \E bm \in SUBSET {"bm_regs"} : Take(SetupIoaddr(bm, "none"))
  /\ UNCHANGED <<flags, drives, drv, freed, nodeVars>>

(* ... and they are unmapped.                                              *)
ProbeDone ==
  /\ step = "probe" /\ step' = "off"
  /\ Give(held \cap {"cmd_regs", "ctl_regs", "bm_regs"})
  /\ UNCHANGED <<flags, drives, drv, nodeVars>>

(* ata_init_controller: the soft state is zeroed.                          *)
Attach ==
  /\ step = "off"
  /\ step' = "ioaddr"
  /\ Take({"soft_state", "arq_pkt"})
  /\ flags' = {} /\ drv' = [t \in Targets |-> "none"]
  /\ sd_dev' = [t \in Targets |-> NoNode]
  /\ c_data' = [t \in Targets |-> NoNode]
  /\ UNCHANGED <<drives, freed, node, class, gtgts, gdevs>>

MapRegisters ==
  /\ step = "ioaddr"
  /\ \E bm \in SUBSET {"bm_regs"}, fail \in {"none", "size", "cmd", "zero", "ctl"} :
       /\ Take(SetupIoaddr(bm, fail))
       /\ step' = IF fail = "none" THEN "pciide" ELSE "detach"
  /\ UNCHANGED <<flags, drives, drv, freed, nodeVars>>

(* ata_pciide_alloc: the scatter/gather list, given which call fails; what *)
(* came before is undone. ata_pciide_free goes by the handle.              *)
PciideAlloc(fail) ==
  CASE fail = "none"                    -> {"sg_handle", "sg_mem", "sg_bound"}
    [] fail \in {"handle", "mem", "bind"} -> {}
PciideFree ==
  IF "sg_handle" \in held THEN {"sg_bound", "sg_mem", "sg_handle"} ELSE {}

(* ata_init_pciide: blacklists, the class code and the simplex bit decide  *)
(* whether the list is allocated. Then the test for a port that is to be   *)
(* attached as an ISA device.                                              *)
InitPciide ==
  /\ step = "pciide"
  /\ \E on \in SUBSET {"PCIIDE"}, dma, isa \in BOOLEAN,
        fail \in {"none", "handle", "mem", "bind"} :
       /\ on # {} => "bm_regs" \in held
       /\ dma \/ isa => "PCIIDE" \in on
       /\ Take(IF dma THEN PciideAlloc(fail) ELSE {})
       /\ flags' = flags \cup on \cup (IF dma /\ fail = "none" THEN {"PCIIDE_BM"} ELSE {})
       /\ step' = IF isa THEN "detach" ELSE "mutex"
  /\ UNCHANGED <<drives, drv, freed, nodeVars>>

(* sol11ghd_register: a dummy handler, for the cookie of the HBA mutex ... *)
RegisterMutex ==
  /\ step = "mutex"
  /\ \/ Take({"hba_mutex"}) /\ step' = "intr"
     \/ UNCHANGED held /\ step' = "detach"
  /\ UNCHANGED <<flags, drives, drv, freed, nodeVars>>

(* ... the handler ...                                                     *)
RegisterIntr ==
  /\ step = "intr"
  /\ \/ Take({"intr"}) /\ freed' = freed /\ step' = "waitq"
     \/ Give({"hba_mutex"}) /\ step' = "detach"
  /\ UNCHANGED <<flags, drives, drv, nodeVars>>

(* ... the mutexes of the wait queue and of the reset notifications ...    *)
RegisterWaitq ==
  /\ step = "waitq" /\ step' = "timer"
  /\ Take({"waitq_mutex", "reset_notify_mutex"})
  /\ UNCHANGED <<flags, drives, drv, freed, nodeVars>>

(* ... the timer; from here on what undoes it leaves the latter mutex ...  *)
RegisterTimer ==
  /\ step = "timer"
  /\ \/ Take({"timer"}) /\ freed' = freed /\ step' = "softintr"
     \/ Give({"intr", "hba_mutex", "waitq_mutex"}) /\ step' = "detach"
  /\ UNCHANGED <<flags, drives, drv, nodeVars>>

(* ... and the done queue. ata_init_controller notes the success, and      *)
(* ata_attach takes the HBA mutex.                                         *)
RegisterDoneq ==
  /\ step = "softintr"
  /\ \/ /\ Take({"softintr", "doneq_mutex"}) /\ freed' = freed
        /\ flags' = flags \cup {"GHD_INIT"} /\ step' = "drives"
     \/ /\ Give({"timer", "intr", "hba_mutex", "waitq_mutex"})
        /\ flags' = flags /\ step' = "detach"
  /\ UNCHANGED <<drives, drv, nodeVars>>

(* ata_drive_type: a disk if it answers IDENTIFY DEVICE, else an ATAPI     *)
(* drive if it answers IDENTIFY PACKET DEVICE, else nothing.               *)
DriveType(busy, identify, identify_packet) ==
  IF busy THEN "none"
  ELSE IF identify THEN "disk" ELSE IF identify_packet THEN "atapi" ELSE "none"

(* ata_init_drive: a drive that cannot be set up is freed at once.         *)
InitDrive(t, kind, ok) ==
  /\ drives' = IF ok THEN drives \cup {t} ELSE drives
  /\ drv' = [drv EXCEPT ![t] = IF ok THEN kind ELSE "none"]
UninitDrives == {t \in Targets : drv[t] # "none"}

(* The loop of ata_attach over the targets.                                *)
InitDrives ==
  /\ step = "drives"
  /\ \E t \in Targets, busy, identify, identify_packet, ok \in BOOLEAN :
       /\ t \notin drives /\ \A u \in drives : u < t
       /\ LET kind == DriveType(busy, identify, identify_packet)
          IN InitDrive(t, kind, ok /\ kind # "none")
  /\ UNCHANGED <<step, held, flags, freed, nodeVars>>

Found(kind) == {t \in Targets : drv[t] = kind}

(* After the last target.                                                  *)
DrivesDone ==
  /\ step = "drives"
  /\ step' = IF Found("atapi") # {} THEN "atapi"
             ELSE IF Found("disk") # {} THEN "disk" ELSE "detach"
  /\ UNCHANGED <<held, flags, drives, drv, freed, nodeVars>>

(* atapi_detach goes by what atapi_attach has noted in the flags.          *)
AtapiHeld(f) == (IF "SCSI_HBA_ATTACH" \in f THEN {"scsi_hba"} ELSE {})
                \cup (IF "SCSI_HBA_TRAN_ALLOC" \in f THEN {"tran"} ELSE {})

AtapiAttachFlagsFirst ==  \* a slip: AC_ATAPI_INIT is set before the call
  /\ step = "atapi"
  /\ \/ /\ flags' = flags \cup {"SCSI_HBA_TRAN_ALLOC", "SCSI_HBA_ATTACH", "ATAPI_INIT"}
        /\ Take({"tran", "scsi_hba"})
        /\ step' = IF Found("disk") # {} THEN "disk" ELSE "minor"
     \/ \E noted \in SUBSET {"SCSI_HBA_TRAN_ALLOC"} :
          /\ flags' = flags \cup noted \cup {"ATAPI_INIT"}
          /\ UNCHANGED held /\ step' = "detach"
  /\ UNCHANGED <<drives, drv, freed, nodeVars>>
(* atapi_attach, which cleans up after itself but leaves the flags as they *)
(* are: AC_ATAPI_INIT is what tells ata_detach to call atapi_detach.       *)
AtapiAttach ==
  /\ step = "atapi"
  /\ \/ /\ flags' = flags \cup {"SCSI_HBA_TRAN_ALLOC", "SCSI_HBA_ATTACH", "ATAPI_INIT"}
        /\ Take({"tran", "scsi_hba"})
        /\ step' = IF Found("disk") # {} THEN "disk" ELSE "minor"
     \/ \E noted \in SUBSET {"SCSI_HBA_TRAN_ALLOC"} :
          /\ flags' = flags \cup noted
          /\ UNCHANGED held /\ step' = "detach"
  /\ UNCHANGED <<drives, drv, freed, nodeVars>>

(* ata_disk_attach.                                                        *)
DiskAttach ==
  /\ step = "disk"
  /\ flags' = flags \cup {"DISK_INIT"} /\ step' = "minor"
  /\ UNCHANGED <<held, drives, drv, freed, nodeVars>>

(* The minor node "control" of a PCI-IDE controller; the handler is        *)
(* enabled last.                                                           *)
AttachDone ==
  /\ step = "minor"
  /\ \/ /\ flags' = flags \cup {"ATTACHED"} /\ step' = "attached"
        /\ Take(IF "PCIIDE" \in flags THEN {"minor"} ELSE {})
     \/ /\ "PCIIDE" \in flags
        /\ step' = "detach" /\ UNCHANGED <<flags, held>>
  /\ UNCHANGED <<drives, drv, freed, nodeVars>>

-----------------------------------------------------------------------------
(* ata_detach                                                              *)

(* The framework detaches a controller.                                    *)
Detach ==
  /\ step = "attached" /\ \A n \in Nodes : node[n] = "named"
  /\ step' = "detach"
  /\ UNCHANGED <<held, flags, drives, drv, freed, nodeVars>>

(* ata_detach, with no mutex held: the handler is told to ignore           *)
(* interrupts, ...                                                         *)
DisableIntr ==
  /\ step = "detach" /\ step' = "unatapi"
  /\ flags' = flags \ {"ATTACHED"}
  /\ UNCHANGED <<held, drives, drv, freed, nodeVars>>

(* ... ata_disk_detach does nothing, atapi_detach what the flags say, ...  *)
AtapiDetach ==
  /\ step = "unatapi" /\ step' = "unminor"
  /\ Give(IF "ATAPI_INIT" \in flags THEN AtapiHeld(flags) ELSE {})
  /\ UNCHANGED <<flags, drives, drv, nodeVars>>

(* ... the minor node and the drives go, ...                               *)
RemoveMinor ==
  /\ step = "unminor" /\ step' = "undrives"
  /\ Give(held \cap {"minor"})
  /\ UNCHANGED <<flags, drives, drv, nodeVars>>

DestroyDrives ==
  /\ step = "undrives" /\ step' = "unmap1"
  /\ drives' = drives \ UninitDrives
  /\ UNCHANGED <<held, flags, drv, freed, nodeVars>>

(* ... and the registers are unmapped, if they are mapped.                 *)
Unmap ==
  /\ \/ step = "unmap1" /\ Give(held \cap {"cmd_regs"}) /\ step' = "unmap2"
     \/ step = "unmap2" /\ Give(held \cap {"ctl_regs"}) /\ step' = "unmapbm"
     \/ /\ step = "unmapbm" /\ Give(held \cap {"bm_regs"})
        /\ step' = IF "GHD_INIT" \in flags THEN "untimer" ELSE "destroy"
  /\ UNCHANGED <<flags, drives, drv, nodeVars>>

(* sol11ghd_timer_detach, ...                                              *)
TimerDetach ==
  /\ step = "untimer" /\ step' = "unintr" /\ Give({"timer"})
  /\ UNCHANGED <<flags, drives, drv, nodeVars>>

UnregisterMutexesFirst ==  \* a slip: the mutexes go before the handler
  /\ \/ step = "unintr" /\ Give(GhdMutexes) /\ step' = "unmutex"
     \/ step = "unmutex" /\ Give({"intr", "softintr"}) /\ step' = "destroy"
  /\ UNCHANGED <<flags, drives, drv, nodeVars>>
(* ... with which sol11ghd_unregister begins: it destroys three mutexes.   *)
Unregister ==
  /\ \/ step = "unintr" /\ Give({"intr", "softintr"}) /\ step' = "unmutex"
     \/ step = "unmutex" /\ Give(GhdMutexes) /\ step' = "destroy"
  /\ UNCHANGED <<flags, drives, drv, nodeVars>>

(* The rest of ata_destroy_controller.                                     *)
DestroyController ==
  /\ step = "destroy"
  /\ Give(PciideFree \cup {"arq_pkt", "soft_state"})
  /\ step' = "off"
  /\ UNCHANGED <<flags, drives, drv, nodeVars>>

-----------------------------------------------------------------------------
(* ata_bus_ctl                                                             *)

(* The interface a node asks for.                                          *)
Interface(n) ==
  CASE class[n] = "sol11dadk"           -> "disk"
    [] class[n] \in {"scsi", "undefined"} -> "atapi"
    [] OTHER                            -> "invalid"

(* A node of sol11cmdk takes the interface of its drive. The property that *)
(* is written then is hidden by one of driver.conf.                        *)
Morph(n) ==
  IF n \in CmdkNodes /\ class[n] = "undefined"
  THEN IF drv[Target[n]] = "disk" THEN "dadk" ELSE "scsi"
  ELSE class[n]

(* sol11ghd_target_init and sol11ghd_target_free: the structure of a       *)
(* target instance, and of the device, which goes with its last instance.  *)
TargetInit(n) ==
  /\ gtgts' = gtgts \cup {n}
  /\ gdevs' = [gdevs EXCEPT ![Target[n]] = @ + 1]
TargetFree(n) ==
  /\ gtgts' = gtgts \ {n}
  /\ gdevs' = [gdevs EXCEPT ![Target[n]] = @ - 1]

InitDiskTwice(n) ==  \* a slip: a duplicate node is not noticed
  /\ sd_dev' = [sd_dev EXCEPT ![Target[n]] = n]
  /\ c_data' = [c_data EXCEPT ![Target[n]] = n]
  /\ TargetInit(n)
  /\ node' = [node EXCEPT ![n] = "init"]
(* INITCHILD of sol11ata_disk_bus_ctl. Nothing resets sd_dev, and when     *)
(* ata_prop_create fails it is set all the same: the drive is then lost to *)
(* every node until the controller is attached again.                      *)
InitDisk(n) ==
  LET t == Target[n]
  IN IF sd_dev[t] # NoNode
     THEN UNCHANGED <<sd_dev, gtgts, gdevs, c_data, node>>
     ELSE /\ sd_dev' = [sd_dev EXCEPT ![t] = n]
          /\ \/ UNCHANGED <<gtgts, gdevs, c_data, node>>
             \/ /\ TargetInit(n)
                /\ c_data' = [c_data EXCEPT ![t] = n]
                /\ node' = [node EXCEPT ![n] = "init"]

(* INITCHILD of SCSA (external), which calls atapi_tran_tgt_init; when     *)
(* ata_prop_create fails there, nothing was made yet.                      *)
InitScsi(n) ==
  /\ \A m \in Nodes : node[m] # "named" => Target[m] # Target[n]
  /\ \/ TargetInit(n) /\ node' = [node EXCEPT ![n] = "init"]
     \/ UNCHANGED <<gtgts, gdevs, node>>
  /\ UNCHANGED <<sd_dev, c_data>>

(* DDI_CTLOPS_INITCHILD.                                                   *)
InitChild(n) ==
  LET kind == drv[Target[n]]
  IN /\ step = "attached" /\ node[n] = "named"
     /\ Interface(n) # "invalid" /\ kind # "none"
     /\ \/ Interface(n) = kind
        \/ n \in CmdkNodes /\ Interface(n) = "atapi"
     /\ class' = [class EXCEPT ![n] = Morph(n)]
     /\ IF kind = "disk" THEN InitDisk(n) ELSE InitScsi(n)
     /\ UNCHANGED ctlVars

(* UNINITCHILD of sol11ata_disk_bus_ctl, which finds the structure through *)
(* the disk, and of SCSA, with atapi_tran_tgt_free: through the node.      *)
UninitDisk(n) == TargetFree(c_data[Target[n]])
TranTgtFree(n) == TargetFree(n)

(* DDI_CTLOPS_UNINITCHILD.                                                 *)
UninitChild(n) ==
  /\ node[n] = "init" /\ Interface(n) # "invalid"
  /\ IF drv[Target[n]] = "disk" THEN UninitDisk(n) ELSE TranTgtFree(n)
  /\ node' = [node EXCEPT ![n] = "named"]
  /\ UNCHANGED <<ctlVars, class, sd_dev, c_data>>

BusStep ==
  \/ ProbeCtl \/ ProbeDone \/ Attach \/ MapRegisters \/ InitPciide
  \/ RegisterMutex \/ RegisterIntr \/ RegisterWaitq \/ RegisterTimer \/ RegisterDoneq
  \/ InitDrives \/ DrivesDone \/ AtapiAttach \/ DiskAttach \/ AttachDone
  \/ Detach \/ DisableIntr \/ AtapiDetach \/ RemoveMinor \/ DestroyDrives \/ Unmap
  \/ TimerDetach \/ Unregister

-----------------------------------------------------------------------------
BusTypeOK ==
  /\ step \in Steps /\ held \subseteq Resources
  /\ drives \subseteq Targets /\ gtgts \subseteq Nodes
  /\ gdevs \in [Targets -> 0 .. Cardinality(Nodes)]
  /\ drv \in [Targets -> {"none", "disk", "atapi"}]
  /\ node \in [Nodes -> {"named", "init"}] /\ class \in [Nodes -> Classes]
  /\ sd_dev \in [Targets -> Nodes \cup {NoNode}]
  /\ c_data \in [Targets -> Nodes \cup {NoNode}]

(* However ata_attach fails, and after every ata_detach, all that was      *)
(* taken has been given back, once (ata_attach, ata_detach, atapi_attach,  *)
(* ata_setup_ioaddr, sol11ghd_register), except that the mutex of the      *)
(* reset notifications stays, once it was initialised; and a device        *)
(* structure of the GHD is there as long as, and counts, its instances     *)
(* (sol11ghd_target_free).                                                 *)
GivenBack ==
  /\ freed = {}
  /\ step = "off" => held \subseteq {"reset_notify_mutex"} /\ drives = {} /\ gtgts = {}
  /\ \A t \in Targets : gdevs[t] = Cardinality({n \in gtgts : Target[n] = t})

(* What may call into the driver at any time finds what it uses: the       *)
(* handler its soft state and the HBA mutex, the timer and the done queue  *)
(* their mutexes, and a handler that is enabled the registers, whichever   *)
(* step ata_detach is at (ata_get_status, ata_detach, sol11ghd_register,   *)
(* sol11ghd_unregister). The wait queue mutex is left out of the first:    *)
(* sol11ghd_register initialises it after the handler is installed. A      *)
(* handler that has passed the test of AC_ATTACHED before ata_detach       *)
(* clears it stops at AS_IDLE, before any register: with no child          *)
(* initialised, no request is active.                                      *)
Grounded ==
  /\ "intr" \in held => {"soft_state", "hba_mutex"} \subseteq held
  /\ "timer" \in held => {"soft_state", "hba_mutex", "waitq_mutex"} \subseteq held
  /\ "softintr" \in held => {"soft_state", "doneq_mutex"} \subseteq held
  /\ "ATTACHED" \in flags =>
       {"cmd_regs", "ctl_regs", "intr", "timer", "softintr"} \subseteq held
=============================================================================
