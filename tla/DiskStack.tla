------------------------------ MODULE DiskStack ------------------------------
(***************************************************************************)
(* A controller of ata_common.c, its nodes, and the units of cmdk.c bound  *)
(* to those of them that are for disks. The driver framework (external)    *)
(* probes a unit once its node is initialised, attaches it when the probe  *)
(* succeeded, and takes the node back when the unit is gone.               *)
(***************************************************************************)
EXTENDS AtaBus, Cmdk

CONSTANT Unit   \* [CmdkNodes -> Units], the instance numbers

ASSUME StackAssumption ==
  /\ Unit \in [CmdkNodes -> Units]
  /\ \A n, m \in CmdkNodes : Unit[n] = Unit[m] => n = m

stackVars == <<busVars, cmdkVars>>

Nexus == INSTANCE PciIde

Init == BusInit /\ CmdkInit

(* dadk_probe accepts a direct access disk. The inquiry data of an ATAPI   *)
(* drive is not set up for it, and the probe fails.                        *)
DadkProbe(t) == drv[t] = "disk"
ProbeNode(n) ==
  /\ node[n] = "init"
  /\ Probe(Unit[n], DadkProbe(Target[n]))
  /\ UNCHANGED busVars

Uninit(n) ==
  /\ n \in CmdkNodes => soft[Unit[n]] = "none"
  /\ UninitChild(n)
  /\ UNCHANGED cmdkVars

(* While there is no controller the disks may be exchanged.                *)
BusOff ==
  /\ DestroyController
  /\ \E id \in {NoDevid, "written"} : diskid' = [u \in Units |-> id]
  /\ altsver' = [u \in Units |-> NoTable]
  /\ least' = [u \in Units |-> NoTable] /\ spoiled' = {}
  /\ UNCHANGED <<unitVars, specVars, call, walk>>

Next ==
  \/ BusStep /\ UNCHANGED cmdkVars
  \/ BusOff
  \/ \E n \in Nodes : InitChild(n) /\ UNCHANGED cmdkVars
  \/ \E n \in Nodes : Uninit(n)
  \/ \E n \in CmdkNodes : ProbeNode(n)
  \/ \E u \in Units : UnitStep(u) /\ UNCHANGED busVars
  \/ \E c \in Callers : CallStep(c) /\ UNCHANGED busVars

Spec == Init /\ [][Next]_stackVars

-----------------------------------------------------------------------------
TypeOK == BusTypeOK /\ CmdkTypeOK

(* Whatever fails, a controller and a unit that are gone leave nothing     *)
(* behind but what GivenBack and UnitsGivenBack name, and nothing is given *)
(* back twice (ata_attach, ata_detach and cmdkprobe, cmdkattach,           *)
(* cmdkdetach); and types are correct.                                     *)
NothingLeft == TypeOK /\ GivenBack /\ UnitsGivenBack

(* The registers and the interrupt that ata_setup_ioaddr and GHD are about *)
(* to take from the nexus are those of the controller's own channel, on a  *)
(* chip of any kind, in either mode, whichever child was initialised first *)
(* (pciide_initchild, pciide_bus_map, pciide_get_ispec).                   *)
ChannelsApart == step = "ioaddr" => Nexus!AllOwnChannel

(* The disk of an attached unit can be called: its controller is attached, *)
(* and the target structure that ata_disk_transport finds for the disk is  *)
(* the one made for this unit's node and has not been freed.               *)
StackStands ==
  \A n \in CmdkNodes :
    soft[Unit[n]] = "attached" =>
      /\ step = "attached" /\ drv[Target[n]] = "disk"
      /\ c_data[Target[n]] = n /\ n \in gtgts

(* A devid on a disk is never replaced, over any number of attaches and    *)
(* DKIOCSVTOCs of its unit, unless an I/O error or two setups at a time    *)
(* came in (cmdk_devid_setup).                                             *)
DevidKept ==
  [][step' # "off" =>
       \A u \in Units : diskid[u] # NoDevid /\ diskid'[u] # diskid[u]
                          => u \in spoiled']_stackVars
=============================================================================
