-------------------------------- MODULE PciIde --------------------------------
(***************************************************************************)
(* pci-ide.c, the nexus of a chip with two channels, as functions: which   *)
(* registers and which interrupt its child nodes 0 and 1 get.              *)
(*                                                                         *)
(* A chip c has c.ide, whether its class code says IDE, c.native, the      *)
(* channels the interface byte calls native, c.pre26, whether boot code    *)
(* before 2.6 has ordered its register tuples, and c.bm, the bytes of the  *)
(* bus master tuple. The nexus n has n.native, the channels the property   *)
(* class-code calls native, n.compat, the children with the property       *)
(* compatibility-mode, and n.vec, the vector of each initialised child.    *)
(* Writing a property succeeds (a failure is only warned of).              *)
(***************************************************************************)
EXTENDS Integers, Sequences, FiniteSets

Channels == {0, 1}
NoVec == 0     \* not initialised, or no property interrupts

Chips == [ide : BOOLEAN, native : SUBSET Channels, pre26 : BOOLEAN,
          bm : {0, 8, 12, 16}, conf : [Channels -> {NoVec, 11}]]

(* The channels that are in native mode; what does not call itself IDE is. *)
Native(c) == IF c.ide THEN c.native ELSE Channels

(* The nexus before its children are initialised.                          *)
Attached(c) == [native |-> c.native, compat |-> {},
                vec |-> [dev \in Channels |-> NoVec]]

-----------------------------------------------------------------------------
(* pciide_compat_setup                                                     *)
CompatSetup(c, n, dev) ==
  IF c.ide
  THEN [n EXCEPT !.compat = IF dev \in n.native THEN @ ELSE @ \cup {dev}]
  ELSE [n EXCEPT !.native = Channels]

NativeMode(n, dev) == dev \notin n.compat   \* PCIIDE_NATIVE_MODE

(* pciide_initchild                                                        *)
InitChild(c, n, dev) ==
  LET m   == CompatSetup(c, n, dev)
      vec == IF NativeMode(m, dev) THEN 1
             ELSE IF c.conf[dev] # NoVec THEN c.conf[dev] ELSE 14 + dev
  IN [m EXCEPT !.vec[dev] = vec]

(* pciide_map_rnumber: the tuples of releases before 2.6 begin with those  *)
(* of the bus master and of the channels in another order for each mode.   *)
TransformSwapped ==  \* a slip: [C][N] and [N][C] are exchanged
  [m \in SUBSET Channels |->
     CASE m = {}  -> << 1,  1,  1,  1, -4>>
       [] m = {0} -> << 3,  3, -2, -2, -2>>
       [] m = {1} -> << 0,  0,  1,  1, -2>>
       [] m = {0, 1} -> <<0, 0, 0, 0, 0>>]
Transform ==
  [m \in SUBSET Channels |->
     CASE m = {}  -> << 1,  1,  1,  1, -4>>
       [] m = {1} -> << 3,  3, -2, -2, -2>>
       [] m = {0} -> << 0,  0,  1,  1, -2>>
       [] m = {0, 1} -> <<0, 0, 0, 0, 0>>]
Pre26RnumberMap(n, rnumber) == rnumber + Transform[n.native][rnumber + 1]

(* The tuple of the nexus for tuple 0, 1 or 2 of a child; one is added to  *)
(* skip that of the configuration space.                                   *)
Rnumber(c, n, dev, rnumber) ==
  LET own == IF rnumber = 2 THEN 4 ELSE rnumber + 2 * dev
  IN (IF c.pre26 THEN Pre26RnumberMap(n, own) ELSE own) + 1

(* The tuples in the order in which boot code puts them (external).        *)
Tuples(c) ==
  LET P == <<"P0", "P1">>  S == <<"S0", "S1">>  B == <<"BM">>
  IN <<"config">> \o
     CASE ~c.pre26 \/ Native(c) = Channels -> P \o S \o B
       [] c.pre26 /\ Native(c) = {}        -> B \o P \o S
       [] c.pre26 /\ Native(c) = {1}       -> S \o B \o P
       [] c.pre26 /\ Native(c) = {0}       -> P \o B \o S
Tuple(c, rnumber) == Tuples(c)[rnumber + 1]
Size(c, tuple) ==
  CASE tuple \in {"P0", "S0"} -> 8
    [] tuple \in {"P1", "S1"} -> 4
    [] tuple = "BM"           -> c.bm
    [] tuple = "config"       -> 0

(* DDI_CTLOPS_REGSIZE of pciide_ddi_ctlops                                 *)
RegSize(c, n, dev, rnumber) ==
  LET size == Size(c, Tuple(c, Rnumber(c, n, dev, rnumber)))
      left == IF dev = 0 THEN size ELSE IF size < 8 THEN 0 ELSE size - 8
  IN IF rnumber # 2 THEN size ELSE IF left > 8 THEN 8 ELSE left

(* pciide_bus_map: what is asked of the parent, and whether it is. Length  *)
(* 0 is all of a tuple.                                                    *)
Refused(rnumber, offset, len) == rnumber = 2 /\ offset + len > 8
BusMap(c, n, dev, rnumber, offset, len) ==
  LET half == rnumber = 2
  IN [tuple  |-> Tuple(c, Rnumber(c, n, dev, rnumber)),
      offset |-> offset + IF half THEN 8 * dev ELSE 0,
      len    |-> IF half /\ len = 0 THEN 8 - offset ELSE len]

(* pciide_get_ispec: whose interrupt specification it is, and its vector   *)
Ispec(n, dev) ==
  IF NativeMode(n, dev) THEN [of |-> "nexus", vec |-> "pci"]
                        ELSE [of |-> dev, vec |-> n.vec[dev]]

(* pciide_intr_ops, DDI_INTROP_ENABLE and DISABLE: who is asked, for whom  *)
Enable(n, dev) == IF NativeMode(n, dev) THEN [by |-> "parent", of |-> "nexus"]
                                        ELSE [by |-> "root", of |-> dev]

-----------------------------------------------------------------------------
(* The nexus after some of its children were initialised, in any order.    *)
Nexuses(c) ==
  LET one(dev) == InitChild(c, Attached(c), dev)
  IN {one(0), one(1), InitChild(c, one(0), 1), InitChild(c, one(1), 0)}

Command(dev) == IF dev = 0 THEN "P0" ELSE "S0"
Control(dev) == IF dev = 0 THEN "P1" ELSE "S1"
Line(c, dev) ==
  IF dev \in Native(c) THEN "pci"
  ELSE IF c.conf[dev] # NoVec THEN c.conf[dev] ELSE 14 + dev

(* What the nexus n gives to child dev is its channel's: the command and   *)
(* control registers, bytes of its own half of the bus master registers,   *)
(* of which as many are promised as there are, and its interrupt, which is *)
(* enabled where the handler was added.                                    *)
OwnChannel(c, n, dev) ==
  /\ Tuple(c, Rnumber(c, n, dev, 0)) = Command(dev)
  /\ Tuple(c, Rnumber(c, n, dev, 1)) = Control(dev)
  /\ RegSize(c, n, dev, 2) = Cardinality({b \in 8 * dev .. 8 * dev + 7 : b < c.bm})
  /\ \A offset \in 0 .. 7, len \in 0 .. 9 :
       Refused(2, offset, len)
         \/ LET got == BusMap(c, n, dev, 2, offset, len)
            IN /\ got.tuple = "BM" /\ got.len > 0
               /\ got.offset >= 8 * dev
               /\ got.offset + got.len <= 8 * dev + 8
  /\ Ispec(n, dev).vec = Line(c, dev)
  /\ Ispec(n, dev).of = Enable(n, dev).of

AllOwnChannel ==
  \A c \in Chips : \A n \in Nexuses(c) : \A dev \in Channels :
    n.vec[dev] # NoVec => OwnChannel(c, n, dev)
=============================================================================
