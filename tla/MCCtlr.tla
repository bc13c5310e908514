-------------------------------- MODULE MCCtlr --------------------------------
(***************************************************************************)
(* Instances of module AtaCtlr for TLC: a CD drive with two requests, p1   *)
(* which asks for sense data after an error and p2 which does not, and     *)
(* where there is a p3, a disk.                                            *)
(***************************************************************************)
EXTENDS AtaCtlr, TLC

CONSTANTS p1, p2, p3

MCKind   == [p \in Pkts |-> IF p = p3 THEN "disk" ELSE "packet"]
MCFunc   == [p \in Pkts |-> IF p = p2 THEN "func" ELSE "packet"]
MCTwo    == [p \in Pkts |-> IF p = p3 THEN 1 ELSE 0]    \* CD drive 0, disk 1
MCAlone  == [p \in Pkts |-> 1]                         \* drive 1 alone
MCPio    == [p \in Pkts |-> FALSE]
MCDma    == [p \in Pkts |-> p # p2]
MCInOut  == [p \in Pkts |-> IF p = p1 THEN "in" ELSE "out"]
MCInNone == [p \in Pkts |-> IF p = p2 THEN "none" ELSE "in"]
===============================================================================
