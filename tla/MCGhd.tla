------------------------------- MODULE MCGhd -------------------------------
(***************************************************************************)
(* Instances of module Ghd for TLC.                                        *)
(***************************************************************************)
EXTENDS GhdQueues, TLC

CONSTANTS c1, c2, t1, t2, d1

\* all requests are for one device
MCDev == [c \in Cmds |-> d1]

\* one request at a time on a device, or two
MCOne == [d \in Devs |-> 1]
MCTwo == [d \in Devs |-> 2]

\* requests of one device, and clients, are interchangeable
MCSymmetry == Permutations({c1, c2}) \cup Permutations({t1, t2})
MCSymmetryCmds == Permutations({c1, c2})
=============================================================================
