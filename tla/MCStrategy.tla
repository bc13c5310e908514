------------------------------ MODULE MCStrategy ------------------------------
(***************************************************************************)
(* The two objects of strategy.c that keep transfers in order, a flow      *)
(* control (over qfifo) and the queue qsort, in one instance: a behaviour  *)
(* is one of either object, and the other rests.                           *)
(*                                                                         *)
(* qsort gets five transfers to three blocks, two of them shared, so that  *)
(* equal blocks meet at the head, inside and at the end of a list.         *)
(***************************************************************************)
EXTENDS FlowControl, Qsort

VARIABLE object

MCRequests == 1..5
MCDBLK == <<0, 1, 1, 2, 2>>

StrategyInit == object \in {"flow", "qsort"} /\ Init /\ QsortInit

StrategyNext ==
  \/ object = "flow" /\ Next /\ UNCHANGED <<object, qsortVars>>
  \/ object = "qsort" /\ QsortNext /\ UNCHANGED <<object, vars>>

StrategySpec ==
  /\ StrategyInit
  /\ [][StrategyNext]_<<object, vars, qsortVars>>
  /\ Fairness
=============================================================================
