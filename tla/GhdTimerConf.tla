---------------------------- MODULE GhdTimerConf ----------------------------
(***************************************************************************)
(* The timer configuration of an HBA driver (tmr_t, ghd_timer.c): one      *)
(* periodic callout, ghd_timeout, for all the adapter instances on its     *)
(* list, started by the attach that finds no reference and stopped by the  *)
(* detach that drops the last. The list is under t_mutex, the references   *)
(* under tglobal_mutex, t_timeout_id under neither. t_mutex is held for    *)
(* the whole of a section, so it needs no variable.                        *)
(*                                                                         *)
(* timeout() and untimeout() are the kernel's: untimeout cancels a callout *)
(* that is pending and waits for one that is running.                      *)
(***************************************************************************)
EXTENDS Integers, FiniteSets

CONSTANTS
  Instances,   \* the adapters (ccc_t)
  NoId,        \* t_timeout_id before the first timeout()
  Callouts,    \* bound: the callout ids that can be in use at a time
  Concurrent   \* are instances attached and detached at the same time?

VARIABLES
  pc,         \* where each instance's attach or detach is
  list,       \* the instances reachable from t_ccc_listp
  refs,       \* t_refs
  id,         \* t_timeout_id
  callout,    \* each callout: "free", "pending" or "running"
  tglobal     \* the instance whose detach holds tglobal_mutex in untimeout

vars == <<pc, list, refs, id, callout, tglobal>>

Init ==
  /\ pc = [h \in Instances |-> "detached"]
  /\ list = {} /\ refs = 0 /\ id = NoId
  /\ callout = [i \in Callouts |-> "free"]
  /\ tglobal = {}

Goto(h, l) == pc' = [pc EXCEPT ![h] = l]
Stable(h) == pc[h] \in {"attached", "detached"}
Alone(h) == Concurrent \/ \A g \in Instances \ {h} : Stable(g)

(* timeout(): a new callout, whose id replaces t_timeout_id.               *)
Arm(others) ==
  \E i \in Callouts \ {id} :
    /\ callout[i] = "free"
    /\ callout' = [others EXCEPT ![i] = "pending"]
    /\ id' = i

-----------------------------------------------------------------------------
(* sol11ghd_timer_attach puts the instance on the list, then enables.      *)
AttachList(h) ==
  /\ pc[h] = "detached" /\ Alone(h)
  /\ list' = list \cup {h}
  /\ Goto(h, "enable")
  /\ UNCHANGED <<refs, id, callout, tglobal>>

Enable(h) ==
  /\ pc[h] = "enable" /\ tglobal = {}
  /\ refs' = refs + 1
  /\ IF refs = 0 THEN Arm(callout) ELSE UNCHANGED <<id, callout>>
  /\ Goto(h, "attached")
  /\ UNCHANGED <<list, tglobal>>

(* sol11ghd_timer_detach takes the instance off the list, then disables.   *)
DetachList(h) ==
  /\ pc[h] = "attached" /\ Alone(h)
  /\ list' = list \ {h}
  /\ Goto(h, "disable")
  /\ UNCHANGED <<refs, id, callout, tglobal>>

(* ghd_timeout_disable: the last reference takes the callout with it. The  *)
(* id is read here, and untimeout may have to wait.                        *)
Disable(h) ==
  /\ pc[h] = "disable" /\ tglobal = {}
  /\ refs' = refs - 1
  /\ IF refs > 1
     THEN Goto(h, "detached") /\ UNCHANGED <<callout, tglobal>>
     ELSE IF callout[id] = "running"
     THEN Goto(h, "untimeout") /\ tglobal' = {<<h, id>>} /\ UNCHANGED callout
     ELSE /\ Goto(h, "detached")
          /\ callout' = [callout EXCEPT ![id] = "free"]
          /\ UNCHANGED tglobal
  /\ UNCHANGED <<list, id>>

UntimeoutReturns(h) ==
  /\ pc[h] = "untimeout"
  /\ \E i \in Callouts : tglobal = {<<h, i>>} /\ callout[i] # "running"
  /\ tglobal' = {}
  /\ Goto(h, "detached")
  /\ UNCHANGED <<list, refs, id, callout>>

-----------------------------------------------------------------------------
(* The clock reaches a callout: ghd_timeout is called, and waits for       *)
(* t_mutex ...                                                             *)
Fire(i) ==
  /\ callout[i] = "pending"
  /\ callout' = [callout EXCEPT ![i] = "running"]
  /\ UNCHANGED <<pc, list, refs, id, tglobal>>

(* ... and once it has it re-arms itself, unless the list is empty.        *)
GhdTimeout(i) ==
  /\ callout[i] = "running"
  /\ IF list = {}
     THEN callout' = [callout EXCEPT ![i] = "free"] /\ UNCHANGED id
     ELSE Arm([callout EXCEPT ![i] = "free"])
  /\ UNCHANGED <<pc, list, refs, tglobal>>

Next ==
  \/ \E h \in Instances : AttachList(h) \/ Enable(h) \/ DetachList(h)
                            \/ Disable(h) \/ UntimeoutReturns(h)
  \/ \E i \in Callouts : Fire(i) \/ GhdTimeout(i)

Spec == Init /\ [][Next]_vars

-----------------------------------------------------------------------------
Armed == {i \in Callouts : callout[i] # "free"}
Quiet == \A h \in Instances : Stable(h)

(* "Only start a single timeout callback for each HBA driver regardless of *)
(* the number of boards it supports" (ghd_timer.c:700): when no instance   *)
(* is being attached or detached there is one callout if any instance is   *)
(* attached, and none left to fire once the last is gone.                  *)
SingleCallback ==
  Quiet => Cardinality(Armed) = IF list = {} THEN 0 ELSE 1
=============================================================================
