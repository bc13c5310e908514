----------------------------- MODULE GhdQueues -----------------------------
(***************************************************************************)
(* The inductive invariant of module Ghd: which program point a thread can *)
(* be at while it owns the HBA mutex, where each request is, and what its  *)
(* cmd_state, its cmd_waitq_level and its timer say there.                 *)
(***************************************************************************)
EXTENDS Ghd

-----------------------------------------------------------------------------
(* Program points.                                                         *)

PollOps == AllOps \ {"transport"}
WaitqProc == {"wq_loop", "wq_start", "wq_fini", "wq_reject"}

(* In the loop of ghd_poll, with what it calls: the wait queue processing  *)
(* and the timers.                                                         *)
Polling(t) ==
  \/ pc[t] \in {"po_stat", "po_timer", "po_drain"}
  \/ pc[t] \in WaitqProc /\ frame.ret = "po_timer"
  \/ pc[t] = "ns" /\ frame.nsret \in {"po_stat", "po_drain"}

(* From the end of a poll, the timer softintr's last timer or a            *)
(* transport's mutex_tryenter to the release of the HBA mutex.             *)
Leaving(t) ==
  \/ pc[t] \in {"pm_trig", "ex_hba"}
  \/ pc[t] \in WaitqProc /\ frame.ret = "ex_hba"

(* In an interrupt or in the timer softintr.                               *)
Serving(t) ==
  \/ pc[t] \in {"in_stat", "in_ret", "ts_poll"}
  \/ pc[t] \in WaitqProc /\ frame.ret = "in_ret"
  \/ pc[t] = "ns" /\ frame.nsret = "ts_poll"

(* What a thread is doing there. A poll that has not seen what it waits    *)
(* for has set others' requests aside, in poll mode; a polled transport    *)
(* ends only when it has its request; everybody else holds no request.     *)
AtPoint(t) ==
  /\ pc[t] \in {"idle", "dq_get", "dq_call", "ts_enter"} => op[t] = "none"
  /\ pc[t] = "enter" => op[t] \in PollOps
  /\ pc[t] = "tr_enq" => op[t] \in {"transport"} \cup Polled
  /\ pc[t] = "tr_enq" /\ op[t] \in Polled => frame = NoFrame /\ pollmode
  /\ pc[t] = "tr_try" => op[t] = "transport"
  /\ pc[t] = "finish" => op[t] \in Polled
  /\ Polling(t) => op[t] \in PollOps /\ ~frame.got /\ pollmode
  /\ pc[t] = "po_put" => /\ op[t] \in PollOps /\ pollmode
                         /\ op[t] \in Polled => frame.got
  /\ pc[t] = "pm_exit" => op[t] \in PollOps /\ pollmode
  /\ pc[t] = "pm_trig" => op[t] \in PollOps
  /\ pc[t] = "pm_exit" \/ Leaving(t) =>
       frame.hold = <<>> /\ (op[t] \in Polled => frame.got)
  /\ Serving(t) => op[t] = "none" /\ ~frame.got /\ frame.hold = <<>>

(* The HBA mutex is held only at its labels, and its owner's local         *)
(* variables start afresh.                                                 *)
OwnerAtWork ==
  /\ hba = NoThread => frame = NoFrame
  /\ hba # NoThread => \/ pc[hba] \in HbaLabels
                       \/ pc[hba] = "tr_enq" /\ op[hba] \in Polled

Control == OwnerAtWork /\ \A t \in Threads : AtPoint(t)

-----------------------------------------------------------------------------
(* Where requests are.                                                     *)

NoRepeat(s) == \A i, j \in DOMAIN s : s[i] = s[j] => i = j

(* A request waits on its device's queue or on the adapter's, once, and    *)
(* its cmd_waitq_level says on which.                                      *)
Waits(q, c) == c \in Elems(q.devq[Dev[c]]) \cup Elems(q.hbaq)
WaitqInv(q) ==
  /\ NoRepeat(q.hbaq)
  /\ \A c \in Elems(q.hbaq) : q.level[c] = 2
  /\ \A d \in Devs : /\ NoRepeat(q.devq[d])
                     /\ \A c \in Elems(q.devq[d]) : Dev[c] = d /\ q.level[c] = 1

Orderly == WaitqInv(wq) /\ NoRepeat(doneq) /\ NoRepeat(frame.hold)

IsWaiting(c) == Waits(wq, c)
IsPopped(c) == c \in Popped
IsActive(c) == active = c
OnDoneq(c) == c \in Elems(doneq)
OnHold(c) == c \in Elems(frame.hold)
InHand(c) == \E t \in Threads : HasInHand(t, c)

(* A request is in one place, if GHD has it, and else in none.             *)
OnePlace(c) ==
  /\ IsWaiting(c) => ~(\/ IsPopped(c) \/ IsActive(c) \/ OnDoneq(c) \/ OnHold(c)
                       \/ InHand(c))
  /\ IsPopped(c) => ~(IsActive(c) \/ OnDoneq(c) \/ OnHold(c) \/ InHand(c))
  /\ IsActive(c) => ~(OnDoneq(c) \/ OnHold(c) \/ InHand(c))
  /\ OnDoneq(c) => ~(OnHold(c) \/ InHand(c))
  /\ OnHold(c) => ~InHand(c)
  /\ c \in owned <=> \/ IsWaiting(c) \/ IsPopped(c) \/ IsActive(c)
                     \/ OnDoneq(c) \/ OnHold(c) \/ InHand(c)

Started == {"ACTIVE", "ABORTING_CMD", "ABORTING_DEV", "RESETTING_DEV",
            "RESETTING_BUS", "HUNG"}

(* cmd_state and, once the request is popped, cmd_waitq_level follow it.   *)
StateTells(c) ==
  /\ IsWaiting(c) => state[c] = "WAITQ"
  /\ IsPopped(c) => state[c] = "WAITQ" /\ wq.level[c] = 3
  /\ IsActive(c) => state[c] \in Started /\ wq.level[c] = 3
  /\ ~(IsWaiting(c) \/ IsPopped(c) \/ IsActive(c)) => state[c] \in {"IDLE", "DONEQ"}

(* sol11ghd_timer_newstate is at work on the request.                      *)
Handled(c) == hba # NoThread /\ pc[hba] = "ns" /\ frame.run = c

TimerTells(c) ==
  timer[c] # "off" <=> (IsWaiting(c) \/ IsPopped(c) \/ IsActive(c)) /\ ~Handled(c)

Tracked(c) == OnePlace(c) /\ StateTells(c) /\ TimerTells(c)

OneHand ==
  \A c \in Cmds, t, u \in Threads :
    HasInHand(t, c) /\ HasInHand(u, c) => t = u

(* The request a step of sol11ghd_timer_newstate is for: one that waits if *)
(* it is to be finished early, else the active one, which has not climbed  *)
(* past the step's own state.                                              *)
EarlyActions == {"EARLY_TIMEOUT", "EARLY_ABORT"}
Stepping(t) ==
  pc[t] = "ns" /\ frame.run # NoCmd =>
    IF frame.act \in EarlyActions
    THEN IsWaiting(frame.run)
    ELSE /\ IsActive(frame.run)
         /\ Rank(state[frame.run]) <= Rank(NextState[frame.act])

AllTracked == Orderly /\ OneHand /\ \A c \in Cmds : Tracked(c)
QueueInv == IInv /\ Control /\ AllTracked /\ \A t \in Threads : Stepping(t)

=============================================================================
