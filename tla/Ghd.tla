-------------------------------- MODULE Ghd --------------------------------
(***************************************************************************)
(* One host bus adapter under the GHD framework (src/dktp/hba/ghd/), as    *)
(* the ATA driver uses it: target-driver threads that transport, abort and *)
(* reset, the hardware interrupt handler, the software interrupts that     *)
(* deliver completions and that step timed-out requests, and the device.   *)
(*                                                                         *)
(* A thread runs from label to label (pc); a label stands before a mutex   *)
(* that may be taken, or before a call whose outcome the device decides.   *)
(* ccc_hba_mutex and ccc_waitq_mutex are variables naming their owner.     *)
(* ccc_doneq_mutex and ccc_activel_mutex are leaves (nothing is taken      *)
(* inside them), so a section they guard is part of one action; so is a    *)
(* section of the waitq mutex that starts nothing.                         *)
(*                                                                         *)
(* ccc_waitq_held and ccc_waitq_frozen are set only by ghd_queue_hold and  *)
(* ghd_freeze_waitq, and doneq entries with GCMDFLG_RESET_NOTIFY are made  *)
(* only by ghd_trigger_reset_notify; no driver of the repository calls     *)
(* them, so the tests on them are constant here.                           *)
(***************************************************************************)
EXTENDS GhdWaitq

CONSTANTS
  Clients,     \* target-driver threads
  Intr,        \* the hardware interrupt thread (sol11ghd_intr)
  DoneqSoft,   \* the completion software interrupt (ghd_doneq_process)
  TimerSoft,   \* the timeout software interrupt (ghd_timeout_softintr)
  NoCmd,       \* a NULL gcmd_t pointer
  NoThread,    \* the owner of a free mutex
  Ops,         \* the operations the clients use in this instance
  MaxPhases,   \* bound: interrupts a device raises for one request
  ResetFails   \* may a bus reset fail in this instance?

Threads == Clients \cup {Intr, DoneqSoft, TimerSoft}

ASSUME GhdAssumption ==
  /\ NoCmd \notin Cmds
  /\ NoThread \notin Threads
  /\ Intr \notin Clients /\ DoneqSoft \notin Clients /\ TimerSoft \notin Clients
  /\ Intr # DoneqSoft /\ Intr # TimerSoft /\ DoneqSoft # TimerSoft
  /\ MaxPhases \in Nat
  /\ ResetFails \in BOOLEAN

VARIABLES
  pc,       \* where each thread is
  op, cmd,  \* the operation of each thread, and its request
  hba,      \* owner of ccc_hba_mutex
  waitq,    \* owner of ccc_waitq_mutex
  frame,    \* the local variables of the thread that owns the HBA mutex
  wq,       \* the wait queues (module GhdWaitq), under ccc_waitq_mutex
  state,    \* cmd_state of each request
  timer,    \* ccc_activel, the timer list: where each request stands on it
  timeoutPending, timerSoft,  \* ccc_timeout_pending, its softintr triggered
  doneq,    \* ccc_doneq
  doneqSoft,\* the doneq softintr is triggered
  pollmode, \* ccc_hba_pollmode
  active,   \* the HBA driver's active request (ac_active_pktp)
  irq,      \* the device asserts its interrupt
  phases,   \* interrupts the active request may still raise
  owned,    \* history: the requests handed to GHD and not yet given back
  refused   \* history: hba_start refused the head of the adapter's queue,
            \* and no request was queued, started or finished since

calls  == <<op, cmd>>
locks  == <<hba, waitq>>
timers == <<timer, timeoutPending, timerSoft>>
doneqs == <<doneq, doneqSoft, pollmode>>
device == <<active, irq, phases>>
ghosts == <<owned, refused>>
vars   == <<pc, calls, locks, frame, wq, state, timers, doneqs, device, ghosts>>

-----------------------------------------------------------------------------

(* cmd_state, in the order of the enumeration.                             *)
CmdStates == <<"IDLE", "WAITQ", "ACTIVE", "DONEQ", "ABORTING_CMD",
               "ABORTING_DEV", "RESETTING_DEV", "RESETTING_BUS", "HUNG">>
Rank(s) == CHOOSE i \in DOMAIN CmdStates : CmdStates[i] = s

Actions == {"EARLY_TIMEOUT", "EARLY_ABORT", "ABORT_CMD", "ABORT_DEV",
            "RESET_TARGET", "RESET_BUS", "INCOMPLETE"}

(* The ladder of sol11ghd_timer_newstate: the state an action puts its     *)
(* request in, and the action tried when the HBA driver cannot do this one.*)
NextState ==
  [EARLY_TIMEOUT |-> "DONEQ", EARLY_ABORT |-> "DONEQ",
   ABORT_CMD |-> "ABORTING_CMD", ABORT_DEV |-> "ABORTING_DEV",
   RESET_TARGET |-> "RESETTING_DEV", RESET_BUS |-> "RESETTING_BUS",
   INCOMPLETE |-> "HUNG"]
NoBusReset ==   \* a slip: the ladder misses its last rung
  [EARLY_TIMEOUT |-> "ABORT_CMD", EARLY_ABORT |-> "ABORT_CMD",
   ABORT_CMD |-> "ABORT_DEV", ABORT_DEV |-> "RESET_TARGET",
   RESET_TARGET |-> "INCOMPLETE", RESET_BUS |-> "INCOMPLETE",
   INCOMPLETE |-> "INCOMPLETE"]
NextAction ==
  [EARLY_TIMEOUT |-> "ABORT_CMD", EARLY_ABORT |-> "ABORT_CMD",
   ABORT_CMD |-> "ABORT_DEV", ABORT_DEV |-> "RESET_TARGET",
   RESET_TARGET |-> "RESET_BUS", RESET_BUS |-> "INCOMPLETE",
   INCOMPLETE |-> "INCOMPLETE"]

(* sol11ghd_timer_poll: the action for a request that expires in a state.  *)
(* IDLE and DONEQ are "not supposed to happen" and are not in the domain.  *)
NoEarlyTimeout ==   \* a slip: a waiting request is treated as a started one
  [WAITQ |-> "ABORT_CMD", ACTIVE |-> "ABORT_CMD",
   ABORTING_CMD |-> "ABORT_DEV", ABORTING_DEV |-> "RESET_TARGET",
   RESETTING_DEV |-> "RESET_BUS", RESETTING_BUS |-> "INCOMPLETE",
   HUNG |-> "INCOMPLETE"]
StartsOver ==   \* a slip: a hung request starts the ladder again
  [WAITQ |-> "EARLY_TIMEOUT", ACTIVE |-> "ABORT_CMD",
   ABORTING_CMD |-> "ABORT_DEV", ABORTING_DEV |-> "RESET_TARGET",
   RESETTING_DEV |-> "RESET_BUS", RESETTING_BUS |-> "INCOMPLETE",
   HUNG |-> "ABORT_CMD"]
TimeoutAction ==
  [WAITQ |-> "EARLY_TIMEOUT", ACTIVE |-> "ABORT_CMD",
   ABORTING_CMD |-> "ABORT_DEV", ABORTING_DEV |-> "RESET_TARGET",
   RESETTING_DEV |-> "RESET_BUS", RESETTING_BUS |-> "INCOMPLETE",
   HUNG |-> "INCOMPLETE"]

(* What the reset operations ask for first.                                *)
FirstAction ==
  [lun |-> "ABORT_DEV", target |-> "RESET_TARGET", bus |-> "RESET_BUS"]

(* The operations; "dump" and "internal" are polled transports, with and   *)
(* without a timeout (dadk_dump, ata_queue_cmd).                           *)
Polled == {"dump", "internal"}
AllOps == {"transport", "abort"} \cup Polled \cup DOMAIN FirstAction

(* A request is not on the timer list, on it with no timeout (cmd_timeout  *)
(* is 0), on it with its time running, or on it with its time up.          *)
TimerStates == {"off", "untimed", "running", "expired"}

Labels ==
  {"idle", "enter", "tr_enq", "tr_try",
   "wq_loop", "wq_start", "wq_fini", "wq_reject", "ex_hba", "ex_waitq",
   "in_stat", "in_ret", "po_stat", "po_timer", "po_drain", "po_put",
   "pm_exit", "pm_trig", "finish", "dq_get", "dq_call",
   "ts_enter", "ts_poll", "ns"}

(* ret: where the wait queue processing returns to; run: its gcmdp, and    *)
(* that of sol11ghd_timer_newstate; act, nsret: newstate's action and      *)
(* where it returns to; more: sol11ghd_intr's more; got, hold: ghd_poll's  *)
(* got_it and gcmd_hold_queue.                                             *)
Frames ==
  [ret : {"ex_hba", "in_ret", "po_timer"}, run : Cmds \cup {NoCmd},
   act : Actions, nsret : {"ts_poll", "po_stat", "po_drain"},
   more : BOOLEAN, got : BOOLEAN, hold : Seq(Cmds)]
NoFrame ==
  [ret |-> "ex_hba", run |-> NoCmd, act |-> "INCOMPLETE", nsret |-> "ts_poll",
   more |-> FALSE, got |-> FALSE, hold |-> <<>>]

Goto(t, l) == pc' = [pc EXCEPT ![t] = l]

(* A call returns to its caller.                                           *)
Return(t) ==
  /\ Goto(t, "idle")
  /\ op' = [op EXCEPT ![t] = "none"]
  /\ cmd' = [cmd EXCEPT ![t] = NoCmd]

Init ==
  /\ pc = [t \in Threads |-> "idle"]
  /\ op = [t \in Threads |-> "none"]
  /\ cmd = [t \in Threads |-> NoCmd]
  /\ hba = NoThread /\ waitq = NoThread /\ frame = NoFrame
  /\ wq = EmptyWaitq
  /\ state = [c \in Cmds |-> "IDLE"]
  /\ timer = [c \in Cmds |-> "off"]
  /\ timeoutPending = FALSE /\ timerSoft = FALSE
  /\ doneq = <<>> /\ doneqSoft = FALSE /\ pollmode = FALSE
  /\ active = NoCmd /\ irq = FALSE /\ phases = 0
  /\ owned = {} /\ refused = FALSE

-----------------------------------------------------------------------------
(* A slip: GHD_COMPLETE leaves the timer running.                          *)
CompleteKeepsTimer(c) ==
  /\ waitq = NoThread
  /\ wq' = WaitqDelete(wq, c)
  /\ state' = [state EXCEPT ![c] = "DONEQ"]
  /\ doneq' = Append(doneq, c)
  /\ doneqSoft' = (doneqSoft \/ ~pollmode)
  /\ refused' = FALSE
  /\ UNCHANGED <<timer, timeoutPending, timerSoft, pollmode, owned>>

(* GHD_COMPLETE: leave the wait queues, stop the timer, join the doneq.    *)
(* It takes and drops the waitq mutex, so it waits until that is free.     *)
Complete(c) ==
  /\ waitq = NoThread
  /\ wq' = WaitqDelete(wq, c)
  /\ state' = [state EXCEPT ![c] = "DONEQ"]
  /\ timer' = [timer EXCEPT ![c] = "off"]
  /\ doneq' = Append(doneq, c)
  /\ doneqSoft' = (doneqSoft \/ ~pollmode)
  /\ refused' = FALSE
  /\ UNCHANGED <<timeoutPending, timerSoft, pollmode, owned>>

(* The HBA driver has finished its active request.                         *)
CompleteActive ==
  /\ Complete(active)
  /\ active' = NoCmd
  /\ irq' = FALSE
  /\ UNCHANGED phases

-----------------------------------------------------------------------------
(* A client calls into GHD: sol11ghd_transport hands over a request ...    *)
Transport(t, c) ==
  /\ pc[t] = "idle" /\ t \in Clients
  /\ c \notin owned
  /\ owned' = owned \cup {c}
  /\ cmd' = [cmd EXCEPT ![t] = c]
  /\ \/ /\ "transport" \in Ops
        /\ op' = [op EXCEPT ![t] = "transport"]
        /\ Goto(t, "tr_enq")
     \/ \E o \in Ops \cap Polled :
          /\ op' = [op EXCEPT ![t] = o]
          /\ Goto(t, "enter")
  /\ UNCHANGED <<locks, frame, wq, state, timers, doneqs, device, refused>>

(* ... sol11ghd_tran_abort names one its owner has not got back ...        *)
Abort(t, c) ==
  /\ pc[t] = "idle" /\ t \in Clients /\ "abort" \in Ops
  /\ c \in owned
  /\ op' = [op EXCEPT ![t] = "abort"]
  /\ cmd' = [cmd EXCEPT ![t] = c]
  /\ Goto(t, "enter")
  /\ UNCHANGED <<locks, frame, wq, state, timers, doneqs, device, ghosts>>

(* ... and sol11ghd_tran_abort_lun, sol11ghd_tran_reset_target and         *)
(* sol11ghd_tran_reset_bus name a device, here that of c.                  *)
Reset(t, c) ==
  /\ pc[t] = "idle" /\ t \in Clients
  /\ \E o \in Ops \cap DOMAIN FirstAction : op' = [op EXCEPT ![t] = o]
  /\ cmd' = [cmd EXCEPT ![t] = c]
  /\ Goto(t, "enter")
  /\ UNCHANGED <<locks, frame, wq, state, timers, doneqs, device, ghosts>>

(* A polling operation takes the HBA mutex and enters poll mode.           *)
Enter(t) ==
  /\ pc[t] = "enter" /\ hba = NoThread
  /\ hba' = t
  /\ pollmode' = TRUE
  /\ UNCHANGED <<calls, waitq, wq, state, timeoutPending, timerSoft, doneq,
                 doneqSoft, device, ghosts>>

EnterPolled(t) ==
  /\ Enter(t) /\ op[t] \in Polled
  /\ Goto(t, "tr_enq")
  /\ UNCHANGED <<frame, timer>>

(* The abort action depends on how far the request has come; past that the *)
(* request is finished, or already being aborted, and the call fails.      *)
EnterAbort(t) ==
  /\ Enter(t) /\ op[t] = "abort"
  /\ IF state[cmd[t]] \in {"WAITQ", "ACTIVE"}
     THEN /\ frame' = [frame EXCEPT !.run = cmd[t], !.nsret = "po_stat",
                         !.act = IF state[cmd[t]] = "WAITQ" THEN "EARLY_ABORT"
                                                            ELSE "ABORT_CMD"]
          /\ timer' = [timer EXCEPT ![cmd[t]] = "off"]
          /\ Goto(t, "ns")
     ELSE /\ Goto(t, "pm_exit")
          /\ UNCHANGED <<frame, timer>>

EnterReset(t) ==
  /\ Enter(t) /\ op[t] \in DOMAIN FirstAction
  /\ frame' = [frame EXCEPT !.act = FirstAction[op[t]], !.nsret = "po_stat"]
  /\ Goto(t, "ns")
  /\ UNCHANGED timer

(* Join the device's wait queue and start the request's timer; a polled    *)
(* caller then drops the waitq mutex and polls.                            *)
TransportEnqueue(t) ==
  /\ pc[t] = "tr_enq" /\ waitq = NoThread
  /\ wq' = Enqueue(wq, cmd[t])
  /\ state' = [state EXCEPT ![cmd[t]] = "WAITQ"]
  /\ timer' = [timer EXCEPT ![cmd[t]] =
                 IF op[t] = "internal" THEN "untimed" ELSE "running"]
  /\ refused' = FALSE
  /\ IF op[t] \in Polled
     THEN Goto(t, "po_stat") /\ UNCHANGED waitq
     ELSE Goto(t, "tr_try") /\ waitq' = t
  /\ UNCHANGED <<calls, hba, frame, timeoutPending, timerSoft, doneqs, device,
                 owned>>

(* mutex_tryenter: the request is left to whoever holds the HBA mutex ...  *)
TransportTryFails(t) ==
  /\ pc[t] = "tr_try" /\ hba # NoThread
  /\ waitq' = NoThread
  /\ Return(t)
  /\ UNCHANGED <<hba, frame, wq, state, timers, doneqs, device, ghosts>>

(* ... or this thread starts what it can.                                  *)
TransportTryOk(t) ==
  /\ pc[t] = "tr_try" /\ hba = NoThread
  /\ hba' = t
  /\ frame' = [frame EXCEPT !.ret = "ex_hba"]
  /\ Goto(t, "wq_loop")
  /\ UNCHANGED <<calls, waitq, wq, state, timers, doneqs, device, ghosts>>

-----------------------------------------------------------------------------
(* A slip: the waitq mutex is always dropped on the way out.               *)
WaitqReturnUnlocked(t) ==
  /\ waitq' = NoThread
  /\ Goto(t, frame.ret)

(* sol11ghd_waitq_process_and_mutex_hold, entered with the waitq mutex or  *)
(* about to take it. ghd_poll drops that mutex at once, the other callers  *)
(* keep it.                                                                *)
WaitqReturn(t) ==
  /\ waitq' = IF frame.ret = "po_timer" THEN NoThread ELSE t
  /\ Goto(t, frame.ret)

WaitqDone(t) ==
  /\ pc[t] = "wq_loop" /\ waitq \in {t, NoThread}
  /\ ~CanStart(wq)
  /\ WaitqReturn(t)
  /\ UNCHANGED <<calls, hba, frame, wq, state, timers, doneqs, device, ghosts>>

WaitqPop(t) ==
  /\ pc[t] = "wq_loop" /\ waitq \in {t, NoThread}
  /\ CanStart(wq)
  /\ frame' = [frame EXCEPT !.run = Head(wq.hbaq)]
  /\ wq' = PopHba(wq)
  /\ waitq' = NoThread
  /\ Goto(t, "wq_start")
  /\ UNCHANGED <<calls, hba, state, timers, doneqs, device, ghosts>>

(* ata_hba_start: the request becomes the active one. Its start function   *)
(* may already have brought it to its end (ATA_FSM_RC_FINI).               *)
HbaAccepts(t) ==
  /\ pc[t] = "wq_start" /\ active = NoCmd
  /\ active' = frame.run
  /\ phases' = MaxPhases
  /\ state' = [state EXCEPT ![frame.run] = "ACTIVE"]
  /\ frame' = [frame EXCEPT !.more = TRUE]
  /\ refused' = FALSE
  /\ \E l \in {"wq_loop", "wq_fini"} : Goto(t, l)
  /\ UNCHANGED <<calls, locks, wq, timers, doneqs, irq, owned>>

HbaFinishesAtOnce(t) ==
  /\ pc[t] = "wq_fini"
  /\ CompleteActive
  /\ Goto(t, "wq_loop")
  /\ UNCHANGED <<calls, locks, frame>>

(* Another request is active, or the device is not ready for a command.    *)
HbaRefuses(t) ==
  /\ pc[t] = "wq_start"
  /\ state' = [state EXCEPT ![frame.run] = "WAITQ"]
  /\ Goto(t, "wq_reject")
  /\ UNCHANGED <<calls, locks, frame, wq, timers, doneqs, device, ghosts>>

WaitqRequeue(t) ==
  /\ pc[t] = "wq_reject" /\ waitq = NoThread
  /\ wq' = Requeue(wq, frame.run)
  /\ refused' = TRUE
  /\ WaitqReturn(t)
  /\ UNCHANGED <<calls, hba, frame, state, timers, doneqs, device, owned>>

(* sol11ghd_waitq_process_and_mutex_exit: the HBA mutex is released first. *)
ReleaseHba(t) ==
  /\ pc[t] = "ex_hba"
  /\ hba' = NoThread
  /\ frame' = NoFrame
  /\ Goto(t, "ex_waitq")
  /\ UNCHANGED <<calls, waitq, wq, state, timers, doneqs, device, ghosts>>

ReleaseWaitq(t) ==
  /\ pc[t] = "ex_waitq"
  /\ waitq' = NoThread
  /\ IF op[t] \in Polled THEN Goto(t, "finish") /\ UNCHANGED calls ELSE Return(t)
  /\ UNCHANGED <<hba, frame, wq, state, timers, doneqs, device, ghosts>>

-----------------------------------------------------------------------------
(* sol11ghd_intr. The line may be shared, so it also runs with no          *)
(* interrupt of this device.                                               *)
IntrEnter ==
  /\ pc[Intr] = "idle" /\ hba = NoThread
  /\ hba' = Intr
  /\ Goto(Intr, "in_stat")
  /\ UNCHANGED <<calls, waitq, frame, wq, state, timers, doneqs, device, ghosts>>

(* One status has been processed: sol11ghd_intr asks for the next one,     *)
(* ghd_poll looks at the wait queue.                                       *)
StatusProcessed(t) ==
  \/ /\ pc[t] = "in_stat"
     /\ frame' = [frame EXCEPT !.more = TRUE]
     /\ UNCHANGED pc
  \/ /\ pc[t] = "po_stat"
     /\ frame' = [frame EXCEPT !.ret = "po_timer"]
     /\ Goto(t, "wq_loop")

(* ata_process_intr: the interrupt ends a phase of the active request ...  *)
IntrPhase(t) ==
  /\ irq
  /\ StatusProcessed(t)
  /\ irq' = FALSE
  /\ UNCHANGED <<calls, locks, wq, state, timers, doneqs, active, phases, ghosts>>

(* ... or the request itself.                                              *)
IntrComplete(t) ==
  /\ irq
  /\ StatusProcessed(t)
  /\ CompleteActive
  /\ UNCHANGED <<calls, locks>>

(* No (more) status: try to start the next request.                        *)
IntrNone(t) ==
  /\ pc[t] \in {"in_stat", "po_stat"} /\ ~irq
  /\ frame' = [frame EXCEPT !.ret = IF pc[t] = "in_stat" THEN "in_ret"
                                                         ELSE "po_timer"]
  /\ Goto(t, "wq_loop")
  /\ UNCHANGED <<calls, locks, wq, state, timers, doneqs, device, ghosts>>

(* Go round again if anything happened, else release the mutexes.          *)
IntrReturn ==
  /\ pc[Intr] = "in_ret"
  /\ IF frame.more
     THEN /\ Goto(Intr, "in_stat")
          /\ frame' = [frame EXCEPT !.more = FALSE]
          /\ waitq' = NoThread
          /\ UNCHANGED hba
     ELSE /\ Goto(Intr, "ex_waitq")
          /\ frame' = NoFrame
          /\ hba' = NoThread
          /\ UNCHANGED waitq
  /\ UNCHANGED <<calls, wq, state, timers, doneqs, device, ghosts>>

-----------------------------------------------------------------------------
(* ghd_poll, after the timers have been looked at: empty the doneq,        *)
(* keeping the others' requests aside in order, and see whether what this  *)
(* poll waits for has happened.                                            *)
PollDrain(t) ==
  LET mine  == op[t] \in Polled \cup {"abort"} /\ cmd[t] \in Elems(doneq)
      quiet == \/ /\ op[t] \in {"lun", "target"}
                  /\ wq.devActive[Dev[cmd[t]]] = 0
               \/ op[t] = "bus" /\ wq.hbaActive = 0
  IN  /\ pc[t] = "po_drain"
      /\ doneq' = <<>>
      /\ frame' = [frame EXCEPT
                     !.hold = @ \o IF mine THEN Unlink(doneq, cmd[t]) ELSE doneq,
                     !.got = mine \/ quiet]
      /\ state' = IF mine THEN [state EXCEPT ![cmd[t]] = "IDLE"] ELSE state
      /\ Goto(t, IF mine \/ quiet THEN "po_put" ELSE "po_stat")
      /\ UNCHANGED <<calls, locks, wq, timers, doneqSoft, pollmode, device,
                     ghosts>>

(* All polls but that of a polled transport give up after some ticks.      *)
PollGiveUp(t) ==
  /\ pc[t] = "po_stat" /\ op[t] \notin Polled
  /\ Goto(t, "po_put")
  /\ UNCHANGED <<calls, locks, frame, wq, state, timers, doneqs, device, ghosts>>

(* A slip: the poll's own request overtakes those it set aside.            *)
PutBackOwnFirst(hold, own) == own \o hold
PutBack(hold, own) == hold \o own

(* Put the others' requests back; an aborted request is delivered by the   *)
(* doneq like any other.                                                   *)
PollPut(t) ==
  LET aborted == op[t] = "abort" /\ frame.got
      back    == PutBack(frame.hold, IF aborted THEN <<cmd[t]>> ELSE <<>>)
  IN  /\ pc[t] = "po_put"
      /\ doneq' = doneq \o back
      /\ doneqSoft' = (doneqSoft \/ (~pollmode /\ back # <<>>))
      /\ state' = IF aborted THEN [state EXCEPT ![cmd[t]] = "DONEQ"] ELSE state
      /\ frame' = [frame EXCEPT !.hold = <<>>]
      /\ Goto(t, "pm_exit")
      /\ UNCHANGED <<calls, locks, wq, timers, pollmode, device, ghosts>>

(* ghd_doneq_pollmode_exit: the doneq is looked at after its mutex is      *)
(* dropped; then the wait queue is processed and both mutexes released.    *)
PollmodeExit(t) ==
  /\ pc[t] = "pm_exit"
  /\ pollmode' = FALSE
  /\ Goto(t, "pm_trig")
  /\ UNCHANGED <<calls, locks, frame, wq, state, timers, doneq, doneqSoft,
                 device, ghosts>>

PollmodeNoTrigger(t) ==   \* a slip: what the poll put back is forgotten
  /\ pc[t] = "pm_trig"
  /\ frame' = [frame EXCEPT !.ret = "ex_hba"]
  /\ Goto(t, "wq_loop")
  /\ UNCHANGED <<calls, locks, wq, state, timers, doneqs, device, ghosts>>

PollmodeTrigger(t) ==
  /\ pc[t] = "pm_trig"
  /\ doneqSoft' = (doneqSoft \/ doneq # <<>>)
  /\ frame' = [frame EXCEPT !.ret = "ex_hba"]
  /\ Goto(t, "wq_loop")
  /\ UNCHANGED <<calls, locks, wq, state, timers, doneq, pollmode, device,
                 ghosts>>

(* A polled transport gives its request back itself (no callback).         *)
Finish(t) ==
  /\ pc[t] = "finish"
  /\ owned' = owned \ {cmd[t]}
  /\ Return(t)
  /\ UNCHANGED <<locks, frame, wq, state, timers, doneqs, device, refused>>

-----------------------------------------------------------------------------
(* ghd_doneq_process: nothing is delivered while a poll is in progress.    *)
DoneqBegin ==
  /\ pc[DoneqSoft] = "idle" /\ doneqSoft
  /\ doneqSoft' = FALSE
  /\ Goto(DoneqSoft, "dq_get")
  /\ UNCHANGED <<calls, locks, frame, wq, state, timers, doneq, pollmode,
                 device, ghosts>>

DoneqGet ==
  /\ pc[DoneqSoft] = "dq_get"
  /\ IF pollmode \/ doneq = <<>>
     THEN Goto(DoneqSoft, "idle") /\ UNCHANGED <<doneq, cmd>>
     ELSE /\ doneq' = Tail(doneq)
          /\ cmd' = [cmd EXCEPT ![DoneqSoft] = Head(doneq)]
          /\ Goto(DoneqSoft, "dq_call")
  /\ UNCHANGED <<op, locks, frame, wq, state, timers, doneqSoft, pollmode,
                 device, ghosts>>

(* The completion callback gives the request back; its owner may reuse it. *)
DoneqCall ==
  /\ pc[DoneqSoft] = "dq_call"
  /\ state' = [state EXCEPT ![cmd[DoneqSoft]] = "IDLE"]
  /\ owned' = owned \ {cmd[DoneqSoft]}
  /\ cmd' = [cmd EXCEPT ![DoneqSoft] = NoCmd]
  /\ Goto(DoneqSoft, "dq_get")
  /\ UNCHANGED <<op, locks, frame, wq, timers, doneqs, device, refused>>

-----------------------------------------------------------------------------
(* Time passes, and ghd_timeout finds an expired request at its next tick. *)
Expire(c) ==
  /\ timer[c] = "running"
  /\ timer' = [timer EXCEPT ![c] = "expired"]
  /\ UNCHANGED <<pc, calls, locks, frame, wq, state, timeoutPending, timerSoft,
                 doneqs, device, ghosts>>

GhdTimeout ==
  /\ \E c \in Cmds : timer[c] = "expired"
  /\ timeoutPending' = TRUE
  /\ timerSoft' = TRUE
  /\ UNCHANGED <<pc, calls, locks, frame, wq, state, timer, doneqs, device,
                 ghosts>>

(* ghd_timeout_softintr.                                                   *)
TimerBegin ==
  /\ pc[TimerSoft] = "idle" /\ timerSoft
  /\ timerSoft' = FALSE
  /\ IF timeoutPending THEN Goto(TimerSoft, "ts_enter") ELSE UNCHANGED pc
  /\ UNCHANGED <<calls, locks, frame, wq, state, timer, timeoutPending, doneqs,
                 device, ghosts>>

TimerEnter ==
  /\ pc[TimerSoft] = "ts_enter" /\ hba = NoThread
  /\ hba' = TimerSoft
  /\ timeoutPending' = FALSE
  /\ Goto(TimerSoft, "ts_poll")
  /\ UNCHANGED <<calls, waitq, frame, wq, state, timer, timerSoft, doneqs,
                 device, ghosts>>

(* sol11ghd_timer_poll: all expired requests (softintr) or one (ghd_poll). *)
TimerNone(t) ==
  /\ \A c \in Cmds : timer[c] # "expired"
  /\ \/ /\ pc[t] = "ts_poll"
        /\ frame' = [frame EXCEPT !.ret = "ex_hba"]
        /\ Goto(t, "wq_loop")
     \/ pc[t] = "po_timer" /\ Goto(t, "po_drain") /\ UNCHANGED frame
  /\ UNCHANGED <<calls, locks, wq, state, timers, doneqs, device, ghosts>>

TimerGet(t) ==
  /\ pc[t] \in {"ts_poll", "po_timer"}
  /\ \E c \in Cmds :
       /\ timer[c] = "expired" /\ state[c] \in DOMAIN TimeoutAction
       /\ timer' = [timer EXCEPT ![c] = "off"]
       /\ frame' = [frame EXCEPT !.run = c, !.act = TimeoutAction[state[c]],
                      !.nsret = IF pc[t] = "ts_poll" THEN "ts_poll" ELSE "po_drain"]
  /\ Goto(t, "ns")
  /\ UNCHANGED <<calls, locks, wq, state, timeoutPending, timerSoft, doneqs,
                 device, ghosts>>

-----------------------------------------------------------------------------
(* sol11ghd_timer_newstate, one turn of its loop, with what                *)
(* ata_timeout_func does of the action. A request that has not started is  *)
(* completed on the spot.                                                  *)
NewstateEarly(t) ==
  /\ pc[t] = "ns" /\ frame.act \in {"EARLY_TIMEOUT", "EARLY_ABORT"}
  /\ Complete(frame.run)
  /\ Goto(t, frame.nsret)
  /\ UNCHANGED <<calls, locks, frame, device>>

(* The ATA driver can do none of these: the timer just started is stopped  *)
(* again and the next action tried. A bus reset asked for by the target    *)
(* driver (no request) is ignored.                                         *)
NewstateCannot(t) ==
  /\ pc[t] = "ns"
  /\ frame.act \in {"ABORT_CMD", "ABORT_DEV", "RESET_TARGET", "RESET_BUS"}
  /\ frame.act = "RESET_BUS" => frame.run = NoCmd \/ ResetFails
  /\ frame' = [frame EXCEPT !.act = NextAction[@]]
  /\ state' = IF frame.run = NoCmd THEN state
              ELSE [state EXCEPT ![frame.run] = NextState[frame.act]]
  /\ UNCHANGED <<pc, calls, locks, wq, timers, doneqs, device, ghosts>>

(* The states of the requests on the timer list after a bus reset: raised, *)
(* never lowered, and those still waiting are left alone.                  *)
RaiseStates(s, tm, l) ==
  [c \in Cmds |-> IF /\ tm[c] # "off"
                     /\ Rank("WAITQ") < Rank(s[c]) /\ Rank(s[c]) < Rank(l)
                  THEN l ELSE s[c]]

(* ata_reset_bus succeeds: the active request is completed. (It is the     *)
(* request the reset is for: ResetHitsItsRequest below.)                   *)
NewstateReset(t) ==
  LET s == [state EXCEPT ![frame.run] = NextState[frame.act], ![active] = "DONEQ"]
  IN  /\ pc[t] = "ns" /\ frame.act = "RESET_BUS"
      /\ frame.run # NoCmd /\ active # NoCmd
      /\ waitq = NoThread
      /\ wq' = WaitqDelete(wq, active)
      /\ timer' = [timer EXCEPT ![frame.run] = "running", ![active] = "off"]
      /\ state' = RaiseStates(s, timer', NextState[frame.act])
      /\ doneq' = Append(doneq, active)
      /\ doneqSoft' = (doneqSoft \/ ~pollmode)
      /\ active' = NoCmd /\ irq' = FALSE
      /\ refused' = FALSE
      /\ Goto(t, frame.nsret)
      /\ UNCHANGED <<calls, locks, frame, timeoutPending, timerSoft, pollmode,
                     phases, owned>>

(* When all else fails: leave the request hung, its timer running.         *)
NewstateHung(t) ==
  /\ pc[t] = "ns" /\ frame.act = "INCOMPLETE"
  /\ IF frame.run = NoCmd
     THEN UNCHANGED <<state, timer>>
     ELSE /\ state' = [state EXCEPT ![frame.run] = NextState[frame.act]]
          /\ timer' = [timer EXCEPT ![frame.run] = "running"]
  /\ Goto(t, frame.nsret)
  /\ UNCHANGED <<calls, locks, frame, wq, timeoutPending, timerSoft, doneqs,
                 device, ghosts>>

-----------------------------------------------------------------------------
(* The device raises an interrupt for the active request.                  *)
DeviceInterrupt ==
  /\ active # NoCmd /\ ~irq /\ phases > 0
  /\ irq' = TRUE
  /\ phases' = phases - 1
  /\ UNCHANGED <<pc, calls, locks, frame, wq, state, timers, doneqs, active,
                 ghosts>>

(* The steps of a thread inside GHD.                                       *)
Step(t) ==
  \/ EnterPolled(t) \/ EnterAbort(t) \/ EnterReset(t)
  \/ TransportEnqueue(t) \/ TransportTryFails(t) \/ TransportTryOk(t)
  \/ WaitqDone(t) \/ WaitqPop(t)
  \/ HbaAccepts(t) \/ HbaFinishesAtOnce(t) \/ HbaRefuses(t) \/ WaitqRequeue(t)
  \/ ReleaseHba(t) \/ ReleaseWaitq(t)
  \/ IntrPhase(t) \/ IntrComplete(t) \/ IntrNone(t)
  \/ PollDrain(t) \/ PollGiveUp(t) \/ PollPut(t)
  \/ PollmodeExit(t) \/ PollmodeTrigger(t) \/ Finish(t)
  \/ TimerNone(t) \/ TimerGet(t)
  \/ NewstateEarly(t) \/ NewstateCannot(t) \/ NewstateReset(t) \/ NewstateHung(t)

SoftStep ==
  IntrReturn \/ DoneqBegin \/ DoneqGet \/ DoneqCall \/ TimerBegin \/ TimerEnter

Call(t) == \E c \in Cmds : Transport(t, c) \/ Abort(t, c) \/ Reset(t, c)

Next ==
  \/ \E t \in Threads : Call(t) \/ Step(t)
  \/ SoftStep \/ IntrEnter \/ GhdTimeout \/ DeviceInterrupt
  \/ \E c \in Cmds : Expire(c)

Spec == Init /\ [][Next]_vars

-----------------------------------------------------------------------------
(* Properties.                                                             *)

TypeOK ==
  /\ pc \in [Threads -> Labels]
  /\ op \in [Threads -> {"none"} \cup AllOps]
  /\ cmd \in [Threads -> Cmds \cup {NoCmd}]
  /\ hba \in Threads \cup {NoThread}
  /\ waitq \in Threads \cup {NoThread}
  /\ frame \in Frames
  /\ wq \in WaitqStates
  /\ state \in [Cmds -> Elems(CmdStates)]
  /\ timer \in [Cmds -> TimerStates]
  /\ timeoutPending \in BOOLEAN /\ timerSoft \in BOOLEAN
  /\ doneq \in Seq(Cmds) /\ doneqSoft \in BOOLEAN /\ pollmode \in BOOLEAN
  /\ active \in Cmds \cup {NoCmd} /\ irq \in BOOLEAN
  /\ phases \in 0 .. MaxPhases
  /\ owned \subseteq Cmds /\ refused \in BOOLEAN

(* Where requests are. In flight: released by the adapter's throttle, that *)
(* is active or between the wait queue and hba_start's answer.             *)
Popped == IF hba # NoThread /\ pc[hba] \in {"wq_start", "wq_reject"}
          THEN {frame.run} ELSE {}
InFlight == Popped \cup ({active} \ {NoCmd})
Waiting == Elems(wq.hbaq) \cup UNION {Elems(wq.devq[d]) : d \in Devs}
Pending == Waiting \cup InFlight

(* A call that has the request in its hands: a transport that has not      *)
(* queued it yet, a callback, a poll that has taken it off the doneq.      *)
HasInHand(t, c) ==
  /\ cmd[t] = c
  /\ \/ pc[t] \in {"enter", "tr_enq"} /\ op[t] \in {"transport"} \cup Polled
     \/ pc[t] = "dq_call"
     \/ op[t] = "abort" /\ pc[t] = "po_put" /\ frame.got
     \/ op[t] \in Polled /\ \/ hba = t /\ frame.got
                            \/ pc[t] \in {"ex_waitq", "finish"}

Count(s, c) == Cardinality({i \in DOMAIN s : s[i] = c})
Places(c) ==
  Count(wq.hbaq, c) + Count(wq.devq[Dev[c]], c) + Count(doneq, c)
    + Count(frame.hold, c) + Cardinality({x \in InFlight : x = c})
    + Cardinality({t \in Threads : HasInHand(t, c)})

(* A request handed to GHD is in exactly one place until it is given back, *)
(* whatever completes, aborts, times out or drains the doneq meanwhile     *)
(* (GHD_COMPLETE, ghd_poll's hold queue, ghd_doneq_process): it is neither *)
(* lost nor completed twice.                                               *)
ExactlyOnce == \A c \in Cmds : Places(c) = IF c \in owned THEN 1 ELSE 0

(* The throttles count what they released: Q_nactive of the adapter is the *)
(* number of requests in flight, Q_nactive of a device that and its        *)
(* requests on the adapter's queue. (sol11ghd_waitq_delete trusts          *)
(* cmd_waitq_level, which a completion leaves stale.)                      *)
CountersExact ==
  /\ wq.hbaActive = Cardinality(InFlight)
  /\ \A d \in Devs : wq.devActive[d] =
       Cardinality({c \in Elems(wq.hbaq) \cup InFlight : Dev[c] = d})
  /\ \A c \in Pending :
       wq.level[c] = IF c \in InFlight THEN 3
                     ELSE IF c \in Elems(wq.hbaq) THEN 2 ELSE 1

(* Once both mutexes are free no request that could start is left on the   *)
(* adapter's queue, unless the HBA driver has refused it: a transport      *)
(* whose mutex_tryenter fails relies on the holder of the HBA mutex seeing *)
(* its request ("to prevent requests queued by sol11ghd_transport() from   *)
(* getting hung up in the wait queue", ghd_waitq.c:422).                   *)
NoStranded == hba = NoThread /\ waitq = NoThread /\ CanStart(wq) => refused

(* A completed request has somebody coming for it: the softintr is         *)
(* triggered or running, or a poll that ends by triggering it is under way *)
(* (ghd_doneq_process stops at once when it meets poll mode).              *)
DoneqAttended ==
  /\ doneq # <<>> => \/ doneqSoft \/ pollmode
                     \/ pc[DoneqSoft] \in {"dq_get", "dq_call"}
                     \/ \E t \in Clients : pc[t] = "pm_trig"
  /\ frame.hold # <<>> => pollmode

(* A request is watched by the timer from its queueing to its completion,  *)
(* and not after: only the step that sol11ghd_timer_newstate is taking for *)
(* it leaves it unwatched. In particular one that expires is never IDLE or *)
(* DONEQ ("not supposed to happen", ghd_timer.c:612).                      *)
TimersExact ==
  \A c \in Cmds :
    timer[c] # "off" <=>
      /\ c \in Pending
      /\ ~(hba # NoThread /\ pc[hba] = "ns" /\ frame.run = c)

(* A bus reset sol11ghd_timer_newstate tries for a request finds that      *)
(* request active, so it completes the one it is for and no other.         *)
ResetHitsItsRequest ==
  \A t \in Threads :
    pc[t] = "ns" /\ frame.act = "RESET_BUS" /\ frame.run # NoCmd
      => active = frame.run

(* A device's throttle never keeps a request back while it has room, even  *)
(* when the request that made room was aborted or timed out in the queue.  *)
DeviceFilled == \A d \in Devs : wq.devq[d] # <<>> => Room(wq, d) = 0

(* The completions nobody has collected keep their order when a poll puts  *)
(* aside those that are not its own ("so that the order of completion      *)
(* callbacks is preserved", ghd.c:548), and are delivered in that order.   *)
Undelivered == frame.hold \o doneq
CompletionOrder ==
  [][ /\ \A c, e \in Elems(Undelivered') :
           /\ c # e /\ c \in Elems(Undelivered)
           /\ e \in Elems(Undelivered) => Precedes(Undelivered, c, e)
           => Precedes(Undelivered', c, e)
      /\ pc[DoneqSoft] = "dq_get" /\ pc'[DoneqSoft] = "dq_call"
           => cmd'[DoneqSoft] = Head(Undelivered) ]_vars

(* Recovery only escalates: a request being aborted climbs the ladder of   *)
(* sol11ghd_timer_newstate until it is done, whoever steps it (the timer   *)
(* softintr, a poll, an abort, another request's bus reset).               *)
Escalates ==
  [][ \A c \in Cmds : Rank(state[c]) >= Rank("ABORTING_CMD")
        => Rank(state'[c]) >= Rank(state[c]) \/ state'[c] = "DONEQ" ]_vars

-----------------------------------------------------------------------------
(* The strengthening under which NoStranded is inductive.                  *)

HbaLabels ==
  {"wq_loop", "wq_start", "wq_fini", "wq_reject", "ex_hba", "in_stat", "in_ret",
   "po_stat", "po_timer", "po_drain", "po_put", "pm_exit", "pm_trig",
   "ts_poll", "ns"}
WaitqLabels == {"tr_try", "ex_hba", "in_ret", "ex_waitq"}

(* The mutexes protect the sections the code brackets with them.           *)
Owners ==
  \A t \in Threads :
    /\ pc[t] \in HbaLabels => hba = t
    /\ pc[t] = "tr_enq" /\ op[t] \in Polled => hba = t
    /\ pc[t] \in WaitqLabels => waitq = t

(* No NULL request is used.                                                *)
Pointers ==
  /\ \A t \in Threads :
       /\ op[t] # "none" => t \in Clients /\ cmd[t] \in Cmds
       /\ pc[t] \in {"enter", "tr_enq"} => op[t] # "none"
       /\ pc[t] \in {"wq_start", "wq_reject"} => frame.run \in Cmds
       /\ pc[t] = "wq_fini" => active \in Cmds
       /\ pc[t] = "ns" /\ frame.act \in {"EARLY_TIMEOUT", "EARLY_ABORT"}
            => frame.run \in Cmds
  /\ pc[DoneqSoft] = "dq_call" => cmd[DoneqSoft] \in Cmds
  /\ irq => active \in Cmds

(* Whoever is about to give up the HBA mutex has left nothing to start,    *)
(* and until the waitq mutex follows nothing can be queued.                *)
Released ==
  \/ hba # NoThread /\ pc[hba] \in {"ex_hba", "in_ret"}
  \/ hba = NoThread /\ (waitq = NoThread \/ pc[waitq] = "ex_waitq")
Settled == Released => (CanStart(wq) => refused)

IInv == TypeOK /\ Owners /\ Pointers /\ Settled

-----------------------------------------------------------------------------
(* Refinement of GhdService. A request the wait queue processing has       *)
(* popped still waits, in front of all others, until hba_start accepts it. *)
(* Lane(d) is where those of device d wait, among others of the adapter.   *)
Submitting ==
  {cmd[t] : t \in {u \in Clients : /\ pc[u] \in {"enter", "tr_enq"}
                                   /\ op[u] \in {"transport"} \cup Polled}}
Lane(d) == (IF Popped # {} THEN <<frame.run>> ELSE <<>>) \o wq.hbaq \o wq.devq[d]
ServiceAhead ==
  [c \in Cmds |-> {x \in Cmds : Dev[x] = Dev[c] /\ Precedes(Lane(Dev[c]), x, c)}]
Service ==
  INSTANCE GhdService WITH
    MaxStarted <- 1,
    waiting <- Waiting \cup Popped,
    started <- {active} \ {NoCmd},
    finished <- owned \ (Pending \cup Submitting),
    ahead <- ServiceAhead

(* Every step of GHD is a step of the service or a stutter: the requests   *)
(* of a device start in the order they were queued, whatever refusals,     *)
(* promotions and aborts happen between, and the ATA driver has one        *)
(* request active whatever the adapter's throttle lets through.            *)
ImplementsService == Service!Spec

-----------------------------------------------------------------------------
(* Fairness: every thread keeps running, and one that finds a mutex free   *)
(* again and again gets it; a poll with a time limit runs out of it; a     *)
(* software interrupt that is triggered runs, and does not always fall     *)
(* within somebody's poll; time passes; an interrupt the device asserts is *)
(* taken; an expired request is found, since the list is read from its     *)
(* head and added to at its tail. Nothing is assumed of the device or of   *)
(* the HBA driver's answers.                                               *)
IntrRuns == (IntrEnter /\ irq) \/ IntrReturn \/ Step(Intr)
TimerRuns == TimerBegin \/ TimerEnter \/ Step(TimerSoft)
TimerFinds(c) == \E t \in Threads : TimerGet(t) /\ frame'.run = c
Fairness ==
  /\ \A t \in Clients : SF_vars(Step(t)) /\ SF_vars(PollGiveUp(t))
  /\ SF_vars(IntrRuns) /\ SF_vars(TimerRuns) /\ WF_vars(DoneqCall)
  /\ SF_vars(DoneqBegin /\ ~pollmode) /\ SF_vars(DoneqGet /\ ~pollmode)
  /\ WF_vars(GhdTimeout)
  /\ \A c \in Cmds : WF_vars(Expire(c)) /\ SF_vars(TimerFinds(c))
FairSpec == Spec /\ Fairness

(* Every request handed to GHD comes back, even if the device never        *)
(* answers and the HBA driver refuses it each time, as long as a bus reset *)
(* works (otherwise GACTION_INCOMPLETE leaves the request hung) and no     *)
(* request is sent without a timeout.                                      *)
ComesBack == \A c \in Cmds : c \in owned ~> c \notin owned
=============================================================================
