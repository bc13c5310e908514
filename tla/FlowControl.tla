---------------------------- MODULE FlowControl ----------------------------
(***************************************************************************)
(* The flow control between a disk and its HBA driver (dmult and dsngl of  *)
(* src/dktp/drvobj/strategy.c), over a first-in first-out queue (qfifo),   *)
(* as dadk.c calls it: callers of dadk_strategy enqueue, the threads that  *)
(* run dadk_iodone (the completion softintr, a dadk_restart callout)       *)
(* dequeue, and so does the callback the kernel makes when DMA resources   *)
(* are free again (dmult_restart).                                         *)
(*                                                                         *)
(* ds_mutex names its owner, since a dequeue only tries it. dsngl is dmult *)
(* with MaxCnt 1: its tests are for ds_outcnt # 0.                         *)
(***************************************************************************)
EXTENDS Integers, Sequences, FiniteSets

CONSTANTS
  Bufs,       \* the transfers (struct buf)
  Callers,    \* threads that call dadk_strategy
  Completers, \* threads that run dadk_iodone
  Restarter,  \* the thread of the kernel's DMA callbacks
  NoBuf,      \* a NULL struct buf pointer
  NoThread,   \* the owner of the free mutex
  MaxCnt,     \* ds_waitcnt (dmult_maxcnt), or 1 for dsngl
  Scarce      \* may a packet allocation fail (KM_NOSLEEP) in this instance?

Threads == Callers \cup Completers \cup {Restarter}

ASSUME FlowAssumption ==
  /\ IsFiniteSet(Bufs) /\ NoBuf \notin Bufs
  /\ NoThread \notin Threads
  /\ Callers \cap Completers = {} /\ Restarter \notin Callers \cup Completers
  /\ MaxCnt \in Nat \ {0}
  /\ Scarce \in BOOLEAN

VARIABLES
  pc,       \* where each thread is
  in_bp,    \* the transfer a thread was called with
  bp,       \* the transfer a thread is about to transport
  ds_mutex, \* its owner
  ds_bp,    \* the transfer taken off the queue but not released
  ds_outcnt,\* released transfers
  queue,    \* the queue object's list
  pkt,      \* transfers that have a packet (GDA_BP_PKT)
  sent,     \* transfers the HBA driver has
  callback, \* the kernel holds dmult_restart for us
  owned,    \* history: transfers not yet given to biodone
  refused   \* history: the last packet allocation for ds_bp failed

threads == <<pc, in_bp, bp>>
flow    == <<ds_mutex, ds_bp, ds_outcnt, queue>>
vars    == <<threads, flow, pkt, sent, callback, owned, refused>>

Labels == {"idle", "en_lock", "en_body", "en_send",
           "de_lock", "de_loop", "de_send", "de_try", "de_ret"}

Goto(t, l) == pc' = [pc EXCEPT ![t] = l]
Unlock == ds_mutex' = NoThread

Init ==
  /\ pc = [t \in Threads |-> "idle"]
  /\ in_bp = [t \in Threads |-> NoBuf] /\ bp = [t \in Threads |-> NoBuf]
  /\ ds_mutex = NoThread /\ ds_bp = NoBuf /\ ds_outcnt = 0 /\ queue = <<>>
  /\ pkt = {} /\ sent = {} /\ callback = FALSE
  /\ owned = {} /\ refused = FALSE

(* TGCOM_PKT, dadk_pkt: a transfer that has its packet keeps it. A packet  *)
(* that is short of DMA resources does without, and the kernel notes the   *)
(* callback; without memory for a packet there is none, and no callback.   *)
PktOk(b) ==
  /\ pkt' = pkt \cup {b}
  /\ callback' \in IF b \in pkt THEN {callback} ELSE {callback, TRUE}
PktFails(b) == Scarce /\ b \notin pkt /\ UNCHANGED <<pkt, callback>>

-----------------------------------------------------------------------------
(* FLC_ENQUE, from dadk_strategy, or from dadk_dk and the flush ioctl,     *)
(* which have prepared a packet already.                                   *)
Enque(t, b) ==
  /\ pc[t] = "idle" /\ t \in Callers
  /\ b \notin owned
  /\ owned' = owned \cup {b}
  /\ pkt' \in {pkt, pkt \cup {b}}
  /\ in_bp' = [in_bp EXCEPT ![t] = b]
  /\ Goto(t, "en_lock")
  /\ UNCHANGED <<bp, flow, sent, callback, refused>>

EnqueLock(t) ==
  /\ pc[t] = "en_lock" /\ ds_mutex = NoThread
  /\ ds_mutex' = t
  /\ Goto(t, "en_body")
  /\ UNCHANGED <<in_bp, bp, ds_bp, ds_outcnt, queue, pkt, sent, callback, owned,
                 refused>>

(* A slip: a held transfer does not make the new one wait.                 *)
MustWaitUnlessHeld == ds_outcnt >= MaxCnt
(* Does a new transfer have to wait its turn?                              *)
MustWait == ds_outcnt >= MaxCnt \/ ds_bp # NoBuf

EnqueQueue(t) ==
  /\ pc[t] = "en_body" /\ MustWait
  /\ queue' = Append(queue, in_bp[t])
  /\ Unlock
  /\ Goto(t, "idle")
  /\ in_bp' = [in_bp EXCEPT ![t] = NoBuf]
  /\ UNCHANGED <<bp, ds_bp, ds_outcnt, pkt, sent, callback, owned, refused>>

EnqueSend(t) ==
  /\ pc[t] = "en_body" /\ ~MustWait
  /\ PktOk(in_bp[t])
  /\ ds_outcnt' = ds_outcnt + 1
  /\ Unlock
  /\ Goto(t, "en_send")
  /\ bp' = [bp EXCEPT ![t] = in_bp[t]]
  /\ in_bp' = [in_bp EXCEPT ![t] = NoBuf]
  /\ UNCHANGED <<ds_bp, queue, sent, owned, refused>>

EnqueRefused(t) ==
  /\ pc[t] = "en_body" /\ ~MustWait
  /\ PktFails(in_bp[t])
  /\ ds_bp' = in_bp[t]
  /\ refused' = TRUE
  /\ Unlock
  /\ Goto(t, "idle")
  /\ in_bp' = [in_bp EXCEPT ![t] = NoBuf]
  /\ UNCHANGED <<bp, ds_outcnt, queue, sent, owned>>

(* TGCOM_TRANSPORT, with the mutex dropped. (sol11ghd_transport accepts    *)
(* every packet.)                                                          *)
Transport(t) ==
  /\ pc[t] \in {"en_send", "de_send"}
  /\ sent' = sent \cup {bp[t]}
  /\ bp' = [bp EXCEPT ![t] = NoBuf]
  /\ Goto(t, IF pc[t] = "en_send" THEN "idle" ELSE "de_try")
  /\ UNCHANGED <<in_bp, flow, pkt, callback, owned, refused>>

-----------------------------------------------------------------------------
(* dadk_iodone: the HBA driver has finished the whole of a transfer. (While*)
(* sections of it are left dadk_iodone transports it again, past the flow  *)
(* control: it stays in sent.)                                             *)
IoDone(t, b) ==
  /\ pc[t] = "idle" /\ t \in Completers
  /\ b \in sent
  /\ sent' = sent \ {b}
  /\ in_bp' = [in_bp EXCEPT ![t] = b]
  /\ Goto(t, "de_lock")
  /\ UNCHANGED <<bp, flow, pkt, callback, owned, refused>>

(* The kernel calls dmult_restart, which dequeues with no transfer. It is  *)
(* not called again unless a later allocation asks for it.                 *)
Restart ==
  /\ pc[Restarter] = "idle" /\ callback
  /\ callback' = FALSE
  /\ Goto(Restarter, "de_lock")
  /\ UNCHANGED <<in_bp, bp, flow, pkt, sent, owned, refused>>

(* FLC_DEQUE.                                                              *)
DequeLockAnyCall(t) ==      \* a slip: dmult_restart counts a transfer off too
  /\ pc[t] = "de_lock" /\ ds_mutex = NoThread
  /\ ds_mutex' = t
  /\ ds_outcnt' = ds_outcnt - 1
  /\ Goto(t, "de_loop")
  /\ UNCHANGED <<in_bp, bp, ds_bp, queue, pkt, sent, callback, owned, refused>>
DequeLockKeepsCount(t) ==   \* a slip: the finished transfer stays counted
  /\ pc[t] = "de_lock" /\ ds_mutex = NoThread
  /\ ds_mutex' = t
  /\ Goto(t, "de_loop")
  /\ UNCHANGED <<in_bp, bp, ds_bp, ds_outcnt, queue, pkt, sent, callback, owned,
                 refused>>
DequeLock(t) ==
  /\ pc[t] = "de_lock" /\ ds_mutex = NoThread
  /\ ds_mutex' = t
  /\ ds_outcnt' = IF in_bp[t] # NoBuf THEN ds_outcnt - 1 ELSE ds_outcnt
  /\ Goto(t, "de_loop")
  /\ UNCHANGED <<in_bp, bp, ds_bp, queue, pkt, sent, callback, owned, refused>>

(* One turn of its loop. The held transfer goes first, else the queue's    *)
(* head is taken.                                                          *)
NextBpHeldOnly == ds_bp     \* a slip: only what DequeSend took is looked at
NextBp == IF ds_bp # NoBuf THEN ds_bp
          ELSE IF queue # <<>> THEN Head(queue) ELSE NoBuf
Rest == IF ds_bp = NoBuf /\ queue # <<>> THEN Tail(queue) ELSE queue

DequeNothing(t) ==
  /\ pc[t] = "de_loop" /\ NextBp = NoBuf
  /\ Unlock
  /\ Goto(t, "de_ret")
  /\ UNCHANGED <<in_bp, bp, ds_bp, ds_outcnt, queue, pkt, sent, callback, owned,
                 refused>>

DequeRefusedRetries(t) ==   \* a slip: the allocation is tried again at once
  /\ pc[t] = "de_loop" /\ NextBp # NoBuf
  /\ PktFails(NextBp)
  /\ ds_bp' = NextBp /\ queue' = Rest
  /\ refused' = TRUE
  /\ Unlock
  /\ Goto(t, "de_try")
  /\ UNCHANGED <<in_bp, bp, ds_outcnt, sent, owned>>
DequeRefused(t) ==
  /\ pc[t] = "de_loop" /\ NextBp # NoBuf
  /\ PktFails(NextBp)
  /\ ds_bp' = NextBp /\ queue' = Rest
  /\ refused' = TRUE
  /\ Unlock
  /\ Goto(t, "de_ret")
  /\ UNCHANGED <<in_bp, bp, ds_outcnt, sent, owned>>

Throttled == ds_outcnt >= MaxCnt

DequeFull(t) ==
  /\ pc[t] = "de_loop" /\ NextBp # NoBuf
  /\ PktOk(NextBp) /\ Throttled
  /\ ds_bp' = NextBp /\ queue' = Rest
  /\ refused' = FALSE
  /\ Unlock
  /\ Goto(t, "de_ret")
  /\ UNCHANGED <<in_bp, bp, ds_outcnt, sent, owned>>

(* Release it, and take the next off the queue into ds_bp.                 *)
DequeSend(t) ==
  /\ pc[t] = "de_loop" /\ NextBp # NoBuf
  /\ PktOk(NextBp) /\ ~Throttled
  /\ ds_outcnt' = ds_outcnt + 1
  /\ bp' = [bp EXCEPT ![t] = NextBp]
  /\ ds_bp' = IF Rest = <<>> THEN NoBuf ELSE Head(Rest)
  /\ queue' = IF Rest = <<>> THEN <<>> ELSE Tail(Rest)
  /\ refused' = FALSE
  /\ Unlock
  /\ Goto(t, "de_send")
  /\ UNCHANGED <<in_bp, sent, owned>>

(* mutex_tryenter: leave the rest to the holder, or go round again.        *)
DequeTryFails(t) ==
  /\ pc[t] = "de_try" /\ ds_mutex # NoThread
  /\ Goto(t, "de_ret")
  /\ UNCHANGED <<in_bp, bp, flow, pkt, sent, callback, owned, refused>>

DequeTryOk(t) ==
  /\ pc[t] = "de_try" /\ ds_mutex = NoThread
  /\ ds_mutex' = t
  /\ Goto(t, "de_loop")
  /\ UNCHANGED <<in_bp, bp, ds_bp, ds_outcnt, queue, pkt, sent, callback, owned,
                 refused>>

(* dadk_iodone frees the packet and gives the transfer back; dmult_restart *)
(* just returns.                                                           *)
DequeReturn(t) ==
  /\ pc[t] = "de_ret"
  /\ pkt' = pkt \ {in_bp[t]}
  /\ owned' = owned \ {in_bp[t]}
  /\ in_bp' = [in_bp EXCEPT ![t] = NoBuf]
  /\ Goto(t, "idle")
  /\ UNCHANGED <<bp, flow, sent, callback, refused>>

Step(t) ==
  \/ EnqueLock(t) \/ EnqueQueue(t) \/ EnqueSend(t) \/ EnqueRefused(t)
  \/ Transport(t) \/ DequeLock(t)
  \/ DequeNothing(t) \/ DequeRefused(t) \/ DequeFull(t) \/ DequeSend(t)
  \/ DequeTryFails(t) \/ DequeTryOk(t) \/ DequeReturn(t)

Next ==
  \/ \E t \in Threads : Step(t) \/ \E b \in Bufs : Enque(t, b) \/ IoDone(t, b)
  \/ Restart

Spec == Init /\ [][Next]_vars

-----------------------------------------------------------------------------
(* Properties.                                                             *)

TypeOK ==
  /\ pc \in [Threads -> Labels]
  /\ in_bp \in [Threads -> Bufs \cup {NoBuf}]
  /\ bp \in [Threads -> Bufs \cup {NoBuf}]
  /\ ds_mutex \in Threads \cup {NoThread}
  /\ ds_bp \in Bufs \cup {NoBuf}
  /\ ds_outcnt \in Nat
  /\ queue \in Seq(Bufs)
  /\ pkt \subseteq Bufs /\ sent \subseteq Bufs
  /\ callback \in BOOLEAN
  /\ owned \subseteq Bufs /\ refused \in BOOLEAN

(* Released by the throttle: with the HBA driver, on the way there, or     *)
(* back from it and not yet counted off.                                   *)
Out ==
  sent \cup {bp[t] : t \in {u \in Threads : pc[u] \in {"en_send", "de_send"}}}
       \cup ({in_bp[t] : t \in {u \in Threads : pc[u] = "de_lock"}} \ {NoBuf})
Held == IF ds_bp = NoBuf THEN <<>> ELSE <<ds_bp>>
Waiting == Held \o queue

(* ds_outcnt counts the released transfers, and there are never more than  *)
(* the HBA driver is to see at a time.                                     *)
OutcntExact == ds_outcnt = Cardinality(Out) /\ ds_outcnt <= MaxCnt

(* What the throttle relies on. The mutex belongs to the thread that is in *)
(* a section of it; only dadk_iodone comes with a transfer to count off;   *)
(* and a transfer is in one place at a time.                               *)
Locked ==
  \A t \in Threads : pc[t] \in {"en_body", "de_loop"} <=> ds_mutex = t
Handed ==
  \A t \in Threads :
    /\ pc[t] \in {"en_lock", "en_body", "en_send"} => t \in Callers
    /\ pc[t] \in {"de_lock", "de_loop", "de_send", "de_try", "de_ret"}
         => t \notin Callers
    /\ pc[t] \in {"idle", "en_send"} => in_bp[t] = NoBuf
    /\ pc[t] \in {"en_lock", "en_body"} => in_bp[t] # NoBuf
    /\ bp[t] # NoBuf <=> pc[t] \in {"en_send", "de_send"}
Queued(b) == b = ds_bp \/ \E i \in DOMAIN queue : queue[i] = b
Apart ==
  /\ \A t \in Threads : in_bp[t] # NoBuf =>
       /\ in_bp[t] \in owned \ sent /\ ~Queued(in_bp[t])
       /\ \A u \in Threads : bp[u] # in_bp[t] /\ (u # t => in_bp[u] # in_bp[t])
  /\ \A t \in Threads : bp[t] # NoBuf =>
       /\ bp[t] \in owned \ sent /\ ~Queued(bp[t])
       /\ \A u \in Threads : u # t => bp[u] # bp[t]
  /\ sent \subseteq owned
  /\ \A i \in DOMAIN queue : queue[i] \in owned \ sent /\ queue[i] # ds_bp
  /\ \A i, j \in DOMAIN queue : i # j => queue[i] # queue[j]
  /\ ds_bp # NoBuf => ds_bp \in owned \ sent

(* With no transfer held, others wait behind the throttle only, or while a *)
(* dequeue goes on: a new arrival overtakes none of them.                  *)
InOrder ==
  ds_bp = NoBuf /\ queue # <<>> =>
    ds_outcnt >= MaxCnt \/ \E t \in Threads : pc[t] = "de_loop"

(* The inductive invariant of OutcntExact and ImplementsService.           *)
IInv == TypeOK /\ Locked /\ Handed /\ Apart /\ OutcntExact /\ InOrder

(* A transfer that waits will be looked at again: something is released    *)
(* whose completion will dequeue, or a dequeue is under way. Only a packet *)
(* allocation that failed with nothing released leaves it stranded; the    *)
(* callback passed to TGCOM_PKT is not kept for that.                      *)
NoStall ==
  Waiting # <<>> =>
    \/ ds_outcnt > 0
    \/ \E t \in Threads : pc[t] = "de_loop"
    \/ ds_bp # NoBuf /\ refused

(* Refinement of the service GHD promises too, for one device and MaxCnt   *)
(* transfers at a time: they are released in the order their dadk_strategy *)
(* got the mutex, each is given back once, and none is lost, whatever      *)
(* tries, refusals and completions come between.                           *)
Entering == {in_bp[t] : t \in {u \in Threads : pc[u] \in {"en_lock"}}}
Adding == IF ds_mutex # NoThread /\ pc[ds_mutex] = "en_body"
          THEN <<in_bp[ds_mutex]>> ELSE <<>>
Line == Waiting \o Adding
Elements(s) == {s[i] : i \in DOMAIN s}
Precedes(s, x, y) == \E i, j \in DOMAIN s : i < j /\ s[i] = x /\ s[j] = y
Service ==
  INSTANCE GhdService WITH
    Cmds <- Bufs, Dev <- [b \in Bufs |-> "disk"],
    MaxStarted <- MaxCnt,
    waiting <- Elements(Line),
    started <- Out,
    finished <- owned \ (Elements(Line) \cup Entering \cup Out),
    ahead <- [b \in Bufs |-> {x \in Bufs : Precedes(Line, x, b)}]
ImplementsService == Service!Spec

-----------------------------------------------------------------------------
(* Fairness: threads keep running, and one that finds the mutex free again *)
(* and again gets it; a callback the kernel has noted is made; the HBA     *)
(* driver comes back with every packet (ComesBack of module Ghd).          *)
Fairness ==
  /\ \A t \in Threads : SF_vars(Step(t))
  /\ WF_vars(Restart)
  /\ \A b \in Bufs : SF_vars(\E t \in Completers : IoDone(t, b))
FairSpec == Spec /\ Fairness

(* Every transfer is started and finished, unless the case that NoStall    *)
(* excepts keeps it. dadk_iodone gives it back only after dmult_deque,     *)
(* whose loop goes on as long as others fill the queue.                    *)
Stuck == ds_bp # NoBuf /\ refused /\ ds_outcnt = 0
Finished == {in_bp[t] : t \in {u \in Completers : pc[u] # "idle"}}
ComesBack == \A b \in Bufs : b \in owned ~> b \notin owned \/ b \in Finished \/ Stuck

(* The loop of dmult_deque ends unless it is fed: dadk_iodone, which gives *)
(* its transfer back only afterwards, and dmult_restart return, or         *)
(* transfers go on arriving while they loop.                               *)
ReturnsUnlessFed ==
  \A t \in Completers \cup {Restarter} :
    []<>(pc[t] = "idle" \/ \E c \in Callers : pc[c] # "idle")
=============================================================================
