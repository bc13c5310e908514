----------------------------- MODULE Ghd_proofs -----------------------------
(***************************************************************************)
(* Proofs about module Ghd: its type invariant, the discipline of its two  *)
(* mutexes, and that the wait queue is never left stranded.                *)
(***************************************************************************)
EXTENDS Ghd, TLAPS, SequenceTheorems

-----------------------------------------------------------------------------
(* The wait queue operators.                                               *)

(* L2_delete leaves a list of the same elements.                           *)
LEMMA UnlinkType ==
  ASSUME NEW S, NEW s \in Seq(S), NEW c
  PROVE  Unlink(s, c) \in Seq(S)
<1>1. CASE c \notin Elems(s)
  BY <1>1 DEF Unlink
<1>2. CASE c \in Elems(s)
  <2>1. DOMAIN s = 1 .. Len(s) /\ Len(s) \in Nat /\ \A i \in 1 .. Len(s) : s[i] \in S
    BY LenProperties, ElementOfSeq
  <2>. DEFINE k == CHOOSE i \in DOMAIN s : s[i] = c
  <2>2. k \in 1 .. Len(s)
    BY <1>2, <2>1 DEF Elems
  <2>3. Unlink(s, c) = SubSeq(s, 1, k - 1) \o SubSeq(s, k + 1, Len(s))
    BY <1>2 DEF Unlink
  <2>. HIDE DEF k
  <2>4. SubSeq(s, 1, k - 1) \in Seq(S)
    <3>1. 1 \in Int /\ k - 1 \in Int /\ \A i \in 1 .. k - 1 : s[i] \in S
      BY <2>1, <2>2
    <3>. QED
      BY <3>1, SubSeqProperties
  <2>5. SubSeq(s, k + 1, Len(s)) \in Seq(S)
    <3>1. k + 1 \in Int /\ Len(s) \in Int /\ \A i \in k + 1 .. Len(s) : s[i] \in S
      BY <2>1, <2>2
    <3>. QED
      BY <3>1, SubSeqProperties
  <2>. QED
    BY <2>3, <2>4, <2>5, ConcatProperties
<1>. QED
  BY <1>1, <1>2

(* A throttle never lets a negative number of requests up.                 *)
LEMMA RoomType ==
  ASSUME NEW q \in WaitqStates, NEW d \in Devs
  PROVE  Room(q, d) \in Nat
BY WaitqAssumption DEF Room, WaitqStates

(* sol11ghd_waitq_shuffle_up leaves well-formed queues.                    *)
LEMMA ShuffleUpType ==
  ASSUME NEW q \in WaitqStates, NEW d \in Devs
  PROVE  ShuffleUp(q, d) \in WaitqStates
<1>. DEFINE s == q.devq[d]
            n == IF Room(q, d) < Len(s) THEN Room(q, d) ELSE Len(s)
            up == SubSeq(s, 1, n)
            rest == SubSeq(s, n + 1, Len(s))
<1>1. s \in Seq(Cmds) /\ q.hbaq \in Seq(Cmds)
  BY DEF WaitqStates
<1>2. Len(s) \in Nat /\ n \in Nat /\ n <= Len(s) /\ \A i \in 1 .. Len(s) : s[i] \in Cmds
  BY <1>1, RoomType, LenProperties, ElementOfSeq
<1>3. up \in Seq(Cmds) /\ rest \in Seq(Cmds)
  BY <1>2, SubSeqProperties
<1>4. q.hbaq \o up \in Seq(Cmds)
  BY <1>1, <1>3, ConcatProperties
<1>. DEFINE dq == [q.devq EXCEPT ![d] = rest]
            da == [q.devActive EXCEPT ![d] = q.devActive[d] + n]
            hq == q.hbaq \o up
            lv == [c \in Cmds |-> IF c \in Elems(up) THEN q.level[c] + 1
                                                     ELSE q.level[c]]
<1>5. ShuffleUp(q, d) =
        [q EXCEPT !.devq = dq, !.hbaq = hq, !.devActive = da, !.level = lv]
  BY DEF ShuffleUp, WaitqStates
<1>6. dq \in [Devs -> Seq(Cmds)] /\ hq \in Seq(Cmds) /\ lv \in [Cmds -> Int]
  BY <1>3, <1>4 DEF WaitqStates
<1>7. da \in [Devs -> Int]
  BY <1>2 DEF WaitqStates
<1>. HIDE DEF dq, da, hq, lv
<1>. QED
  BY <1>5, <1>6, <1>7 DEF WaitqStates

(* So does queueing a new request,                                         *)
LEMMA EnqueueType ==
  ASSUME NEW q \in WaitqStates, NEW c \in Cmds
  PROVE  Enqueue(q, c) \in WaitqStates
<1>1. Dev[c] \in Devs
  BY WaitqAssumption
<1>2. Append(q.devq[Dev[c]], c) \in Seq(Cmds)
  BY <1>1, AppendProperties DEF WaitqStates
<1>. DEFINE dq == [q.devq EXCEPT ![Dev[c]] = Append(@, c)]
            lv == [q.level EXCEPT ![c] = 1]
            r == [q EXCEPT !.level[c] = 1, !.devq[Dev[c]] = Append(@, c)]
<1>3. r \in WaitqStates
  <2>1. dq \in [Devs -> Seq(Cmds)] /\ lv \in [Cmds -> Int]
    BY <1>1, <1>2 DEF WaitqStates
  <2>2. r = [q EXCEPT !.level = lv, !.devq = dq]
    BY DEF WaitqStates
  <2>. HIDE DEF dq, lv, r
  <2>. QED
    BY <2>1, <2>2 DEF WaitqStates
<1>4. Enqueue(q, c) = ShuffleUp(r, Dev[c])
  BY DEF Enqueue
<1>. HIDE DEF r
<1>. QED
  BY <1>1, <1>3, <1>4, ShuffleUpType

(* removing one (sol11ghd_waitq_delete),                                   *)
LEMMA WaitqDeleteType ==
  ASSUME NEW q \in WaitqStates, NEW c \in Cmds
  PROVE  WaitqDelete(q, c) \in WaitqStates
<1>. DEFINE l == q.level[c]
            r == [q EXCEPT
                    !.devq[Dev[c]] = IF l = 1 THEN Unlink(@, c) ELSE @,
                    !.hbaq = IF l = 2 THEN Unlink(@, c) ELSE @,
                    !.devActive[Dev[c]] = IF l \in {2, 3} THEN @ - 1 ELSE @,
                    !.hbaActive = IF l = 3 THEN @ - 1 ELSE @]
<1>1. Dev[c] \in Devs
  BY WaitqAssumption
<1>2. Unlink(q.devq[Dev[c]], c) \in Seq(Cmds) /\ Unlink(q.hbaq, c) \in Seq(Cmds)
  BY <1>1, UnlinkType DEF WaitqStates
<1>. DEFINE dq == [q.devq EXCEPT ![Dev[c]] = IF l = 1 THEN Unlink(@, c) ELSE @]
            hq == IF l = 2 THEN Unlink(q.hbaq, c) ELSE q.hbaq
            da == [q.devActive EXCEPT ![Dev[c]] =
                     IF l \in {2, 3} THEN @ - 1 ELSE @]
            ha == IF l = 3 THEN q.hbaActive - 1 ELSE q.hbaActive
<1>3. r \in WaitqStates
  <2>1. dq \in [Devs -> Seq(Cmds)] /\ hq \in Seq(Cmds)
    BY <1>1, <1>2 DEF WaitqStates
  <2>2. da \in [Devs -> Int] /\ ha \in Int
    BY <1>1 DEF WaitqStates
  <2>3. r = [q EXCEPT !.devq = dq, !.hbaq = hq, !.devActive = da, !.hbaActive = ha]
    BY DEF WaitqStates
  <2>. HIDE DEF dq, hq, da, ha, r
  <2>. QED
    BY <2>1, <2>2, <2>3 DEF WaitqStates
<1>4. WaitqDelete(q, c) = ShuffleUp(r, Dev[c])
  BY DEF WaitqDelete
<1>. HIDE DEF r
<1>. QED
  BY <1>1, <1>3, <1>4, ShuffleUpType

(* popping the head of the adapter's queue, which is a request,            *)
LEMMA PopHbaType ==
  ASSUME NEW q \in WaitqStates, CanStart(q)
  PROVE  PopHba(q) \in WaitqStates /\ Head(q.hbaq) \in Cmds
<1>. DEFINE hq == Tail(q.hbaq)
            ha == q.hbaActive + 1
            lv == [q.level EXCEPT ![Head(q.hbaq)] = @ + 1]
<1>1. Head(q.hbaq) \in Cmds /\ hq \in Seq(Cmds)
  BY HeadTailProperties DEF WaitqStates, CanStart
<1>2. ha \in Int /\ lv \in [Cmds -> Int]
  BY <1>1 DEF WaitqStates
<1>3. PopHba(q) = [q EXCEPT !.hbaq = hq, !.hbaActive = ha, !.level = lv]
  BY DEF PopHba, WaitqStates
<1>. HIDE DEF hq, ha, lv
<1>. QED
  BY <1>1, <1>2, <1>3 DEF WaitqStates

(* and putting it back.                                                    *)
LEMMA RequeueType ==
  ASSUME NEW q \in WaitqStates, NEW c \in Cmds
  PROVE  Requeue(q, c) \in WaitqStates
<1>. DEFINE hq == <<c>> \o q.hbaq
            ha == q.hbaActive - 1
            lv == [q.level EXCEPT ![c] = @ - 1]
<1>1. hq \in Seq(Cmds)
  BY ConcatProperties DEF WaitqStates
<1>2. ha \in Int /\ lv \in [Cmds -> Int]
  BY DEF WaitqStates
<1>3. Requeue(q, c) = [q EXCEPT !.hbaq = hq, !.hbaActive = ha, !.level = lv]
  BY DEF Requeue, WaitqStates
<1>. HIDE DEF hq, ha, lv
<1>. QED
  BY <1>1, <1>2, <1>3 DEF WaitqStates
-----------------------------------------------------------------------------
(* Facts about the state.                                                 *)

(* The local variables of the thread that owns the HBA mutex.              *)
LEMMA FrameFields ==
  ASSUME TypeOK
  PROVE  /\ frame.ret \in {"ex_hba", "in_ret", "po_timer"}
         /\ frame.run \in Cmds \cup {NoCmd}
         /\ frame.act \in Actions
         /\ frame.nsret \in {"ts_poll", "po_stat", "po_drain"}
         /\ frame.got \in BOOLEAN /\ frame.hold \in Seq(Cmds)
BY DEF TypeOK, Frames

(* The handlers are threads.                                               *)
LEMMA SoftThreads ==
  Intr \in Threads /\ DoneqSoft \in Threads /\ TimerSoft \in Threads
BY DEF Threads

(* They are well typed when nobody owns it.                                *)
LEMMA NoFrameType ==
  NoFrame \in Frames
<1>1. <<>> \in Seq(Cmds) /\ "INCOMPLETE" \in Actions
  BY EmptySeq DEF Actions
<1>2. "ex_hba" \in {"ex_hba", "in_ret", "po_timer"}
      /\ "ts_poll" \in {"ts_poll", "po_stat", "po_drain"}
  OBVIOUS
<1>. QED
  BY <1>1, <1>2 DEF NoFrame, Frames

(* The members of the cmd_state enumeration.                               *)
LEMMA StateNames ==
  /\ "IDLE" \in Elems(CmdStates) /\ "WAITQ" \in Elems(CmdStates)
  /\ "ACTIVE" \in Elems(CmdStates) /\ "DONEQ" \in Elems(CmdStates)
  /\ "ABORTING_CMD" \in Elems(CmdStates) /\ "ABORTING_DEV" \in Elems(CmdStates)
  /\ "RESETTING_DEV" \in Elems(CmdStates) /\ "RESETTING_BUS" \in Elems(CmdStates)
  /\ "HUNG" \in Elems(CmdStates)
<1>1. DOMAIN CmdStates = 1 .. 9
  BY DEF CmdStates
<1>. QED
  BY <1>1 DEF CmdStates, Elems

(* Each section is entered with its mutex and left by its owner.           *)
LEMMA OwnersStep ==
  ASSUME IInv, [Next]_vars
  PROVE  Owners'
<1>. USE DEF calls, locks, timers, doneqs, device, ghosts, Goto
<1>1. ASSUME NEW t \in Threads, NEW c \in Cmds, Transport(t, c)
       PROVE  Owners'
  BY <1>1, GhdAssumption
  DEF Transport, IInv, TypeOK, Owners, HbaLabels, WaitqLabels, Labels, Polled
<1>2. ASSUME NEW t \in Threads, NEW c \in Cmds, Abort(t, c)
       PROVE  Owners'
  BY <1>2, GhdAssumption
  DEF Abort, IInv, TypeOK, Owners, HbaLabels, WaitqLabels, Labels, Polled
<1>3. ASSUME NEW t \in Threads, NEW c \in Cmds, Reset(t, c)
       PROVE  Owners'
  BY <1>3, GhdAssumption
  DEF Reset, IInv, TypeOK, Owners, HbaLabels, WaitqLabels, Labels, Polled
<1>4. ASSUME NEW t \in Threads, EnterPolled(t)
       PROVE  Owners'
  BY <1>4, GhdAssumption
  DEF EnterPolled, Enter, IInv, TypeOK, Owners, HbaLabels, WaitqLabels, Labels,
      Polled
<1>5. ASSUME NEW t \in Threads, EnterAbort(t)
       PROVE  Owners'
  BY <1>5, GhdAssumption
  DEF EnterAbort, Enter, IInv, TypeOK, Owners, HbaLabels, WaitqLabels, Labels,
      Polled
<1>6. ASSUME NEW t \in Threads, EnterReset(t)
       PROVE  Owners'
  BY <1>6, GhdAssumption
  DEF EnterReset, Enter, IInv, TypeOK, Owners, HbaLabels, WaitqLabels, Labels,
      Polled
<1>7. ASSUME NEW t \in Threads, TransportEnqueue(t)
       PROVE  Owners'
  BY <1>7, GhdAssumption
  DEF TransportEnqueue, IInv, TypeOK, Owners, HbaLabels, WaitqLabels, Labels,
      Polled
<1>8. ASSUME NEW t \in Threads, TransportTryFails(t)
       PROVE  Owners'
  BY <1>8, GhdAssumption
  DEF TransportTryFails, Return, IInv, TypeOK, Owners, HbaLabels, WaitqLabels,
      Labels, Polled
<1>9. ASSUME NEW t \in Threads, TransportTryOk(t)
       PROVE  Owners'
  BY <1>9, GhdAssumption
  DEF TransportTryOk, IInv, TypeOK, Owners, HbaLabels, WaitqLabels, Labels,
      Polled
<1>10. ASSUME NEW t \in Threads, WaitqDone(t)
       PROVE  Owners'
  BY <1>10, GhdAssumption
  DEF WaitqDone, WaitqReturn, IInv, TypeOK, Owners, HbaLabels, WaitqLabels,
      Labels, Polled
<1>11. ASSUME NEW t \in Threads, WaitqPop(t)
       PROVE  Owners'
  BY <1>11, GhdAssumption
  DEF WaitqPop, IInv, TypeOK, Owners, HbaLabels, WaitqLabels, Labels, Polled
<1>12. ASSUME NEW t \in Threads, HbaAccepts(t)
       PROVE  Owners'
  BY <1>12, GhdAssumption
  DEF HbaAccepts, IInv, TypeOK, Owners, HbaLabels, WaitqLabels, Labels, Polled
<1>13. ASSUME NEW t \in Threads, HbaFinishesAtOnce(t)
       PROVE  Owners'
  BY <1>13, GhdAssumption
  DEF HbaFinishesAtOnce, CompleteActive, Complete, IInv, TypeOK, Owners,
      HbaLabels, WaitqLabels, Labels, Polled
<1>14. ASSUME NEW t \in Threads, HbaRefuses(t)
       PROVE  Owners'
  BY <1>14, GhdAssumption
  DEF HbaRefuses, IInv, TypeOK, Owners, HbaLabels, WaitqLabels, Labels, Polled
<1>15. ASSUME NEW t \in Threads, WaitqRequeue(t)
       PROVE  Owners'
  BY <1>15, GhdAssumption
  DEF WaitqRequeue, WaitqReturn, IInv, TypeOK, Owners, HbaLabels, WaitqLabels,
      Labels, Polled
<1>16. ASSUME NEW t \in Threads, ReleaseHba(t)
       PROVE  Owners'
  BY <1>16, GhdAssumption
  DEF ReleaseHba, IInv, TypeOK, Owners, HbaLabels, WaitqLabels, Labels, Polled
<1>17. ASSUME NEW t \in Threads, ReleaseWaitq(t)
       PROVE  Owners'
  BY <1>17, GhdAssumption
  DEF ReleaseWaitq, Return, IInv, TypeOK, Owners, HbaLabels, WaitqLabels,
      Labels, Polled
<1>18. ASSUME NEW t \in Threads, IntrPhase(t)
       PROVE  Owners'
  BY <1>18, GhdAssumption
  DEF IntrPhase, StatusProcessed, IInv, TypeOK, Owners, HbaLabels, WaitqLabels,
      Labels, Polled
<1>19. ASSUME NEW t \in Threads, IntrComplete(t)
       PROVE  Owners'
  BY <1>19, GhdAssumption
  DEF IntrComplete, StatusProcessed, CompleteActive, Complete, IInv, TypeOK,
      Owners, HbaLabels, WaitqLabels, Labels, Polled
<1>20. ASSUME NEW t \in Threads, IntrNone(t)
       PROVE  Owners'
  BY <1>20, GhdAssumption
  DEF IntrNone, IInv, TypeOK, Owners, HbaLabels, WaitqLabels, Labels, Polled
<1>21. ASSUME NEW t \in Threads, PollDrain(t)
       PROVE  Owners'
  BY <1>21, GhdAssumption
  DEF PollDrain, IInv, TypeOK, Owners, HbaLabels, WaitqLabels, Labels, Polled
<1>22. ASSUME NEW t \in Threads, PollGiveUp(t)
       PROVE  Owners'
  BY <1>22, GhdAssumption
  DEF PollGiveUp, IInv, TypeOK, Owners, HbaLabels, WaitqLabels, Labels, Polled
<1>23. ASSUME NEW t \in Threads, PollPut(t)
       PROVE  Owners'
  BY <1>23, GhdAssumption
  DEF PollPut, PutBack, IInv, TypeOK, Owners, HbaLabels, WaitqLabels, Labels,
      Polled
<1>24. ASSUME NEW t \in Threads, PollmodeExit(t)
       PROVE  Owners'
  BY <1>24, GhdAssumption
  DEF PollmodeExit, IInv, TypeOK, Owners, HbaLabels, WaitqLabels, Labels, Polled
<1>25. ASSUME NEW t \in Threads, PollmodeTrigger(t)
       PROVE  Owners'
  BY <1>25, GhdAssumption
  DEF PollmodeTrigger, IInv, TypeOK, Owners, HbaLabels, WaitqLabels, Labels,
      Polled
<1>26. ASSUME NEW t \in Threads, Finish(t)
       PROVE  Owners'
  BY <1>26, GhdAssumption
  DEF Finish, Return, IInv, TypeOK, Owners, HbaLabels, WaitqLabels, Labels,
      Polled
<1>27. ASSUME NEW t \in Threads, TimerNone(t)
       PROVE  Owners'
  BY <1>27, GhdAssumption
  DEF TimerNone, IInv, TypeOK, Owners, HbaLabels, WaitqLabels, Labels, Polled
<1>28. ASSUME NEW t \in Threads, TimerGet(t)
       PROVE  Owners'
  BY <1>28, GhdAssumption
  DEF TimerGet, IInv, TypeOK, Owners, HbaLabels, WaitqLabels, Labels, Polled
<1>29. ASSUME NEW t \in Threads, NewstateEarly(t)
       PROVE  Owners'
  <2>1. frame.nsret \in {"ts_poll", "po_stat", "po_drain"}
    BY FrameFields DEF IInv
  <2>. QED
    BY <2>1, <1>29, GhdAssumption
    DEF NewstateEarly, IInv, TypeOK, Owners, HbaLabels, WaitqLabels, Labels,
        Polled, Complete
<1>30. ASSUME NEW t \in Threads, NewstateCannot(t)
       PROVE  Owners'
  BY <1>30, GhdAssumption
  DEF NewstateCannot, IInv, TypeOK, Owners, HbaLabels, WaitqLabels, Labels,
      Polled
<1>31. ASSUME NEW t \in Threads, NewstateReset(t)
       PROVE  Owners'
  <2>1. frame.nsret \in {"ts_poll", "po_stat", "po_drain"}
    BY FrameFields DEF IInv
  <2>. QED
    BY <2>1, <1>31, GhdAssumption
    DEF NewstateReset, IInv, TypeOK, Owners, HbaLabels, WaitqLabels, Labels,
        Polled
<1>32. ASSUME NEW t \in Threads, NewstateHung(t)
       PROVE  Owners'
  <2>1. frame.nsret \in {"ts_poll", "po_stat", "po_drain"}
    BY FrameFields DEF IInv
  <2>. QED
    BY <2>1, <1>32, GhdAssumption
    DEF NewstateHung, IInv, TypeOK, Owners, HbaLabels, WaitqLabels, Labels,
        Polled
<1>33. ASSUME IntrReturn
       PROVE  Owners'
  BY <1>33, SoftThreads, GhdAssumption
  DEF IntrReturn, IInv, TypeOK, Owners, HbaLabels, WaitqLabels, Labels, Polled
<1>34. ASSUME DoneqBegin
       PROVE  Owners'
  BY <1>34, GhdAssumption
  DEF DoneqBegin, IInv, TypeOK, Owners, HbaLabels, WaitqLabels, Labels, Polled
<1>35. ASSUME DoneqGet
       PROVE  Owners'
  BY <1>35, GhdAssumption
  DEF DoneqGet, IInv, TypeOK, Owners, HbaLabels, WaitqLabels, Labels, Polled
<1>36. ASSUME DoneqCall
       PROVE  Owners'
  BY <1>36, GhdAssumption
  DEF DoneqCall, IInv, TypeOK, Owners, HbaLabels, WaitqLabels, Labels, Polled
<1>37. ASSUME TimerBegin
       PROVE  Owners'
  BY <1>37, GhdAssumption
  DEF TimerBegin, IInv, TypeOK, Owners, HbaLabels, WaitqLabels, Labels, Polled
<1>38. ASSUME TimerEnter
       PROVE  Owners'
  BY <1>38, GhdAssumption
  DEF TimerEnter, IInv, TypeOK, Owners, HbaLabels, WaitqLabels, Labels, Polled
<1>39. ASSUME IntrEnter
       PROVE  Owners'
  BY <1>39, GhdAssumption
  DEF IntrEnter, IInv, TypeOK, Owners, HbaLabels, WaitqLabels, Labels, Polled
<1>40. ASSUME GhdTimeout
       PROVE  Owners'
  BY <1>40, GhdAssumption
  DEF GhdTimeout, IInv, TypeOK, Owners, HbaLabels, WaitqLabels, Labels, Polled
<1>41. ASSUME DeviceInterrupt
       PROVE  Owners'
  BY <1>41, GhdAssumption
  DEF DeviceInterrupt, IInv, TypeOK, Owners, HbaLabels, WaitqLabels, Labels,
      Polled
<1>42. ASSUME NEW c \in Cmds, Expire(c)
       PROVE  Owners'
  BY <1>42, GhdAssumption
  DEF Expire, IInv, TypeOK, Owners, HbaLabels, WaitqLabels, Labels, Polled
<1>43. ASSUME UNCHANGED vars
       PROVE  Owners'
  BY <1>43
  DEF vars, IInv, TypeOK, Owners, HbaLabels, WaitqLabels, Labels, Polled
<1>. QED
  BY <1>1, <1>2, <1>3, <1>4, <1>5, <1>6, <1>7, <1>8, <1>9, <1>10, <1>11, <1>12,
     <1>13, <1>14, <1>15, <1>16, <1>17, <1>18, <1>19, <1>20, <1>21, <1>22,
     <1>23, <1>24, <1>25, <1>26, <1>27, <1>28, <1>29, <1>30, <1>31, <1>32,
     <1>33, <1>34, <1>35, <1>36, <1>37, <1>38, <1>39, <1>40, <1>41, <1>42, <1>43
  DEF Next, Call, Step, SoftStep

(* A request that is used is never NULL: it was set by the owner of the    *)
(* HBA mutex.                                                              *)
LEMMA PointersStep ==
  ASSUME IInv, [Next]_vars
  PROVE  Pointers'
<1>. USE DEF calls, locks, timers, doneqs, device, ghosts, Goto
<1>1. ASSUME NEW t \in Threads, NEW c \in Cmds, Transport(t, c)
       PROVE  Pointers'
  BY <1>1, SoftThreads, GhdAssumption
  DEF Transport, IInv, TypeOK, Owners, Pointers, HbaLabels, Labels, Polled
<1>2. ASSUME NEW t \in Threads, NEW c \in Cmds, Abort(t, c)
       PROVE  Pointers'
  BY <1>2, SoftThreads, GhdAssumption
  DEF Abort, IInv, TypeOK, Owners, Pointers, HbaLabels, Labels, Polled
<1>3. ASSUME NEW t \in Threads, NEW c \in Cmds, Reset(t, c)
       PROVE  Pointers'
  BY <1>3, SoftThreads, GhdAssumption
  DEF Reset, FirstAction, IInv, TypeOK, Owners, Pointers, HbaLabels, Labels,
      Polled
<1>4. ASSUME NEW t \in Threads, EnterPolled(t)
       PROVE  Pointers'
  BY <1>4, SoftThreads, GhdAssumption
  DEF EnterPolled, Enter, IInv, TypeOK, Owners, Pointers, HbaLabels, Labels,
      Polled
<1>5. ASSUME NEW t \in Threads, EnterAbort(t)
       PROVE  Pointers'
  <2>1. t \in Clients /\ cmd[t] \in Cmds
    BY <1>5 DEF EnterAbort, IInv, Pointers
  <2>2. pc'[t] = "ns" => frame'.run = cmd[t]
    BY <1>5 DEF EnterAbort, Enter, IInv, TypeOK, Frames
  <2>. QED
    BY <2>1, <2>2, <1>5, SoftThreads, GhdAssumption
    DEF EnterAbort, Enter, IInv, TypeOK, Owners, Pointers, HbaLabels, Labels,
        Polled
<1>6. ASSUME NEW t \in Threads, EnterReset(t)
       PROVE  Pointers'
  <2>1. frame'.act \notin {"EARLY_TIMEOUT", "EARLY_ABORT"}
    BY <1>6 DEF EnterReset, Enter, FirstAction, IInv, TypeOK, Frames
  <2>. QED
    BY <2>1, <1>6, SoftThreads, GhdAssumption
    DEF EnterReset, Enter, IInv, TypeOK, Owners, Pointers, HbaLabels, Labels,
        Polled
<1>7. ASSUME NEW t \in Threads, TransportEnqueue(t)
       PROVE  Pointers'
  BY <1>7, SoftThreads, GhdAssumption
  DEF TransportEnqueue, IInv, TypeOK, Owners, Pointers, HbaLabels, Labels,
      Polled
<1>8. ASSUME NEW t \in Threads, TransportTryFails(t)
       PROVE  Pointers'
  BY <1>8, SoftThreads, GhdAssumption
  DEF TransportTryFails, Return, IInv, TypeOK, Owners, Pointers, HbaLabels,
      Labels, Polled
<1>9. ASSUME NEW t \in Threads, TransportTryOk(t)
       PROVE  Pointers'
  BY <1>9, SoftThreads, GhdAssumption
  DEF TransportTryOk, IInv, TypeOK, Owners, Pointers, HbaLabels, Labels, Polled
<1>10. ASSUME NEW t \in Threads, WaitqDone(t)
       PROVE  Pointers'
  <2>1. frame.ret \in {"ex_hba", "in_ret", "po_timer"}
    BY FrameFields DEF IInv
  <2>. QED
    BY <2>1, <1>10, SoftThreads, GhdAssumption
    DEF WaitqDone, WaitqReturn, IInv, TypeOK, Owners, Pointers, HbaLabels,
        Labels, Polled
<1>11. ASSUME NEW t \in Threads, WaitqPop(t)
       PROVE  Pointers'
  <2>1. Head(wq.hbaq) \in Cmds
    BY <1>11, PopHbaType DEF WaitqPop, IInv, TypeOK
  <2>2. frame'.run = Head(wq.hbaq) /\ frame'.act = frame.act
    BY <1>11 DEF WaitqPop, IInv, TypeOK, Frames
  <2>. QED
    BY <2>1, <2>2, <1>11, SoftThreads, GhdAssumption
    DEF WaitqPop, IInv, TypeOK, Owners, Pointers, HbaLabels, Labels, Polled
<1>12. ASSUME NEW t \in Threads, HbaAccepts(t)
       PROVE  Pointers'
  BY <1>12, SoftThreads, GhdAssumption
  DEF HbaAccepts, IInv, TypeOK, Owners, Pointers, HbaLabels, Labels, Polled
<1>13. ASSUME NEW t \in Threads, HbaFinishesAtOnce(t)
       PROVE  Pointers'
  BY <1>13, SoftThreads, GhdAssumption
  DEF HbaFinishesAtOnce, CompleteActive, Complete, IInv, TypeOK, Owners,
      Pointers, HbaLabels, Labels, Polled
<1>14. ASSUME NEW t \in Threads, HbaRefuses(t)
       PROVE  Pointers'
  BY <1>14, SoftThreads, GhdAssumption
  DEF HbaRefuses, IInv, TypeOK, Owners, Pointers, HbaLabels, Labels, Polled
<1>15. ASSUME NEW t \in Threads, WaitqRequeue(t)
       PROVE  Pointers'
  <2>1. frame.ret \in {"ex_hba", "in_ret", "po_timer"}
    BY FrameFields DEF IInv
  <2>. QED
    BY <2>1, <1>15, SoftThreads, GhdAssumption
    DEF WaitqRequeue, WaitqReturn, IInv, TypeOK, Owners, Pointers, HbaLabels,
        Labels, Polled
<1>16. ASSUME NEW t \in Threads, ReleaseHba(t)
       PROVE  Pointers'
  BY <1>16, SoftThreads, GhdAssumption
  DEF ReleaseHba, IInv, TypeOK, Owners, Pointers, HbaLabels, Labels, Polled
<1>17. ASSUME NEW t \in Threads, ReleaseWaitq(t)
       PROVE  Pointers'
  BY <1>17, SoftThreads, GhdAssumption
  DEF ReleaseWaitq, Return, IInv, TypeOK, Owners, Pointers, HbaLabels, Labels,
      Polled
<1>18. ASSUME NEW t \in Threads, IntrPhase(t)
       PROVE  Pointers'
  BY <1>18, SoftThreads, GhdAssumption
  DEF IntrPhase, StatusProcessed, IInv, TypeOK, Owners, Pointers, HbaLabels,
      Labels, Polled
<1>19. ASSUME NEW t \in Threads, IntrComplete(t)
       PROVE  Pointers'
  BY <1>19, SoftThreads, GhdAssumption
  DEF IntrComplete, StatusProcessed, CompleteActive, Complete, IInv, TypeOK,
      Owners, Pointers, HbaLabels, Labels, Polled
<1>20. ASSUME NEW t \in Threads, IntrNone(t)
       PROVE  Pointers'
  BY <1>20, SoftThreads, GhdAssumption
  DEF IntrNone, IInv, TypeOK, Owners, Pointers, HbaLabels, Labels, Polled
<1>21. ASSUME NEW t \in Threads, PollDrain(t)
       PROVE  Pointers'
  BY <1>21, SoftThreads, GhdAssumption
  DEF PollDrain, IInv, TypeOK, Owners, Pointers, HbaLabels, Labels, Polled
<1>22. ASSUME NEW t \in Threads, PollGiveUp(t)
       PROVE  Pointers'
  BY <1>22, SoftThreads, GhdAssumption
  DEF PollGiveUp, IInv, TypeOK, Owners, Pointers, HbaLabels, Labels, Polled
<1>23. ASSUME NEW t \in Threads, PollPut(t)
       PROVE  Pointers'
  BY <1>23, SoftThreads, GhdAssumption
  DEF PollPut, PutBack, IInv, TypeOK, Owners, Pointers, HbaLabels, Labels,
      Polled
<1>24. ASSUME NEW t \in Threads, PollmodeExit(t)
       PROVE  Pointers'
  BY <1>24, SoftThreads, GhdAssumption
  DEF PollmodeExit, IInv, TypeOK, Owners, Pointers, HbaLabels, Labels, Polled
<1>25. ASSUME NEW t \in Threads, PollmodeTrigger(t)
       PROVE  Pointers'
  BY <1>25, SoftThreads, GhdAssumption
  DEF PollmodeTrigger, IInv, TypeOK, Owners, Pointers, HbaLabels, Labels, Polled
<1>26. ASSUME NEW t \in Threads, Finish(t)
       PROVE  Pointers'
  BY <1>26, SoftThreads, GhdAssumption
  DEF Finish, Return, IInv, TypeOK, Owners, Pointers, HbaLabels, Labels, Polled
<1>27. ASSUME NEW t \in Threads, TimerNone(t)
       PROVE  Pointers'
  BY <1>27, SoftThreads, GhdAssumption
  DEF TimerNone, IInv, TypeOK, Owners, Pointers, HbaLabels, Labels, Polled
<1>28. ASSUME NEW t \in Threads, TimerGet(t)
       PROVE  Pointers'
  BY <1>28, SoftThreads, GhdAssumption
  DEF TimerGet, IInv, TypeOK, Owners, Pointers, HbaLabels, Labels, Polled
<1>29. ASSUME NEW t \in Threads, NewstateEarly(t)
       PROVE  Pointers'
  <2>1. frame.nsret \in {"ts_poll", "po_stat", "po_drain"}
    BY FrameFields DEF IInv
  <2>. QED
    BY <2>1, <1>29, SoftThreads, GhdAssumption
    DEF NewstateEarly, Complete, IInv, TypeOK, Owners, Pointers, HbaLabels,
        Labels, Polled
<1>30. ASSUME NEW t \in Threads, NewstateCannot(t)
       PROVE  Pointers'
  <2>1. frame'.act \notin {"EARLY_TIMEOUT", "EARLY_ABORT"}
    BY <1>30 DEF NewstateCannot, NextAction, IInv, TypeOK, Frames
  <2>. QED
    BY <2>1, <1>30, SoftThreads, GhdAssumption
    DEF NewstateCannot, IInv, TypeOK, Owners, Pointers, HbaLabels, Labels,
        Polled
<1>31. ASSUME NEW t \in Threads, NewstateReset(t)
       PROVE  Pointers'
  <2>1. frame.nsret \in {"ts_poll", "po_stat", "po_drain"}
    BY FrameFields DEF IInv
  <2>. QED
    BY <2>1, <1>31, SoftThreads, GhdAssumption
    DEF NewstateReset, IInv, TypeOK, Owners, Pointers, HbaLabels, Labels, Polled
<1>32. ASSUME NEW t \in Threads, NewstateHung(t)
       PROVE  Pointers'
  <2>1. frame.nsret \in {"ts_poll", "po_stat", "po_drain"}
    BY FrameFields DEF IInv
  <2>. QED
    BY <2>1, <1>32, SoftThreads, GhdAssumption
    DEF NewstateHung, IInv, TypeOK, Owners, Pointers, HbaLabels, Labels, Polled
<1>33. ASSUME IntrReturn
       PROVE  Pointers'
  BY <1>33, SoftThreads, GhdAssumption
  DEF IntrReturn, IInv, TypeOK, Owners, Pointers, HbaLabels, Labels, Polled
<1>34. ASSUME DoneqBegin
       PROVE  Pointers'
  BY <1>34, SoftThreads, GhdAssumption
  DEF DoneqBegin, IInv, TypeOK, Owners, Pointers, HbaLabels, Labels, Polled
<1>35. ASSUME DoneqGet
       PROVE  Pointers'
  BY <1>35, SoftThreads, GhdAssumption
  DEF DoneqGet, IInv, TypeOK, Owners, Pointers, HbaLabels, Labels, Polled
<1>36. ASSUME DoneqCall
       PROVE  Pointers'
  BY <1>36, SoftThreads, GhdAssumption
  DEF DoneqCall, IInv, TypeOK, Owners, Pointers, HbaLabels, Labels, Polled
<1>37. ASSUME TimerBegin
       PROVE  Pointers'
  BY <1>37, SoftThreads, GhdAssumption
  DEF TimerBegin, IInv, TypeOK, Owners, Pointers, HbaLabels, Labels, Polled
<1>38. ASSUME TimerEnter
       PROVE  Pointers'
  BY <1>38, SoftThreads, GhdAssumption
  DEF TimerEnter, IInv, TypeOK, Owners, Pointers, HbaLabels, Labels, Polled
<1>39. ASSUME IntrEnter
       PROVE  Pointers'
  BY <1>39, SoftThreads, GhdAssumption
  DEF IntrEnter, IInv, TypeOK, Owners, Pointers, HbaLabels, Labels, Polled
<1>40. ASSUME GhdTimeout
       PROVE  Pointers'
  BY <1>40, SoftThreads, GhdAssumption
  DEF GhdTimeout, IInv, TypeOK, Owners, Pointers, HbaLabels, Labels, Polled
<1>41. ASSUME DeviceInterrupt
       PROVE  Pointers'
  BY <1>41, SoftThreads, GhdAssumption
  DEF DeviceInterrupt, IInv, TypeOK, Owners, Pointers, HbaLabels, Labels, Polled
<1>42. ASSUME NEW c \in Cmds, Expire(c)
       PROVE  Pointers'
  BY <1>42, SoftThreads, GhdAssumption
  DEF Expire, IInv, TypeOK, Owners, Pointers, HbaLabels, Labels, Polled
<1>43. ASSUME UNCHANGED vars
       PROVE  Pointers'
  BY <1>43 DEF vars, IInv, TypeOK, Owners, Pointers, HbaLabels, Labels, Polled
<1>. QED
  BY <1>1, <1>2, <1>3, <1>4, <1>5, <1>6, <1>7, <1>8, <1>9, <1>10, <1>11, <1>12,
     <1>13, <1>14, <1>15, <1>16, <1>17, <1>18, <1>19, <1>20, <1>21, <1>22,
     <1>23, <1>24, <1>25, <1>26, <1>27, <1>28, <1>29, <1>30, <1>31, <1>32,
     <1>33, <1>34, <1>35, <1>36, <1>37, <1>38, <1>39, <1>40, <1>41, <1>42, <1>43
  DEF Next, Call, Step, SoftStep

(* The HBA mutex is released only when the queue has nothing to start.     *)
LEMMA SettledStep ==
  ASSUME IInv, [Next]_vars
  PROVE  Settled'
<1>. USE DEF calls, locks, timers, doneqs, device, ghosts, Goto
<1>1. ASSUME NEW t \in Threads, NEW c \in Cmds, Transport(t, c)
       PROVE  Settled'
  BY <1>1, SoftThreads, GhdAssumption
  DEF Transport, IInv, TypeOK, Owners, Settled, Released, HbaLabels,
      WaitqLabels, Labels, Polled, CanStart
<1>2. ASSUME NEW t \in Threads, NEW c \in Cmds, Abort(t, c)
       PROVE  Settled'
  BY <1>2, SoftThreads, GhdAssumption
  DEF Abort, IInv, TypeOK, Owners, Settled, Released, HbaLabels, WaitqLabels,
      Labels, Polled, CanStart
<1>3. ASSUME NEW t \in Threads, NEW c \in Cmds, Reset(t, c)
       PROVE  Settled'
  BY <1>3, SoftThreads, GhdAssumption
  DEF Reset, IInv, TypeOK, Owners, Settled, Released, HbaLabels, WaitqLabels,
      Labels, Polled, CanStart
<1>4. ASSUME NEW t \in Threads, EnterPolled(t)
       PROVE  Settled'
  BY <1>4, SoftThreads, GhdAssumption
  DEF EnterPolled, Enter, IInv, TypeOK, Owners, Settled, Released, HbaLabels,
      WaitqLabels, Labels, Polled, CanStart
<1>5. ASSUME NEW t \in Threads, EnterAbort(t)
       PROVE  Settled'
  BY <1>5, SoftThreads, GhdAssumption
  DEF EnterAbort, Enter, IInv, TypeOK, Owners, Settled, Released, HbaLabels,
      WaitqLabels, Labels, Polled, CanStart
<1>6. ASSUME NEW t \in Threads, EnterReset(t)
       PROVE  Settled'
  BY <1>6, SoftThreads, GhdAssumption
  DEF EnterReset, Enter, IInv, TypeOK, Owners, Settled, Released, HbaLabels,
      WaitqLabels, Labels, Polled, CanStart
<1>7. ASSUME NEW t \in Threads, TransportEnqueue(t)
       PROVE  Settled'
  BY <1>7, SoftThreads, GhdAssumption
  DEF TransportEnqueue, IInv, TypeOK, Owners, Settled, Released, HbaLabels,
      WaitqLabels, Labels, Polled, CanStart
<1>8. ASSUME NEW t \in Threads, TransportTryFails(t)
       PROVE  Settled'
  BY <1>8, SoftThreads, GhdAssumption
  DEF TransportTryFails, Return, IInv, TypeOK, Owners, Settled, Released,
      HbaLabels, WaitqLabels, Labels, Polled, CanStart
<1>9. ASSUME NEW t \in Threads, TransportTryOk(t)
       PROVE  Settled'
  BY <1>9, SoftThreads, GhdAssumption
  DEF TransportTryOk, IInv, TypeOK, Owners, Settled, Released, HbaLabels,
      WaitqLabels, Labels, Polled, CanStart
<1>10. ASSUME NEW t \in Threads, WaitqDone(t)
       PROVE  Settled'
  BY <1>10, SoftThreads, GhdAssumption
  DEF WaitqDone, WaitqReturn, IInv, TypeOK, Owners, Settled, Released,
      HbaLabels, WaitqLabels, Labels, Polled, CanStart
<1>11. ASSUME NEW t \in Threads, WaitqPop(t)
       PROVE  Settled'
  BY <1>11, SoftThreads, GhdAssumption
  DEF WaitqPop, IInv, TypeOK, Owners, Settled, Released, HbaLabels, WaitqLabels,
      Labels, Polled, CanStart
<1>12. ASSUME NEW t \in Threads, HbaAccepts(t)
       PROVE  Settled'
  BY <1>12, SoftThreads, GhdAssumption
  DEF HbaAccepts, IInv, TypeOK, Owners, Settled, Released, HbaLabels,
      WaitqLabels, Labels, Polled, CanStart
<1>13. ASSUME NEW t \in Threads, HbaFinishesAtOnce(t)
       PROVE  Settled'
  BY <1>13, SoftThreads, GhdAssumption
  DEF HbaFinishesAtOnce, CompleteActive, Complete, IInv, TypeOK, Owners,
      Settled, Released, HbaLabels, WaitqLabels, Labels, Polled, CanStart
<1>14. ASSUME NEW t \in Threads, HbaRefuses(t)
       PROVE  Settled'
  BY <1>14, SoftThreads, GhdAssumption
  DEF HbaRefuses, IInv, TypeOK, Owners, Settled, Released, HbaLabels,
      WaitqLabels, Labels, Polled, CanStart
<1>15. ASSUME NEW t \in Threads, WaitqRequeue(t)
       PROVE  Settled'
  BY <1>15, SoftThreads, GhdAssumption
  DEF WaitqRequeue, WaitqReturn, IInv, TypeOK, Owners, Settled, Released,
      HbaLabels, WaitqLabels, Labels, Polled, CanStart
<1>16. ASSUME NEW t \in Threads, ReleaseHba(t)
       PROVE  Settled'
  BY <1>16, SoftThreads, GhdAssumption
  DEF ReleaseHba, IInv, TypeOK, Owners, Settled, Released, HbaLabels,
      WaitqLabels, Labels, Polled, CanStart
<1>17. ASSUME NEW t \in Threads, ReleaseWaitq(t)
       PROVE  Settled'
  BY <1>17, SoftThreads, GhdAssumption
  DEF ReleaseWaitq, Return, IInv, TypeOK, Owners, Settled, Released, HbaLabels,
      WaitqLabels, Labels, Polled, CanStart
<1>18. ASSUME NEW t \in Threads, IntrPhase(t)
       PROVE  Settled'
  BY <1>18, SoftThreads, GhdAssumption
  DEF IntrPhase, StatusProcessed, IInv, TypeOK, Owners, Settled, Released,
      HbaLabels, WaitqLabels, Labels, Polled, CanStart
<1>19. ASSUME NEW t \in Threads, IntrComplete(t)
       PROVE  Settled'
  BY <1>19, SoftThreads, GhdAssumption
  DEF IntrComplete, StatusProcessed, CompleteActive, Complete, IInv, TypeOK,
      Owners, Settled, Released, HbaLabels, WaitqLabels, Labels, Polled,
      CanStart
<1>20. ASSUME NEW t \in Threads, IntrNone(t)
       PROVE  Settled'
  BY <1>20, SoftThreads, GhdAssumption
  DEF IntrNone, IInv, TypeOK, Owners, Settled, Released, HbaLabels, WaitqLabels,
      Labels, Polled, CanStart
<1>21. ASSUME NEW t \in Threads, PollDrain(t)
       PROVE  Settled'
  BY <1>21, SoftThreads, GhdAssumption
  DEF PollDrain, IInv, TypeOK, Owners, Settled, Released, HbaLabels,
      WaitqLabels, Labels, Polled, CanStart
<1>22. ASSUME NEW t \in Threads, PollGiveUp(t)
       PROVE  Settled'
  BY <1>22, SoftThreads, GhdAssumption
  DEF PollGiveUp, IInv, TypeOK, Owners, Settled, Released, HbaLabels,
      WaitqLabels, Labels, Polled, CanStart
<1>23. ASSUME NEW t \in Threads, PollPut(t)
       PROVE  Settled'
  BY <1>23, SoftThreads, GhdAssumption
  DEF PollPut, PutBack, IInv, TypeOK, Owners, Settled, Released, HbaLabels,
      WaitqLabels, Labels, Polled, CanStart
<1>24. ASSUME NEW t \in Threads, PollmodeExit(t)
       PROVE  Settled'
  BY <1>24, SoftThreads, GhdAssumption
  DEF PollmodeExit, IInv, TypeOK, Owners, Settled, Released, HbaLabels,
      WaitqLabels, Labels, Polled, CanStart
<1>25. ASSUME NEW t \in Threads, PollmodeTrigger(t)
       PROVE  Settled'
  BY <1>25, SoftThreads, GhdAssumption
  DEF PollmodeTrigger, IInv, TypeOK, Owners, Settled, Released, HbaLabels,
      WaitqLabels, Labels, Polled, CanStart
<1>26. ASSUME NEW t \in Threads, Finish(t)
       PROVE  Settled'
  BY <1>26, SoftThreads, GhdAssumption
  DEF Finish, Return, IInv, TypeOK, Owners, Settled, Released, HbaLabels,
      WaitqLabels, Labels, Polled, CanStart
<1>27. ASSUME NEW t \in Threads, TimerNone(t)
       PROVE  Settled'
  BY <1>27, SoftThreads, GhdAssumption
  DEF TimerNone, IInv, TypeOK, Owners, Settled, Released, HbaLabels,
      WaitqLabels, Labels, Polled, CanStart
<1>28. ASSUME NEW t \in Threads, TimerGet(t)
       PROVE  Settled'
  BY <1>28, SoftThreads, GhdAssumption
  DEF TimerGet, IInv, TypeOK, Owners, Settled, Released, HbaLabels, WaitqLabels,
      Labels, Polled, CanStart
<1>29. ASSUME NEW t \in Threads, NewstateEarly(t)
       PROVE  Settled'
  <2>1. frame.nsret \in {"ts_poll", "po_stat", "po_drain"}
    BY FrameFields DEF IInv
  <2>. QED
    BY <2>1, <1>29, SoftThreads, GhdAssumption
    DEF NewstateEarly, Complete, IInv, TypeOK, Owners, Settled, Released,
        HbaLabels, WaitqLabels, Labels, Polled, CanStart
<1>30. ASSUME NEW t \in Threads, NewstateCannot(t)
       PROVE  Settled'
  BY <1>30, SoftThreads, GhdAssumption
  DEF NewstateCannot, IInv, TypeOK, Owners, Settled, Released, HbaLabels,
      WaitqLabels, Labels, Polled, CanStart
<1>31. ASSUME NEW t \in Threads, NewstateReset(t)
       PROVE  Settled'
  <2>1. frame.nsret \in {"ts_poll", "po_stat", "po_drain"}
    BY FrameFields DEF IInv
  <2>. QED
    BY <2>1, <1>31, SoftThreads, GhdAssumption
    DEF NewstateReset, IInv, TypeOK, Owners, Settled, Released, HbaLabels,
        WaitqLabels, Labels, Polled, CanStart
<1>32. ASSUME NEW t \in Threads, NewstateHung(t)
       PROVE  Settled'
  <2>1. frame.nsret \in {"ts_poll", "po_stat", "po_drain"}
    BY FrameFields DEF IInv
  <2>. QED
    BY <2>1, <1>32, SoftThreads, GhdAssumption
    DEF NewstateHung, IInv, TypeOK, Owners, Settled, Released, HbaLabels,
        WaitqLabels, Labels, Polled, CanStart
<1>33. ASSUME IntrReturn
       PROVE  Settled'
  BY <1>33, SoftThreads, GhdAssumption
  DEF IntrReturn, IInv, TypeOK, Owners, Settled, Released, HbaLabels,
      WaitqLabels, Labels, Polled, CanStart
<1>34. ASSUME DoneqBegin
       PROVE  Settled'
  BY <1>34, SoftThreads, GhdAssumption
  DEF DoneqBegin, IInv, TypeOK, Owners, Settled, Released, HbaLabels,
      WaitqLabels, Labels, Polled, CanStart
<1>35. ASSUME DoneqGet
       PROVE  Settled'
  BY <1>35, SoftThreads, GhdAssumption
  DEF DoneqGet, IInv, TypeOK, Owners, Settled, Released, HbaLabels, WaitqLabels,
      Labels, Polled, CanStart
<1>36. ASSUME DoneqCall
       PROVE  Settled'
  BY <1>36, SoftThreads, GhdAssumption
  DEF DoneqCall, IInv, TypeOK, Owners, Settled, Released, HbaLabels,
      WaitqLabels, Labels, Polled, CanStart
<1>37. ASSUME TimerBegin
       PROVE  Settled'
  BY <1>37, SoftThreads, GhdAssumption
  DEF TimerBegin, IInv, TypeOK, Owners, Settled, Released, HbaLabels,
      WaitqLabels, Labels, Polled, CanStart
<1>38. ASSUME TimerEnter
       PROVE  Settled'
  BY <1>38, SoftThreads, GhdAssumption
  DEF TimerEnter, IInv, TypeOK, Owners, Settled, Released, HbaLabels,
      WaitqLabels, Labels, Polled, CanStart
<1>39. ASSUME IntrEnter
       PROVE  Settled'
  BY <1>39, SoftThreads, GhdAssumption
  DEF IntrEnter, IInv, TypeOK, Owners, Settled, Released, HbaLabels,
      WaitqLabels, Labels, Polled, CanStart
<1>40. ASSUME GhdTimeout
       PROVE  Settled'
  BY <1>40, SoftThreads, GhdAssumption
  DEF GhdTimeout, IInv, TypeOK, Owners, Settled, Released, HbaLabels,
      WaitqLabels, Labels, Polled, CanStart
<1>41. ASSUME DeviceInterrupt
       PROVE  Settled'
  BY <1>41, SoftThreads, GhdAssumption
  DEF DeviceInterrupt, IInv, TypeOK, Owners, Settled, Released, HbaLabels,
      WaitqLabels, Labels, Polled, CanStart
<1>42. ASSUME NEW c \in Cmds, Expire(c)
       PROVE  Settled'
  BY <1>42, SoftThreads, GhdAssumption
  DEF Expire, IInv, TypeOK, Owners, Settled, Released, HbaLabels, WaitqLabels,
      Labels, Polled, CanStart
<1>43. ASSUME UNCHANGED vars
       PROVE  Settled'
  BY <1>43
  DEF vars, IInv, TypeOK, Owners, Settled, Released, HbaLabels, WaitqLabels,
      Labels, Polled, CanStart
<1>. QED
  BY <1>1, <1>2, <1>3, <1>4, <1>5, <1>6, <1>7, <1>8, <1>9, <1>10, <1>11, <1>12,
     <1>13, <1>14, <1>15, <1>16, <1>17, <1>18, <1>19, <1>20, <1>21, <1>22,
     <1>23, <1>24, <1>25, <1>26, <1>27, <1>28, <1>29, <1>30, <1>31, <1>32,
     <1>33, <1>34, <1>35, <1>36, <1>37, <1>38, <1>39, <1>40, <1>41, <1>42, <1>43
  DEF Next, Call, Step, SoftStep

(* GHD_COMPLETE on a request keeps the types.                              *)
LEMMA CompleteType ==
  ASSUME TypeOK, NEW c \in Cmds, Complete(c)
  PROVE  /\ wq' \in WaitqStates
         /\ state' \in [Cmds -> Elems(CmdStates)]
         /\ timer' \in [Cmds -> TimerStates]
         /\ doneq' \in Seq(Cmds)
         /\ doneqSoft' \in BOOLEAN /\ refused' \in BOOLEAN
         /\ UNCHANGED <<timeoutPending, timerSoft, pollmode, owned>>
<1>1. wq' \in WaitqStates
  BY WaitqDeleteType DEF Complete, TypeOK
<1>2. state' \in [Cmds -> Elems(CmdStates)] /\ timer' \in [Cmds -> TimerStates]
  BY StateNames DEF Complete, TypeOK, TimerStates
<1>3. doneq' \in Seq(Cmds)
  BY AppendProperties DEF Complete, TypeOK
<1>4. doneqSoft' \in BOOLEAN /\ refused' \in BOOLEAN
  BY DEF Complete, TypeOK
<1>. QED
  BY <1>1, <1>2, <1>3, <1>4 DEF Complete

(* Every step keeps the types.                                             *)
LEMMA TypeStep ==
  ASSUME IInv, [Next]_vars
  PROVE  TypeOK'
<1>. USE DEF calls, locks, timers, doneqs, device, ghosts, Goto
<1>1. ASSUME NEW t \in Threads, NEW c \in Cmds, Transport(t, c)
       PROVE  TypeOK'
  BY <1>1, SoftThreads, GhdAssumption
  DEF Transport, IInv, TypeOK, Labels, AllOps, Polled, FirstAction
<1>2. ASSUME NEW t \in Threads, NEW c \in Cmds, Abort(t, c)
       PROVE  TypeOK'
  BY <1>2, SoftThreads, GhdAssumption
  DEF Abort, IInv, TypeOK, Labels, AllOps, Polled, FirstAction
<1>3. ASSUME NEW t \in Threads, NEW c \in Cmds, Reset(t, c)
       PROVE  TypeOK'
  BY <1>3, SoftThreads, GhdAssumption
  DEF Reset, IInv, TypeOK, Labels, AllOps, Polled, FirstAction
<1>4. ASSUME NEW t \in Threads, EnterPolled(t)
       PROVE  TypeOK'
  BY <1>4, SoftThreads, StateNames, GhdAssumption
  DEF EnterPolled, Enter, IInv, TypeOK, Labels
<1>5. ASSUME NEW t \in Threads, EnterAbort(t)
       PROVE  TypeOK'
  <2>1. cmd[t] \in Cmds
    BY <1>5 DEF EnterAbort, IInv, Pointers
  <2>2. frame' \in Frames
    BY <1>5, <2>1, ZenonT(60) DEF EnterAbort, IInv, TypeOK, Frames, Actions
  <2>3. timer' \in [Cmds -> TimerStates]
    BY <1>5, <2>1 DEF EnterAbort, IInv, TypeOK, TimerStates
  <2>4. pc' \in [Threads -> Labels]
    BY <1>5 DEF EnterAbort, Enter, IInv, TypeOK, Labels
  <2>. QED
    BY <2>2, <2>3, <2>4, <1>5, SMTT(30) DEF EnterAbort, Enter, IInv, TypeOK
<1>6. ASSUME NEW t \in Threads, EnterReset(t)
       PROVE  TypeOK'
  <2>1. FirstAction[op[t]] \in Actions
    BY <1>6 DEF EnterReset, FirstAction, Actions
  <2>2. frame' \in Frames
    BY <1>6, <2>1 DEF EnterReset, IInv, TypeOK, Frames
  <2>. QED
    BY <2>2, <1>6 DEF EnterReset, Enter, IInv, TypeOK, Labels
<1>7. ASSUME NEW t \in Threads, TransportEnqueue(t)
       PROVE  TypeOK'
  <2>1. cmd[t] \in Cmds
    BY <1>7 DEF TransportEnqueue, IInv, Pointers
  <2>2. wq' \in WaitqStates
    BY <1>7, <2>1, EnqueueType DEF TransportEnqueue, IInv, TypeOK
  <2>3. state' \in [Cmds -> Elems(CmdStates)] /\ timer' \in [Cmds -> TimerStates]
    BY <1>7, StateNames DEF TransportEnqueue, IInv, TypeOK, TimerStates
  <2>. QED
    BY <2>2, <2>3, <1>7 DEF TransportEnqueue, IInv, TypeOK, Labels
<1>8. ASSUME NEW t \in Threads, TransportTryFails(t)
       PROVE  TypeOK'
  BY <1>8, SoftThreads, GhdAssumption
  DEF TransportTryFails, Return, IInv, TypeOK, Labels
<1>9. ASSUME NEW t \in Threads, TransportTryOk(t)
       PROVE  TypeOK'
  BY <1>9, SoftThreads, StateNames, GhdAssumption
  DEF TransportTryOk, IInv, TypeOK, Labels, Frames, NoFrame, Actions,
      FirstAction
<1>10. ASSUME NEW t \in Threads, WaitqDone(t)
       PROVE  TypeOK'
  <2>1. pc' \in [Threads -> Labels] /\ waitq' \in Threads \cup {NoThread}
    BY <1>10, FrameFields DEF WaitqDone, WaitqReturn, IInv, TypeOK, Labels
  <2>. QED
    BY <2>1, <1>10 DEF WaitqDone, IInv, TypeOK
<1>11. ASSUME NEW t \in Threads, WaitqPop(t)
       PROVE  TypeOK'
  <2>1. wq' \in WaitqStates /\ Head(wq.hbaq) \in Cmds
    BY <1>11, PopHbaType DEF WaitqPop, IInv, TypeOK
  <2>2. frame' \in Frames
    BY <1>11, <2>1 DEF WaitqPop, IInv, TypeOK, Frames
  <2>. QED
    BY <2>1, <2>2, <1>11 DEF WaitqPop, IInv, TypeOK, Labels
<1>12. ASSUME NEW t \in Threads, HbaAccepts(t)
       PROVE  TypeOK'
  <2>1. frame.run \in Cmds
    BY <1>12 DEF HbaAccepts, IInv, Pointers
  <2>2. frame' \in Frames
    BY <1>12 DEF HbaAccepts, IInv, TypeOK, Frames
  <2>3. state' \in [Cmds -> Elems(CmdStates)]
    BY <1>12, <2>1, StateNames DEF HbaAccepts, IInv, TypeOK
  <2>4. pc' \in [Threads -> Labels]
    BY <1>12 DEF HbaAccepts, IInv, TypeOK, Labels
  <2>5. phases' \in 0 .. MaxPhases
    BY <1>12, GhdAssumption DEF HbaAccepts
  <2>. QED
    BY <2>1, <2>2, <2>3, <2>4, <2>5, <1>12 DEF HbaAccepts, IInv, TypeOK
<1>13. ASSUME NEW t \in Threads, HbaFinishesAtOnce(t)
       PROVE  TypeOK'
  <2>1. active \in Cmds
    BY <1>13 DEF HbaFinishesAtOnce, IInv, Pointers
  <2>2. wq' \in WaitqStates /\ state' \in [Cmds -> Elems(CmdStates)]
        /\ timer' \in [Cmds -> TimerStates] /\ doneq' \in Seq(Cmds)
        /\ doneqSoft' \in BOOLEAN /\ refused' \in BOOLEAN
        /\ UNCHANGED <<timeoutPending, timerSoft, pollmode, owned>>
    BY <1>13, <2>1, CompleteType DEF HbaFinishesAtOnce, CompleteActive, IInv
  <2>. QED
    BY <2>2, <1>13 DEF HbaFinishesAtOnce, CompleteActive, IInv, TypeOK, Labels
<1>14. ASSUME NEW t \in Threads, HbaRefuses(t)
       PROVE  TypeOK'
  BY <1>14, SoftThreads, StateNames, GhdAssumption
  DEF HbaRefuses, IInv, TypeOK, Labels
<1>15. ASSUME NEW t \in Threads, WaitqRequeue(t)
       PROVE  TypeOK'
  <2>1. frame.run \in Cmds
    BY <1>15 DEF WaitqRequeue, IInv, Pointers
  <2>2. wq' \in WaitqStates
    BY <1>15, <2>1, RequeueType DEF WaitqRequeue, IInv, TypeOK
  <2>3. pc' \in [Threads -> Labels] /\ waitq' \in Threads \cup {NoThread}
    BY <1>15, FrameFields DEF WaitqRequeue, WaitqReturn, IInv, TypeOK, Labels
  <2>. QED
    BY <2>2, <2>3, <1>15 DEF WaitqRequeue, IInv, TypeOK
<1>16. ASSUME NEW t \in Threads, ReleaseHba(t)
       PROVE  TypeOK'
  BY <1>16, SoftThreads, StateNames, GhdAssumption
  DEF ReleaseHba, IInv, TypeOK, Labels, Frames, NoFrame, Actions, FirstAction
<1>17. ASSUME NEW t \in Threads, ReleaseWaitq(t)
       PROVE  TypeOK'
  BY <1>17, SoftThreads, GhdAssumption
  DEF ReleaseWaitq, Return, IInv, TypeOK, Labels
<1>18. ASSUME NEW t \in Threads, IntrPhase(t)
       PROVE  TypeOK'
  <2>1. pc' \in [Threads -> Labels] /\ frame' \in Frames
    BY <1>18 DEF IntrPhase, StatusProcessed, IInv, TypeOK, Labels, Frames
  <2>. QED
    BY <2>1, <1>18 DEF IntrPhase, IInv, TypeOK
<1>19. ASSUME NEW t \in Threads, IntrComplete(t)
       PROVE  TypeOK'
  <2>1. active \in Cmds
    BY <1>19 DEF IntrComplete, IInv, Pointers
  <2>2. wq' \in WaitqStates /\ state' \in [Cmds -> Elems(CmdStates)]
        /\ timer' \in [Cmds -> TimerStates] /\ doneq' \in Seq(Cmds)
        /\ doneqSoft' \in BOOLEAN /\ refused' \in BOOLEAN
        /\ UNCHANGED <<timeoutPending, timerSoft, pollmode, owned>>
    BY <1>19, <2>1, CompleteType DEF IntrComplete, CompleteActive, IInv
  <2>3. pc' \in [Threads -> Labels] /\ frame' \in Frames
    BY <1>19 DEF IntrComplete, StatusProcessed, IInv, TypeOK, Labels, Frames
  <2>. QED
    BY <2>2, <2>3, <1>19 DEF IntrComplete, CompleteActive, IInv, TypeOK
<1>20. ASSUME NEW t \in Threads, IntrNone(t)
       PROVE  TypeOK'
  BY <1>20, SoftThreads, StateNames, GhdAssumption, ZenonT(60)
  DEF IntrNone, IInv, TypeOK, Labels, Frames, NoFrame, Actions, FirstAction
<1>21. ASSUME NEW t \in Threads, PollDrain(t)
       PROVE  TypeOK'
  <2>. DEFINE mine == op[t] \in Polled \cup {"abort"} /\ cmd[t] \in Elems(doneq)
              back == IF mine THEN Unlink(doneq, cmd[t]) ELSE doneq
  <2>1. back \in Seq(Cmds)
    BY UnlinkType DEF IInv, TypeOK
  <2>2. frame.hold \o back \in Seq(Cmds)
    BY <2>1, FrameFields, ConcatProperties DEF IInv
  <2>3. frame' \in Frames
    <3>1. \E g \in BOOLEAN : frame' = [frame EXCEPT !.hold = frame.hold \o back, !.got = g]
      BY <1>21 DEF PollDrain
    <3>. HIDE DEF back
    <3>. QED
      BY <2>2, <3>1 DEF IInv, TypeOK, Frames
  <2>4. state' \in [Cmds -> Elems(CmdStates)]
    BY <1>21, StateNames DEF PollDrain, IInv, TypeOK
  <2>. QED
    BY <2>3, <2>4, <1>21 DEF PollDrain, IInv, TypeOK, Labels
<1>22. ASSUME NEW t \in Threads, PollGiveUp(t)
       PROVE  TypeOK'
  BY <1>22, SoftThreads, StateNames, GhdAssumption
  DEF PollGiveUp, IInv, TypeOK, Labels
<1>23. ASSUME NEW t \in Threads, PollPut(t)
       PROVE  TypeOK'
  <2>. DEFINE aborted == op[t] = "abort" /\ frame.got
              own == IF aborted THEN <<cmd[t]>> ELSE <<>>
  <2>1. own \in Seq(Cmds)
    BY DEF IInv, Pointers
  <2>2. PutBack(frame.hold, own) \in Seq(Cmds)
    BY <2>1, FrameFields, ConcatProperties DEF IInv, PutBack
  <2>3. doneq' \in Seq(Cmds) /\ doneqSoft' \in BOOLEAN
    BY <1>23, <2>2, ConcatProperties DEF PollPut, IInv, TypeOK
  <2>4. state' \in [Cmds -> Elems(CmdStates)]
    BY <1>23, StateNames DEF PollPut, IInv, TypeOK
  <2>5. frame' \in Frames
    BY <1>23, EmptySeq DEF PollPut, IInv, TypeOK, Frames
  <2>. QED
    BY <2>3, <2>4, <2>5, <1>23 DEF PollPut, IInv, TypeOK, Labels
<1>24. ASSUME NEW t \in Threads, PollmodeExit(t)
       PROVE  TypeOK'
  BY <1>24, SoftThreads, StateNames, GhdAssumption
  DEF PollmodeExit, IInv, TypeOK, Labels
<1>25. ASSUME NEW t \in Threads, PollmodeTrigger(t)
       PROVE  TypeOK'
  BY <1>25, SoftThreads, StateNames, GhdAssumption
  DEF PollmodeTrigger, IInv, TypeOK, Labels, Frames, NoFrame, Actions,
      FirstAction
<1>26. ASSUME NEW t \in Threads, Finish(t)
       PROVE  TypeOK'
  BY <1>26, SoftThreads, GhdAssumption DEF Finish, Return, IInv, TypeOK, Labels
<1>27. ASSUME NEW t \in Threads, TimerNone(t)
       PROVE  TypeOK'
  BY <1>27, SoftThreads, StateNames, GhdAssumption
  DEF TimerNone, IInv, TypeOK, Labels, Frames, NoFrame, Actions, FirstAction
<1>28. ASSUME NEW t \in Threads, TimerGet(t)
       PROVE  TypeOK'
  <2>1. timer' \in [Cmds -> TimerStates]
    BY <1>28 DEF TimerGet, IInv, TypeOK, TimerStates
  <2>2. \A s \in DOMAIN TimeoutAction : TimeoutAction[s] \in Actions
    BY DEF TimeoutAction, Actions
  <2>3. frame' \in Frames
    BY <1>28, <2>2 DEF TimerGet, IInv, TypeOK, Frames
  <2>. QED
    BY <2>1, <2>3, <1>28 DEF TimerGet, IInv, TypeOK, Labels
<1>29. ASSUME NEW t \in Threads, NewstateEarly(t)
       PROVE  TypeOK'
  <2>1. frame.run \in Cmds
    BY <1>29 DEF NewstateEarly, IInv, Pointers
  <2>2. wq' \in WaitqStates /\ state' \in [Cmds -> Elems(CmdStates)]
        /\ timer' \in [Cmds -> TimerStates] /\ doneq' \in Seq(Cmds)
        /\ doneqSoft' \in BOOLEAN /\ refused' \in BOOLEAN
        /\ UNCHANGED <<timeoutPending, timerSoft, pollmode, owned>>
    BY <1>29, <2>1, CompleteType DEF NewstateEarly, IInv
  <2>3. pc' \in [Threads -> Labels]
    BY <1>29, FrameFields DEF NewstateEarly, IInv, TypeOK, Labels
  <2>. QED
    BY <2>2, <2>3, <1>29 DEF NewstateEarly, IInv, TypeOK
<1>30. ASSUME NEW t \in Threads, NewstateCannot(t)
       PROVE  TypeOK'
  <2>1. \A a \in Actions : NextAction[a] \in Actions /\ NextState[a] \in Elems(CmdStates)
    BY StateNames DEF NextAction, NextState, Actions
  <2>2. frame' \in Frames
    BY <1>30, <2>1 DEF NewstateCannot, IInv, TypeOK, Frames
  <2>3. state' \in [Cmds -> Elems(CmdStates)]
    BY <1>30, <2>1, FrameFields DEF NewstateCannot, IInv, TypeOK
  <2>. QED
    BY <2>2, <2>3, <1>30 DEF NewstateCannot, IInv, TypeOK
<1>31. ASSUME NEW t \in Threads, NewstateReset(t)
       PROVE  TypeOK'
  <2>1. active \in Cmds /\ frame.run \in Cmds
    BY <1>31, FrameFields DEF NewstateReset, IInv, TypeOK
  <2>2. wq' \in WaitqStates
    BY <1>31, <2>1, WaitqDeleteType DEF NewstateReset, IInv, TypeOK
  <2>3. doneq' \in Seq(Cmds)
    BY <1>31, <2>1, AppendProperties DEF NewstateReset, IInv, TypeOK
  <2>4. timer' \in [Cmds -> TimerStates]
    BY <1>31, <2>1 DEF NewstateReset, IInv, TypeOK, TimerStates
  <2>5. state' \in [Cmds -> Elems(CmdStates)]
    BY <1>31, <2>1, StateNames
    DEF NewstateReset, NextState, RaiseStates, IInv, TypeOK
  <2>6. pc' \in [Threads -> Labels] /\ doneqSoft' \in BOOLEAN
    BY <1>31, FrameFields DEF NewstateReset, IInv, TypeOK, Labels
  <2>. QED
    BY <2>2, <2>3, <2>4, <2>5, <2>6, <1>31 DEF NewstateReset, IInv, TypeOK
<1>32. ASSUME NEW t \in Threads, NewstateHung(t)
       PROVE  TypeOK'
  <2>1. state' \in [Cmds -> Elems(CmdStates)]
    BY <1>32, StateNames, FrameFields DEF NewstateHung, NextState, IInv, TypeOK
  <2>2. timer' \in [Cmds -> TimerStates]
    BY <1>32, FrameFields DEF NewstateHung, IInv, TypeOK, TimerStates
  <2>3. pc' \in [Threads -> Labels]
    BY <1>32, FrameFields DEF NewstateHung, IInv, TypeOK, Labels
  <2>. QED
    BY <2>1, <2>2, <2>3, <1>32 DEF NewstateHung, IInv, TypeOK
<1>33. ASSUME IntrReturn
       PROVE  TypeOK'
  <2>1. pc' \in [Threads -> Labels]
    BY <1>33 DEF IntrReturn, IInv, TypeOK, Labels
  <2>2. frame' \in Frames
    BY <1>33, NoFrameType DEF IntrReturn, IInv, TypeOK, Frames
  <2>. QED
    BY <2>1, <2>2, <1>33, SoftThreads DEF IntrReturn, IInv, TypeOK
<1>34. ASSUME DoneqBegin
       PROVE  TypeOK'
  BY <1>34, SoftThreads, StateNames, GhdAssumption
  DEF DoneqBegin, IInv, TypeOK, Labels
<1>35. ASSUME DoneqGet
       PROVE  TypeOK'
  <2>1. pc' \in [Threads -> Labels]
    BY <1>35 DEF DoneqGet, IInv, TypeOK, Labels
  <2>2. CASE pollmode \/ doneq = <<>>
    BY <2>1, <2>2, <1>35 DEF DoneqGet, IInv, TypeOK
  <2>3. CASE ~(pollmode \/ doneq = <<>>)
    <3>1. Head(doneq) \in Cmds /\ Tail(doneq) \in Seq(Cmds)
      BY <2>3, HeadTailProperties DEF IInv, TypeOK
    <3>. QED
      BY <2>1, <2>3, <3>1, <1>35 DEF DoneqGet, IInv, TypeOK
  <2>. QED
    BY <2>2, <2>3
<1>36. ASSUME DoneqCall
       PROVE  TypeOK'
  <2>1. cmd[DoneqSoft] \in Cmds
    BY <1>36 DEF DoneqCall, IInv, Pointers
  <2>. QED
    BY <2>1, <1>36, StateNames, SoftThreads DEF DoneqCall, IInv, TypeOK, Labels
<1>37. ASSUME TimerBegin
       PROVE  TypeOK'
  BY <1>37, SoftThreads, StateNames, GhdAssumption
  DEF TimerBegin, IInv, TypeOK, Labels
<1>38. ASSUME TimerEnter
       PROVE  TypeOK'
  BY <1>38, SoftThreads, StateNames, GhdAssumption
  DEF TimerEnter, IInv, TypeOK, Labels
<1>39. ASSUME IntrEnter
       PROVE  TypeOK'
  BY <1>39, SoftThreads, StateNames, GhdAssumption
  DEF IntrEnter, IInv, TypeOK, Labels
<1>40. ASSUME GhdTimeout
       PROVE  TypeOK'
  BY <1>40, SoftThreads, StateNames, GhdAssumption
  DEF GhdTimeout, IInv, TypeOK, Labels
<1>41. ASSUME DeviceInterrupt
       PROVE  TypeOK'
  BY <1>41, SoftThreads, StateNames, GhdAssumption
  DEF DeviceInterrupt, IInv, TypeOK, Labels
<1>42. ASSUME NEW c \in Cmds, Expire(c)
       PROVE  TypeOK'
  <2>1. timer' \in [Cmds -> TimerStates]
    BY <1>42 DEF Expire, IInv, TypeOK, TimerStates
  <2>. QED
    BY <2>1, <1>42 DEF Expire, IInv, TypeOK
<1>43. ASSUME UNCHANGED vars
       PROVE  TypeOK'
  BY <1>43 DEF vars, IInv, TypeOK, Labels
<1>. QED
  BY <1>1, <1>2, <1>3, <1>4, <1>5, <1>6, <1>7, <1>8, <1>9, <1>10, <1>11, <1>12,
     <1>13, <1>14, <1>15, <1>16, <1>17, <1>18, <1>19, <1>20, <1>21, <1>22,
     <1>23, <1>24, <1>25, <1>26, <1>27, <1>28, <1>29, <1>30, <1>31, <1>32,
     <1>33, <1>34, <1>35, <1>36, <1>37, <1>38, <1>39, <1>40, <1>41, <1>42, <1>43
  DEF Next, Call, Step, SoftStep

-----------------------------------------------------------------------------
(* The queues start well-formed,                                           *)
LEMMA EmptyWaitqType ==
  EmptyWaitq \in WaitqStates
BY EmptySeq DEF EmptyWaitq, WaitqStates

(* and the invariant holds initially.                                      *)
LEMMA InitIInv ==
  Init => IInv
<1>. SUFFICES ASSUME Init PROVE IInv
  OBVIOUS
<1>1. frame \in Frames
  BY NoFrameType DEF Init
<1>2. TypeOK
  <2>1. state \in [Cmds -> Elems(CmdStates)]
    BY StateNames DEF Init
  <2>2. wq \in WaitqStates /\ doneq \in Seq(Cmds)
    BY EmptyWaitqType, EmptySeq DEF Init
  <2>3. phases \in 0 .. MaxPhases
    BY GhdAssumption DEF Init
  <2>4. /\ pc \in [Threads -> Labels]
        /\ op \in [Threads -> {"none"} \cup AllOps]
        /\ timer \in [Cmds -> TimerStates]
    BY DEF Init, Labels, TimerStates
  <2>. QED
    BY <1>1, <2>1, <2>2, <2>3, <2>4 DEF Init, TypeOK
<1>3. Owners /\ Pointers
  BY SoftThreads DEF Init, Owners, Pointers, HbaLabels, WaitqLabels
<1>4. Settled
  BY DEF Init, Settled, CanStart, EmptyWaitq
<1>. QED
  BY <1>2, <1>3, <1>4 DEF IInv

(* IInv holds in every reachable state, for any number of requests,        *)
(* devices and clients, any throttles and any set of operations.           *)
THEOREM IInvAlways ==
  Spec => []IInv
<1>1. Init => IInv
  BY InitIInv
<1>2. IInv /\ [Next]_vars => IInv'
  <2>. SUFFICES ASSUME IInv, [Next]_vars PROVE IInv'
    OBVIOUS
  <2>. QED
    BY TypeStep, OwnersStep, PointersStep, SettledStep DEF IInv
<1>. QED
  BY <1>1, <1>2, PTL DEF Spec

(* Type correctness of the model: the pointers the framework follows       *)
(* (the request of a call, the popped request, the active one) never are   *)
(* NULL where it dereferences them, or a step would leave the types.       *)
THEOREM TypeCorrect ==
  Spec => []TypeOK
<1>1. IInv => TypeOK
  BY DEF IInv
<1>. QED
  BY <1>1, IInvAlways, PTL

(* Releasing the HBA mutex before the waitq mutex                          *)
(* (sol11ghd_waitq_process_and_mutex_exit, sol11ghd_intr) is enough for    *)
(* mutex_tryenter in sol11ghd_transport never to strand a request.         *)
THEOREM NeverStranded ==
  Spec => []NoStranded
<1>1. IInv => NoStranded
  BY DEF IInv, Settled, Released, NoStranded
<1>. QED
  BY <1>1, IInvAlways, PTL

(* The sections under ccc_hba_mutex exclude each other: interrupts, polls, *)
(* timeouts and starts of requests never overlap on one adapter, and the   *)
(* same for the sections under ccc_waitq_mutex.                            *)
THEOREM MutualExclusion ==
  Spec => [](\A t, u \in Threads :
               t # u => /\ ~(pc[t] \in HbaLabels /\ pc[u] \in HbaLabels)
                        /\ ~(pc[t] \in WaitqLabels /\ pc[u] \in WaitqLabels))
<1>1. IInv => \A t, u \in Threads :
        t # u => /\ ~(pc[t] \in HbaLabels /\ pc[u] \in HbaLabels)
                 /\ ~(pc[t] \in WaitqLabels /\ pc[u] \in WaitqLabels)
  BY DEF IInv, Owners
<1>. QED
  BY <1>1, IInvAlways, PTL
=============================================================================
