------------------------- MODULE FlowControl_proofs -------------------------
(***************************************************************************)
(* Proofs about module FlowControl, for any number of transfers and        *)
(* threads and any throttle: the inductive invariant, with it that the     *)
(* throttle counts exactly, and that no transfer waits unattended.         *)
(***************************************************************************)
EXTENDS FlowControl, TLAPS, FiniteSetTheorems, SequenceTheorems

-----------------------------------------------------------------------------
(* The queue.                                                              *)

(* qfifo adds at the end.                                                  *)
LEMMA AppendFacts ==
  ASSUME NEW s \in Seq(Bufs), NEW b \in Bufs
  PROVE  /\ Append(s, b) \in Seq(Bufs)
         /\ DOMAIN s = 1 .. Len(s) /\ Len(s) \in Nat
         /\ DOMAIN Append(s, b) = 1 .. Len(s) + 1
         /\ \A i \in 1 .. Len(s) : Append(s, b)[i] = s[i]
         /\ Append(s, b)[Len(s) + 1] = b
BY AppendProperties, LenProperties

(* qfifo takes from the front.                                             *)
LEMMA TailFacts ==
  ASSUME NEW s \in Seq(Bufs), s # <<>>
  PROVE  /\ Head(s) = s[1] /\ Head(s) \in Bufs /\ Tail(s) \in Seq(Bufs)
         /\ DOMAIN s = 1 .. Len(s) /\ Len(s) \in Nat \ {0}
         /\ DOMAIN Tail(s) = 1 .. Len(s) - 1
         /\ \A i \in 1 .. Len(s) - 1 : Tail(s)[i] = s[i + 1]
<1>1. Len(s) \in Nat \ {0} /\ DOMAIN s = 1 .. Len(s) /\ Head(s) = s[1]
  BY EmptySeq, LenProperties
<1>2. /\ Head(s) \in Bufs /\ Tail(s) \in Seq(Bufs) /\ Len(Tail(s)) = Len(s) - 1
      /\ \A i \in 1 .. Len(Tail(s)) : Tail(s)[i] = s[i + 1]
  BY HeadTailProperties
<1>3. DOMAIN Tail(s) = 1 .. Len(Tail(s))
  BY <1>2, LenProperties
<1>. QED
  BY <1>1, <1>2, <1>3

(* The transfers of a queue are distinct, not with the driver, and not b.  *)
Fit(q, b) ==
  /\ q \in Seq(Bufs)
  /\ \A i \in DOMAIN q : q[i] \in owned \ sent /\ q[i] # b
  /\ \A i, j \in DOMAIN q : i # j => q[i] # q[j]
In(x, q) == \E i \in DOMAIN q : q[i] = x

(* Taking the head off such a queue: it is not in the rest.                *)
LEMMA TakeHead ==
  ASSUME NEW q, NEW b, Fit(q, b), q # <<>>
  PROVE  /\ Head(q) \in (Bufs \cap owned) \ sent /\ Head(q) # b
         /\ Fit(Tail(q), Head(q))
         /\ \A x : In(x, q) <=> x = Head(q) \/ In(x, Tail(q))
<1>1. /\ Head(q) = q[1] /\ Head(q) \in Bufs /\ Tail(q) \in Seq(Bufs)
      /\ DOMAIN q = 1 .. Len(q) /\ Len(q) \in Nat \ {0}
      /\ DOMAIN Tail(q) = 1 .. Len(q) - 1
      /\ \A i \in 1 .. Len(q) - 1 : Tail(q)[i] = q[i + 1]
  BY TailFacts DEF Fit
<1>2. 1 \in DOMAIN q
  BY <1>1
<1>3. Head(q) \in (Bufs \cap owned) \ sent /\ Head(q) # b
  BY <1>1, <1>2 DEF Fit
<1>4. \A i \in DOMAIN Tail(q) : i + 1 \in DOMAIN q /\ i + 1 # 1 /\ Tail(q)[i] = q[i + 1]
  BY <1>1
<1>5. Fit(Tail(q), Head(q))
  <2>1. \A i \in DOMAIN Tail(q) : Tail(q)[i] \in owned \ sent /\ Tail(q)[i] # Head(q)
    BY <1>1, <1>2, <1>4 DEF Fit
  <2>2. \A i, j \in DOMAIN Tail(q) : i # j => Tail(q)[i] # Tail(q)[j]
    <3>. SUFFICES ASSUME NEW i \in DOMAIN Tail(q), NEW j \in DOMAIN Tail(q), i # j
                  PROVE  Tail(q)[i] # Tail(q)[j]
      OBVIOUS
    <3>1. i + 1 # j + 1
      BY <1>1
    <3>. QED
      BY <3>1, <1>4 DEF Fit
  <2>. QED
    BY <1>1, <2>1, <2>2 DEF Fit
<1>6. ASSUME NEW x PROVE In(x, q) <=> x = Head(q) \/ In(x, Tail(q))
  <2>1. In(x, Tail(q)) => In(x, q)
    BY <1>4 DEF In
  <2>2. In(Head(q), q)
    BY <1>1, <1>2 DEF In
  <2>3. ASSUME NEW i \in DOMAIN q, q[i] = x, i # 1 PROVE In(x, Tail(q))
    <3>1. i - 1 \in DOMAIN Tail(q) /\ Tail(q)[i - 1] = q[i]
      BY <2>3, <1>1
    <3>. QED
      BY <3>1, <2>3 DEF In
  <2>. QED
    BY <2>1, <2>2, <2>3, <1>1 DEF In
<1>. QED
  BY <1>3, <1>5, <1>6

(* What a turn of the loop of dmult_deque takes in hand, and leaves.       *)
LEMMA TakeNext ==
  ASSUME TypeOK, Apart, NextBp # NoBuf
  PROVE  /\ NextBp \in (Bufs \cap owned) \ sent /\ Queued(NextBp)
         /\ Fit(Rest, NextBp)
         /\ \A x \in Bufs : Queued(x) <=> x = NextBp \/ In(x, Rest)
<1>1. Fit(queue, ds_bp)
  BY DEF TypeOK, Apart, Fit
<1>2. CASE ds_bp # NoBuf
  BY <1>1, <1>2 DEF NextBp, Rest, TypeOK, Apart, Queued, In
<1>3. CASE ds_bp = NoBuf
  <2>1. queue # <<>> /\ NextBp = Head(queue) /\ Rest = Tail(queue)
    BY <1>3 DEF NextBp, Rest
  <2>2. /\ Head(queue) \in (Bufs \cap owned) \ sent
        /\ Fit(Tail(queue), Head(queue))
        /\ \A x : In(x, queue) <=> x = Head(queue) \/ In(x, Tail(queue))
    BY <1>1, <2>1, TakeHead
  <2>3. \A x \in Bufs : Queued(x) <=> In(x, queue)
    BY <1>3, FlowAssumption DEF Queued, In
  <2>. QED
    BY <2>1, <2>2, <2>3
<1>. QED
  BY <1>2, <1>3

-----------------------------------------------------------------------------
(* The throttle's count.                                                   *)

(* Which transfers are released.                                           *)
LEMMA OutMembers ==
  \A x : x \in Out <=>
    \/ x \in sent
    \/ \E t \in Threads : pc[t] \in {"en_send", "de_send"} /\ bp[t] = x
    \/ \E t \in Threads : pc[t] = "de_lock" /\ in_bp[t] = x /\ x # NoBuf
BY DEF Out

LEMMA OutFinite ==
  ASSUME TypeOK, Handed
  PROVE  Out \subseteq Bufs /\ IsFiniteSet(Out) /\ Cardinality(Out) \in Nat
<1>1. Out \subseteq Bufs
  BY OutMembers DEF TypeOK, Handed
<1>. QED
  BY <1>1, FlowAssumption, FS_Subset, FS_CardinalityType

(* The count stays exact if nothing is released or counted off,            *)
LEMMA CountSame ==
  ASSUME OutcntExact, Out' = Out, ds_outcnt' = ds_outcnt
  PROVE  OutcntExact'
BY DEF OutcntExact

(* if one transfer is released that was not, below the throttle,           *)
LEMMA CountMore ==
  ASSUME TypeOK, Handed, OutcntExact, NEW b, b \notin Out, Out' = Out \cup {b},
         ds_outcnt < MaxCnt, ds_outcnt' = ds_outcnt + 1
  PROVE  OutcntExact'
<1>1. IsFiniteSet(Out)
  BY OutFinite
<1>2. Cardinality(Out') = Cardinality(Out) + 1
  BY <1>1, FS_AddElement
<1>3. MaxCnt \in Nat /\ ds_outcnt \in Nat
  BY FlowAssumption DEF TypeOK
<1>. QED
  BY <1>2, <1>3 DEF OutcntExact

(* and if one is counted off that was released.                            *)
LEMMA CountLess ==
  ASSUME TypeOK, Handed, OutcntExact, NEW b, b \in Out, Out' = Out \ {b},
         ds_outcnt' = ds_outcnt - 1
  PROVE  OutcntExact' /\ ds_outcnt' \in Nat
<1>1. IsFiniteSet(Out) /\ Cardinality(Out) \in Nat
  BY OutFinite
<1>2. Cardinality(Out') = Cardinality(Out) - 1 /\ Cardinality(Out') \in Nat
  BY <1>1, FS_RemoveElement, FS_CardinalityType
<1>3. MaxCnt \in Nat /\ ds_outcnt \in Nat
  BY FlowAssumption DEF TypeOK
<1>. QED
  BY <1>2, <1>3 DEF OutcntExact

LEMMA OutMembersNext ==
  \A x : x \in Out' <=>
    \/ x \in sent'
    \/ \E t \in Threads : pc'[t] \in {"en_send", "de_send"} /\ bp'[t] = x
    \/ \E t \in Threads : pc'[t] = "de_lock" /\ in_bp'[t] = x /\ x # NoBuf
BY DEF Out

-----------------------------------------------------------------------------
(* Every action keeps the invariant.                                       *)

LEMMA EnqueKeeps ==
  ASSUME IInv, NEW t \in Threads, NEW b \in Bufs, Enque(t, b)
  PROVE  IInv' /\ Out' = Out
<1>. USE FlowAssumption DEF IInv
<1>1. TypeOK' /\ Locked' /\ Handed'
  BY DEF Enque, Goto, flow, TypeOK, Labels, Locked, Handed, Threads
<1>2. Apart'
  BY DEF Enque, Goto, flow, TypeOK, Handed, Apart, Queued
<1>3. OutcntExact' /\ Out' = Out
  <2>1. ASSUME NEW x PROVE x \in Out' <=> x \in Out
    BY OutMembers, OutMembersNext DEF Enque, Goto, flow, TypeOK, Handed, Apart
  <2>2. ds_outcnt' = ds_outcnt
    BY DEF Enque, Goto, flow
  <2>. QED
    BY <2>1, <2>2, CountSame
<1>6. InOrder'
  BY DEF Enque, Goto, flow, TypeOK, Locked, Handed, InOrder
<1>. QED
  BY <1>1, <1>2, <1>3, <1>6

LEMMA IoDoneKeeps ==
  ASSUME IInv, NEW t \in Threads, NEW b \in Bufs, IoDone(t, b)
  PROVE  IInv' /\ Out' = Out
<1>. USE FlowAssumption DEF IInv
<1>1. TypeOK' /\ Locked' /\ Handed'
  BY DEF IoDone, Goto, flow, TypeOK, Labels, Locked, Handed, Threads
<1>2. Apart'
  BY DEF IoDone, Goto, flow, TypeOK, Handed, Apart, Queued
<1>3. OutcntExact' /\ Out' = Out
  <2>1. ASSUME NEW x PROVE x \in Out' <=> x \in Out
    BY OutMembers, OutMembersNext DEF IoDone, Goto, flow, TypeOK, Handed, Apart
  <2>2. ds_outcnt' = ds_outcnt
    BY DEF IoDone, Goto, flow
  <2>. QED
    BY <2>1, <2>2, CountSame
<1>6. InOrder'
  BY DEF IoDone, Goto, flow, TypeOK, Locked, Handed, InOrder
<1>. QED
  BY <1>1, <1>2, <1>3, <1>6

LEMMA EnqueLockKeeps ==
  ASSUME IInv, NEW t \in Threads, EnqueLock(t)
  PROVE  IInv' /\ Out' = Out
<1>. USE FlowAssumption DEF IInv
<1>1. TypeOK' /\ Locked' /\ Handed'
  BY DEF EnqueLock, Goto, TypeOK, Labels, Locked, Handed, Threads
<1>2. Apart'
  BY DEF EnqueLock, Goto, TypeOK, Handed, Apart, Queued
<1>3. OutcntExact' /\ Out' = Out
  <2>1. ASSUME NEW x PROVE x \in Out' <=> x \in Out
    BY OutMembers, OutMembersNext DEF EnqueLock, Goto, TypeOK, Handed, Apart
  <2>2. ds_outcnt' = ds_outcnt
    BY DEF EnqueLock, Goto
  <2>. QED
    BY <2>1, <2>2, CountSame
<1>6. InOrder'
  BY DEF EnqueLock, Goto, TypeOK, Locked, Handed, InOrder
<1>. QED
  BY <1>1, <1>2, <1>3, <1>6

LEMMA EnqueQueueKeeps ==
  ASSUME IInv, NEW t \in Threads, EnqueQueue(t)
  PROVE  IInv' /\ Out' = Out
<1>. USE FlowAssumption DEF IInv
<1>1. TypeOK' /\ Locked' /\ Handed'
  BY AppendFacts DEF EnqueQueue, Goto, Unlock, MustWait, TypeOK, Labels, Locked, Handed, Threads
<1>2. Apart'
  BY AppendFacts DEF EnqueQueue, Goto, Unlock, MustWait, TypeOK, Handed, Apart, Queued
<1>3. OutcntExact' /\ Out' = Out
  <2>1. ASSUME NEW x PROVE x \in Out' <=> x \in Out
    BY OutMembers, OutMembersNext DEF EnqueQueue, Goto, Unlock, MustWait, TypeOK, Handed, Apart
  <2>2. ds_outcnt' = ds_outcnt
    BY DEF EnqueQueue, Goto, Unlock, MustWait
  <2>. QED
    BY <2>1, <2>2, CountSame
<1>6. InOrder'
  BY DEF EnqueQueue, Goto, Unlock, MustWait, TypeOK, Locked, Handed, InOrder
<1>. QED
  BY <1>1, <1>2, <1>3, <1>6

LEMMA EnqueSendKeeps ==
  ASSUME IInv, NEW t \in Threads, EnqueSend(t)
  PROVE  IInv' /\ Out' = Out \cup {in_bp[t]}
<1>. USE FlowAssumption DEF IInv
<1>1. TypeOK' /\ Locked' /\ Handed'
  <2>1. in_bp[t] \in Bufs /\ t \in Callers /\ t # NoThread /\ ds_mutex = t
    BY DEF EnqueSend, TypeOK, Locked, Handed
  <2>2. TypeOK'
    <3>1. callback' \in BOOLEAN
      BY DEF EnqueSend, PktOk, TypeOK
    <3>2. ds_outcnt' \in Nat
      BY DEF EnqueSend, TypeOK
    <3>. QED
      BY <2>1, <3>1, <3>2 DEF EnqueSend, Goto, Unlock, PktOk, TypeOK, Labels
  <2>3. Locked'
    BY <2>1 DEF EnqueSend, Goto, Unlock, TypeOK, Locked
  <2>4. Handed'
    BY <2>1 DEF EnqueSend, Goto, TypeOK, Handed
  <2>. QED
    BY <2>2, <2>3, <2>4
<1>2. Apart'
  BY DEF EnqueSend, Goto, Unlock, MustWait, PktOk, TypeOK, Handed, Apart, Queued
<1>3. OutcntExact' /\ Out' = Out \cup {in_bp[t]}
  <2>1. in_bp[t] \notin Out
    BY OutMembers DEF EnqueSend, Goto, Unlock, MustWait, PktOk, TypeOK, Handed, Apart
  <2>2. ASSUME NEW x PROVE x \in Out' <=> x \in Out \cup {in_bp[t]}
    BY OutMembers, OutMembersNext DEF EnqueSend, Goto, Unlock, MustWait, PktOk, TypeOK, Handed, Apart
  <2>3. ds_outcnt < MaxCnt /\ ds_outcnt' = ds_outcnt + 1
    BY DEF EnqueSend, Goto, Unlock, MustWait, PktOk, TypeOK
  <2>. QED
    BY <2>1, <2>2, <2>3, CountMore
<1>6. InOrder'
  BY DEF EnqueSend, Goto, Unlock, MustWait, TypeOK, Locked, Handed, InOrder
<1>. QED
  BY <1>1, <1>2, <1>3, <1>6

LEMMA EnqueRefusedKeeps ==
  ASSUME IInv, NEW t \in Threads, EnqueRefused(t)
  PROVE  IInv' /\ Out' = Out
<1>. USE FlowAssumption DEF IInv
<1>1. TypeOK' /\ Locked' /\ Handed'
  BY DEF EnqueRefused, Goto, Unlock, MustWait, PktFails, TypeOK, Labels, Locked, Handed, Threads
<1>2. Apart'
  BY DEF EnqueRefused, Goto, Unlock, MustWait, PktFails, TypeOK, Handed, Apart, Queued
<1>3. OutcntExact' /\ Out' = Out
  <2>1. ASSUME NEW x PROVE x \in Out' <=> x \in Out
    BY OutMembers, OutMembersNext DEF EnqueRefused, Goto, Unlock, MustWait, PktFails, TypeOK, Handed, Apart
  <2>2. ds_outcnt' = ds_outcnt
    BY DEF EnqueRefused, Goto, Unlock, MustWait, PktFails
  <2>. QED
    BY <2>1, <2>2, CountSame
<1>6. InOrder'
  BY DEF EnqueRefused, Goto, Unlock, MustWait, TypeOK, Locked, Handed, InOrder
<1>. QED
  BY <1>1, <1>2, <1>3, <1>6

LEMMA TransportKeeps ==
  ASSUME IInv, NEW t \in Threads, Transport(t)
  PROVE  IInv' /\ Out' = Out
<1>. USE FlowAssumption DEF IInv
<1>1. TypeOK' /\ Locked' /\ Handed'
  BY DEF Transport, Goto, flow, TypeOK, Labels, Locked, Handed, Threads
<1>2. Apart'
  BY DEF Transport, Goto, flow, TypeOK, Handed, Apart, Queued
<1>3. OutcntExact' /\ Out' = Out
  <2>1. ASSUME NEW x PROVE x \in Out' <=> x \in Out
    BY OutMembers, OutMembersNext DEF Transport, Goto, flow, TypeOK, Handed, Apart
  <2>2. ds_outcnt' = ds_outcnt
    BY DEF Transport, Goto, flow
  <2>. QED
    BY <2>1, <2>2, CountSame
<1>6. InOrder'
  BY DEF Transport, Goto, flow, TypeOK, Locked, Handed, InOrder
<1>. QED
  BY <1>1, <1>2, <1>3, <1>6

LEMMA DequeLockKeeps ==
  ASSUME IInv, NEW t \in Threads, DequeLock(t)
  PROVE  IInv' /\ Out' = Out \ {in_bp[t]} /\ (in_bp[t] # NoBuf => in_bp[t] \in Out)
<1>. USE FlowAssumption DEF IInv
<1>. HIDE DEF IInv
<1>3. /\ OutcntExact' /\ ds_outcnt' \in Nat /\ Out' = Out \ {in_bp[t]}
      /\ in_bp[t] # NoBuf => in_bp[t] \in Out
  <2>. USE DEF IInv
  <2>1. CASE in_bp[t] = NoBuf
    <3>1. ASSUME NEW x PROVE x \in Out' <=> x \in Out
      BY <2>1, OutMembers, OutMembersNext DEF DequeLock, Goto, TypeOK, Handed
    <3>2. ds_outcnt' = ds_outcnt
      BY <2>1 DEF DequeLock
    <3>. QED
      BY <2>1, <3>1, <3>2, CountSame, OutFinite DEF TypeOK
  <2>2. CASE in_bp[t] # NoBuf
    <3>1. in_bp[t] \in Out
      BY <2>2, OutMembers DEF DequeLock
    <3>2. ASSUME NEW x PROVE x \in Out' <=> x \in Out \ {in_bp[t]}
      BY <2>2, OutMembers, OutMembersNext DEF DequeLock, Goto, TypeOK, Handed, Apart
    <3>3. ds_outcnt' = ds_outcnt - 1
      BY <2>2 DEF DequeLock
    <3>. QED
      BY <3>1, <3>2, <3>3, CountLess
  <2>. QED
    BY <2>1, <2>2
<1>. USE DEF IInv
<1>1. TypeOK' /\ Locked' /\ Handed'
  BY <1>3 DEF DequeLock, Goto, TypeOK, Labels, Locked, Handed, Threads
<1>2. Apart'
  BY DEF DequeLock, Goto, TypeOK, Handed, Apart, Queued
<1>6. InOrder'
  BY DEF DequeLock, Goto, TypeOK, Locked, Handed, InOrder
<1>. QED
  BY <1>1, <1>2, <1>3, <1>6

LEMMA DequeNothingKeeps ==
  ASSUME IInv, NEW t \in Threads, DequeNothing(t)
  PROVE  IInv' /\ Out' = Out
<1>. USE FlowAssumption DEF IInv
<1>1. TypeOK' /\ Locked' /\ Handed'
  BY DEF DequeNothing, Goto, Unlock, TypeOK, Labels, Locked, Handed, Threads
<1>2. Apart'
  BY DEF DequeNothing, Goto, Unlock, TypeOK, Handed, Apart, Queued
<1>3. OutcntExact' /\ Out' = Out
  <2>1. ASSUME NEW x PROVE x \in Out' <=> x \in Out
    BY OutMembers, OutMembersNext DEF DequeNothing, Goto, Unlock, TypeOK, Handed, Apart
  <2>2. ds_outcnt' = ds_outcnt
    BY DEF DequeNothing, Goto, Unlock
  <2>. QED
    BY <2>1, <2>2, CountSame
<1>6. InOrder'
  BY DEF DequeNothing, Goto, Unlock, NextBp, TypeOK, Locked, Handed, InOrder
<1>. QED
  BY <1>1, <1>2, <1>3, <1>6

LEMMA DequeRefusedKeeps ==
  ASSUME IInv, NEW t \in Threads, DequeRefused(t)
  PROVE  IInv' /\ Out' = Out
<1>. USE FlowAssumption DEF IInv
<1>4. /\ NextBp \in (Bufs \cap owned) \ sent /\ Queued(NextBp)
      /\ Fit(Rest, NextBp)
      /\ \A x \in Bufs : Queued(x) <=> x = NextBp \/ In(x, Rest)
  BY TakeNext DEF DequeRefused
<1>1. TypeOK' /\ Locked' /\ Handed'
  BY <1>4 DEF DequeRefused, Goto, Unlock, PktFails, Fit, TypeOK, Labels, Locked, Handed, Threads
<1>2. Apart'
  BY <1>4, SMTT(30) DEF DequeRefused, Goto, Unlock, PktFails, Fit, In, TypeOK, Handed, Apart, Queued
<1>3. OutcntExact' /\ Out' = Out
  <2>1. ASSUME NEW x PROVE x \in Out' <=> x \in Out
    BY OutMembers, OutMembersNext DEF DequeRefused, Goto, Unlock, PktFails, TypeOK, Handed, Apart
  <2>2. ds_outcnt' = ds_outcnt
    BY DEF DequeRefused, Goto, Unlock, PktFails
  <2>. QED
    BY <2>1, <2>2, CountSame
<1>6. InOrder'
  BY <1>4 DEF DequeRefused, Goto, Unlock, TypeOK, Locked, Handed, InOrder
<1>. QED
  BY <1>1, <1>2, <1>3, <1>6

LEMMA DequeFullKeeps ==
  ASSUME IInv, NEW t \in Threads, DequeFull(t)
  PROVE  IInv' /\ Out' = Out
<1>. USE FlowAssumption DEF IInv
<1>4. /\ NextBp \in (Bufs \cap owned) \ sent /\ Queued(NextBp)
      /\ Fit(Rest, NextBp)
      /\ \A x \in Bufs : Queued(x) <=> x = NextBp \/ In(x, Rest)
  BY TakeNext DEF DequeFull
<1>1. TypeOK' /\ Locked' /\ Handed'
  BY <1>4 DEF DequeFull, Goto, Unlock, PktOk, Fit, TypeOK, Labels, Locked, Handed, Threads
<1>2. Apart'
  BY <1>4, SMTT(30) DEF DequeFull, Goto, Unlock, PktOk, Fit, In, TypeOK, Handed, Apart, Queued
<1>3. OutcntExact' /\ Out' = Out
  <2>1. ASSUME NEW x PROVE x \in Out' <=> x \in Out
    BY OutMembers, OutMembersNext DEF DequeFull, Goto, Unlock, PktOk, TypeOK, Handed, Apart
  <2>2. ds_outcnt' = ds_outcnt
    BY DEF DequeFull, Goto, Unlock, PktOk
  <2>. QED
    BY <2>1, <2>2, CountSame
<1>6. InOrder'
  BY <1>4 DEF DequeFull, Goto, Unlock, Throttled, TypeOK, Locked, Handed, InOrder
<1>. QED
  BY <1>1, <1>2, <1>3, <1>6

LEMMA DequeSendKeeps ==
  ASSUME IInv, NEW t \in Threads, DequeSend(t)
  PROVE  IInv' /\ Out' = Out \cup {NextBp}
<1>. USE FlowAssumption DEF IInv
<1>4. /\ NextBp \in (Bufs \cap owned) \ sent /\ Queued(NextBp)
      /\ Fit(Rest, NextBp)
      /\ \A x \in Bufs : Queued(x) <=> x = NextBp \/ In(x, Rest)
  BY TakeNext DEF DequeSend
<1>5. /\ ds_bp' \in Bufs \cup {NoBuf}
      /\ ds_bp' # NoBuf => ds_bp' \in owned \ sent /\ ds_bp' # NextBp
      /\ queue' # <<>> => ds_bp' # NoBuf
      /\ Fit(queue', ds_bp') /\ Fit(queue', NextBp)
      /\ \A x \in Bufs : x = ds_bp' \/ In(x, queue') <=> In(x, Rest)
  <2>1. CASE Rest = <<>>
    BY <1>4, <2>1, EmptySeq DEF DequeSend, Fit, In
  <2>2. CASE Rest # <<>>
    <3>1. /\ Head(Rest) \in (Bufs \cap owned) \ sent /\ Head(Rest) # NextBp
          /\ Fit(Tail(Rest), Head(Rest))
          /\ \A x : In(x, Rest) <=> x = Head(Rest) \/ In(x, Tail(Rest))
      BY <1>4, <2>2, TakeHead
    <3>2. ds_bp' = Head(Rest) /\ queue' = Tail(Rest)
      BY <2>2 DEF DequeSend
    <3>3. Fit(Tail(Rest), NextBp)
      <4>1. \A i \in DOMAIN Tail(Rest) : In(Tail(Rest)[i], Rest)
        BY <3>1 DEF In
      <4>2. \A x : In(x, Rest) => x # NextBp
        BY <1>4 DEF In, Fit
      <4>. QED
        BY <3>1, <4>1, <4>2 DEF Fit
    <3>. QED
      BY <3>1, <3>2, <3>3
  <2>. QED
    BY <2>1, <2>2
<1>1. TypeOK' /\ Locked' /\ Handed'
  <2>1. t \notin Callers /\ t # NoThread /\ ds_mutex = t
    BY DEF DequeSend, TypeOK, Locked, Handed
  <2>2. TypeOK'
    <3>1. callback' \in BOOLEAN
      BY DEF DequeSend, PktOk, TypeOK
    <3>2. ds_outcnt' \in Nat
      BY DEF DequeSend, TypeOK
    <3>. QED
      BY <1>4, <1>5, <3>1, <3>2 DEF DequeSend, Goto, Unlock, PktOk, TypeOK, Labels, Fit
  <2>3. Locked'
    BY <2>1 DEF DequeSend, Goto, Unlock, TypeOK, Locked
  <2>4. Handed'
    BY <1>4, <2>1 DEF DequeSend, Goto, TypeOK, Handed
  <2>. QED
    BY <2>2, <2>3, <2>4
<1>2. Apart'
  <2>1. NextBp # NoBuf /\ \A u \in Threads : in_bp[u] # NextBp /\ bp[u] # NextBp
    BY <1>4 DEF Apart
  <2>2. \A x \in Bufs : Queued(x)' => Queued(x) /\ x # NextBp
    <3>1. \A x \in Bufs : Queued(x)' => x = ds_bp' \/ In(x, queue')
      BY DEF Queued, In
    <3>. QED
      BY <3>1, <1>4, <1>5 DEF Fit, In
  <2>3. bp' = [bp EXCEPT ![t] = NextBp] /\ UNCHANGED <<in_bp, sent, owned>>
    BY DEF DequeSend
  <2>4. \A u \in Threads : in_bp'[u] # NoBuf =>
          /\ in_bp'[u] \in owned' \ sent' /\ ~Queued(in_bp[u])'
          /\ \A v \in Threads : bp'[v] # in_bp'[u] /\ (v # u => in_bp'[v] # in_bp'[u])
    BY <2>1, <2>2, <2>3 DEF TypeOK, Apart
  <2>5. \A u \in Threads : bp'[u] # NoBuf =>
          /\ bp'[u] \in owned' \ sent' /\ ~Queued(bp[u])'
          /\ \A v \in Threads : v # u => bp'[v] # bp'[u]
    BY <1>4, <2>1, <2>2, <2>3 DEF TypeOK, Apart
  <2>. QED
    BY <1>5, <2>3, <2>4, <2>5 DEF Apart, Fit
<1>3. OutcntExact' /\ Out' = Out \cup {NextBp}
  <2>1. NextBp \notin Out
    BY <1>4, OutMembers DEF TypeOK, Handed, Apart
  <2>2. ASSUME NEW x PROVE x \in Out' <=> x \in Out \cup {NextBp}
    BY <1>4, OutMembers, OutMembersNext DEF DequeSend, Goto, Unlock, PktOk, Throttled, TypeOK, Handed, Apart
  <2>3. ds_outcnt < MaxCnt /\ ds_outcnt' = ds_outcnt + 1
    BY DEF DequeSend, Goto, Unlock, PktOk, Throttled, TypeOK
  <2>. QED
    BY <2>1, <2>2, <2>3, CountMore
<1>6. InOrder'
  BY <1>5 DEF InOrder
<1>. QED
  BY <1>1, <1>2, <1>3, <1>6

LEMMA DequeTryFailsKeeps ==
  ASSUME IInv, NEW t \in Threads, DequeTryFails(t)
  PROVE  IInv' /\ Out' = Out
<1>. USE FlowAssumption DEF IInv
<1>1. TypeOK' /\ Locked' /\ Handed'
  BY DEF DequeTryFails, Goto, flow, TypeOK, Labels, Locked, Handed, Threads
<1>2. Apart'
  BY DEF DequeTryFails, Goto, flow, TypeOK, Handed, Apart, Queued
<1>3. OutcntExact' /\ Out' = Out
  <2>1. ASSUME NEW x PROVE x \in Out' <=> x \in Out
    BY OutMembers, OutMembersNext DEF DequeTryFails, Goto, flow, TypeOK, Handed, Apart
  <2>2. ds_outcnt' = ds_outcnt
    BY DEF DequeTryFails, Goto, flow
  <2>. QED
    BY <2>1, <2>2, CountSame
<1>6. InOrder'
  BY DEF DequeTryFails, Goto, flow, TypeOK, Locked, Handed, InOrder
<1>. QED
  BY <1>1, <1>2, <1>3, <1>6

LEMMA DequeTryOkKeeps ==
  ASSUME IInv, NEW t \in Threads, DequeTryOk(t)
  PROVE  IInv' /\ Out' = Out
<1>. USE FlowAssumption DEF IInv
<1>1. TypeOK' /\ Locked' /\ Handed'
  BY DEF DequeTryOk, Goto, TypeOK, Labels, Locked, Handed, Threads
<1>2. Apart'
  BY DEF DequeTryOk, Goto, TypeOK, Handed, Apart, Queued
<1>3. OutcntExact' /\ Out' = Out
  <2>1. ASSUME NEW x PROVE x \in Out' <=> x \in Out
    BY OutMembers, OutMembersNext DEF DequeTryOk, Goto, TypeOK, Handed, Apart
  <2>2. ds_outcnt' = ds_outcnt
    BY DEF DequeTryOk, Goto
  <2>. QED
    BY <2>1, <2>2, CountSame
<1>6. InOrder'
  BY DEF DequeTryOk, Goto, TypeOK, Locked, Handed, InOrder
<1>. QED
  BY <1>1, <1>2, <1>3, <1>6

LEMMA DequeReturnKeeps ==
  ASSUME IInv, NEW t \in Threads, DequeReturn(t)
  PROVE  IInv' /\ Out' = Out
<1>. USE FlowAssumption DEF IInv
<1>1. TypeOK' /\ Locked' /\ Handed'
  BY DEF DequeReturn, Goto, flow, TypeOK, Labels, Locked, Handed, Threads
<1>2. Apart'
  BY DEF DequeReturn, Goto, flow, TypeOK, Handed, Apart, Queued
<1>3. OutcntExact' /\ Out' = Out
  <2>1. ASSUME NEW x PROVE x \in Out' <=> x \in Out
    BY OutMembers, OutMembersNext DEF DequeReturn, Goto, flow, TypeOK, Handed, Apart
  <2>2. ds_outcnt' = ds_outcnt
    BY DEF DequeReturn, Goto, flow
  <2>. QED
    BY <2>1, <2>2, CountSame
<1>6. InOrder'
  BY DEF DequeReturn, Goto, flow, TypeOK, Locked, Handed, InOrder
<1>. QED
  BY <1>1, <1>2, <1>3, <1>6

LEMMA RestartKeeps ==
  ASSUME IInv, Restart
  PROVE  IInv' /\ Out' = Out
<1>. USE FlowAssumption DEF IInv
<1>1. TypeOK' /\ Locked' /\ Handed'
  BY DEF Restart, Goto, flow, TypeOK, Labels, Locked, Handed, Threads
<1>2. Apart'
  BY DEF Restart, Goto, flow, TypeOK, Handed, Apart, Queued
<1>3. OutcntExact' /\ Out' = Out
  <2>1. ASSUME NEW x PROVE x \in Out' <=> x \in Out
    BY OutMembers, OutMembersNext DEF Restart, Goto, flow, TypeOK, Handed, Apart
  <2>2. ds_outcnt' = ds_outcnt
    BY DEF Restart, Goto, flow
  <2>. QED
    BY <2>1, <2>2, CountSame
<1>6. InOrder'
  BY DEF Restart, Goto, flow, TypeOK, Locked, Handed, InOrder
<1>. QED
  BY <1>1, <1>2, <1>3, <1>6

-----------------------------------------------------------------------------
(* The invariants.                                                         *)

LEMMA InitHolds == Init => IInv
<1>. SUFFICES ASSUME Init PROVE IInv
  OBVIOUS
<1>1. TypeOK /\ Handed /\ InOrder
  BY EmptySeq DEF Init, TypeOK, Labels, Handed, InOrder
<1>5. Locked
  BY FlowAssumption DEF Init, Locked
<1>6. Apart
  <2>1. DOMAIN queue = {}
    BY EmptySeq, LenProperties DEF Init
  <2>. QED
    BY <2>1 DEF Init, Apart
<1>2. ASSUME NEW x PROVE x \notin Out
  BY OutMembers DEF Init
<1>3. Cardinality(Out) = 0
  BY <1>2, FS_EmptySet
<1>4. OutcntExact
  BY <1>3, FlowAssumption DEF Init, OutcntExact
<1>. QED
  BY <1>1, <1>4, <1>5, <1>6 DEF IInv

LEMMA NextKeeps == IInv /\ [Next]_vars => IInv'
<1>. SUFFICES ASSUME IInv, [Next]_vars PROVE IInv'
  OBVIOUS
<1>1. CASE UNCHANGED vars
  <2>1. UNCHANGED <<pc, in_bp, bp, ds_mutex, ds_bp, ds_outcnt, queue, pkt, sent,
                    callback, owned, refused>>
    BY <1>1 DEF vars, threads, flow
  <2>2. Out' = Out
    BY <2>1 DEF Out
  <2>. QED
    BY <2>1, <2>2
       DEF IInv, TypeOK, Locked, Handed, Apart, Queued, OutcntExact, InOrder
<1>2. ASSUME NEW t \in Threads, Step(t) PROVE IInv'
  BY <1>2, EnqueLockKeeps, EnqueQueueKeeps, EnqueSendKeeps, EnqueRefusedKeeps,
     TransportKeeps, DequeLockKeeps, DequeNothingKeeps, DequeRefusedKeeps,
     DequeFullKeeps, DequeSendKeeps, DequeTryFailsKeeps, DequeTryOkKeeps,
     DequeReturnKeeps
     DEF Step
<1>3. ASSUME NEW t \in Threads, NEW b \in Bufs, Enque(t, b) \/ IoDone(t, b)
      PROVE  IInv'
  BY <1>3, EnqueKeeps, IoDoneKeeps
<1>4. CASE Restart
  BY <1>4, RestartKeeps
<1>. QED
  BY <1>1, <1>2, <1>3, <1>4 DEF Next

(* The inductive invariant holds for ever (strategy.c, dmult_enque,        *)
(* dmult_deque, dmult_restart).                                            *)
THEOREM IInvAlways == Spec => []IInv
<1>. QED
  BY InitHolds, NextKeeps, PTL DEF Spec

(* Throttle: ds_outcnt is the number of released transfers, and that is at *)
(* most ds_waitcnt (strategy.c:429), whatever allocations fail.            *)
THEOREM ThrottleExact == Spec => []OutcntExact
<1>1. IInv => OutcntExact
  BY DEF IInv
<1>. QED
  BY <1>1, IInvAlways, PTL

(* The waiting transfers are the held one and the queue.                  *)
Waits == ds_bp # NoBuf \/ queue # <<>>
Attended ==
  \/ ds_outcnt > 0
  \/ \E t \in Threads : pc[t] = "de_loop"
  \/ ds_bp # NoBuf /\ refused

LEMMA WaitingIsWaits == TypeOK => (Waiting # <<>> <=> Waits)
<1>. SUFFICES ASSUME TypeOK PROVE Waiting # <<>> <=> Waits
  OBVIOUS
<1>1. queue \in Seq(Bufs)
  BY DEF TypeOK
<1>2. CASE ds_bp = NoBuf
  BY <1>1, <1>2, ConcatEmptySeq DEF Waiting, Held, Waits
<1>3. CASE ds_bp # NoBuf
  <2>1. <<ds_bp>> \in Seq(Bufs) /\ Len(<<ds_bp>>) = 1
    BY <1>3 DEF TypeOK
  <2>2. Len(<<ds_bp>> \o queue) = 1 + Len(queue) /\ Len(queue) \in Nat
    BY <1>1, <2>1, ConcatProperties, LenProperties
  <2>3. <<ds_bp>> \o queue # <<>>
    BY <2>2, EmptySeq
  <2>. QED
    BY <1>3, <2>3 DEF Waiting, Held, Waits
<1>. QED
  BY <1>2, <1>3

(* Every action leaves what waits attended.                                *)
LEMMA StaysAttended ==
  ASSUME IInv, Waits => Attended, [Next]_vars
  PROVE  (Waits => Attended)'
<1>. USE FlowAssumption DEF IInv, Waits, Attended
<1>1. CASE UNCHANGED vars
  BY <1>1 DEF vars, threads, flow
<1>2. CASE Restart
  BY <1>2 DEF Restart, flow, Goto, TypeOK
<1>3. ASSUME NEW t \in Threads, NEW b \in Bufs, Enque(t, b) \/ IoDone(t, b)
      PROVE  (Waits => Attended)'
  BY <1>3 DEF Enque, IoDone, flow, Goto, TypeOK
<1>4. ASSUME NEW t \in Threads,
             EnqueLock(t) \/ EnqueQueue(t) \/ EnqueSend(t) \/ EnqueRefused(t)
      PROVE  (Waits => Attended)'
  BY <1>4 DEF EnqueLock, EnqueQueue, EnqueSend, EnqueRefused, MustWait, Goto, TypeOK, Handed
<1>5. ASSUME NEW t \in Threads, Transport(t) \/ DequeTryFails(t) \/ DequeReturn(t)
      PROVE  (Waits => Attended)'
  BY <1>5 DEF Transport, DequeTryFails, DequeReturn, flow, Goto, TypeOK
<1>6. ASSUME NEW t \in Threads, DequeLock(t) \/ DequeTryOk(t)
      PROVE  (Waits => Attended)'
  BY <1>6 DEF DequeLock, DequeTryOk, Goto, TypeOK
<1>7. ASSUME NEW t \in Threads,
             DequeNothing(t) \/ DequeRefused(t) \/ DequeFull(t) \/ DequeSend(t)
      PROVE  (Waits => Attended)'
  BY <1>7 DEF DequeNothing, DequeRefused, DequeFull, DequeSend, NextBp, Throttled,
              Goto, TypeOK
<1>. QED
  BY <1>1, <1>2, <1>3, <1>4, <1>5, <1>6, <1>7 DEF Next, Step

(* No stall: with transfers waiting, something is released, a dequeue is   *)
(* under way, or the packet allocation for the held one failed             *)
(* (strategy.c:445, 373).                                                  *)
THEOREM NeverStalls == Spec => []NoStall
<1>1. Init => (Waits => Attended)
  BY DEF Init, Waits
<1>2. IInv /\ (Waits => Attended) /\ [Next]_vars => (Waits => Attended)'
  BY StaysAttended
<1>3. IInv /\ (Waits => Attended) => NoStall
  BY WaitingIsWaits DEF IInv, NoStall, Attended
<1>. QED
  BY <1>1, <1>2, <1>3, IInvAlways, PTL DEF Spec
-----------------------------------------------------------------------------
(* The refinement of GhdService. Its state is what waits, with the         *)
(* transfer that is being added; what is released; and what has ended but  *)
(* was not given back.                                                     *)
Ended == owned \ (Elements(Line) \cup Entering \cup Out)

AbsStutter == Line' = Line /\ Out' = Out /\ Ended' = Ended
AbsSubmit(b) ==
  /\ b \notin Elements(Line) \cup Out \cup Ended
  /\ Line' = Append(Line, b) /\ Out' = Out /\ Ended' = Ended
AbsStart ==
  /\ Line # <<>> /\ Cardinality(Out) < MaxCnt
  /\ Line' = Tail(Line) /\ Out' = Out \cup {Head(Line)} /\ Ended' = Ended
AbsFinish(b) ==
  /\ b \in Out
  /\ Line' = Line /\ Out' = Out \ {b} /\ Ended' = Ended \cup {b}
AbsGiveBack(b) ==
  /\ b \in Ended
  /\ Line' = Line /\ Out' = Out /\ Ended' = Ended \ {b}
AbsStep ==
  \/ AbsStutter \/ AbsStart
  \/ \E b \in Bufs : AbsSubmit(b) \/ AbsFinish(b) \/ AbsGiveBack(b)

(* The places of a line are those of its parts.                            *)
LEMMA ElementsConcat ==
  ASSUME NEW s \in Seq(Bufs), NEW r \in Seq(Bufs)
  PROVE  \A x : x \in Elements(s \o r) <=> x \in Elements(s) \/ x \in Elements(r)
<1>1. /\ s \o r \in Seq(Bufs) /\ DOMAIN s = 1 .. Len(s) /\ DOMAIN r = 1 .. Len(r)
      /\ Len(s) \in Nat /\ Len(r) \in Nat
      /\ DOMAIN (s \o r) = 1 .. Len(s) + Len(r)
      /\ \A i \in 1 .. Len(s) + Len(r) :
           (s \o r)[i] = IF i <= Len(s) THEN s[i] ELSE r[i - Len(s)]
  BY ConcatProperties, LenProperties
<1>2. \A i \in 1 .. Len(s) : i \in DOMAIN (s \o r) /\ (s \o r)[i] = s[i]
  BY <1>1
<1>3. \A i \in 1 .. Len(r) :
        Len(s) + i \in DOMAIN (s \o r) /\ (s \o r)[Len(s) + i] = r[i]
  BY <1>1
<1>4. \A i \in DOMAIN (s \o r) :
        \/ i \in 1 .. Len(s) /\ (s \o r)[i] = s[i]
        \/ i - Len(s) \in 1 .. Len(r) /\ (s \o r)[i] = r[i - Len(s)]
  BY <1>1
<1>5. ASSUME NEW x, x \in Elements(s) \/ x \in Elements(r)
      PROVE  x \in Elements(s \o r)
  <2>1. CASE x \in Elements(s)
    <3>1. PICK i \in 1 .. Len(s) : x = s[i]
      BY <1>1, <2>1 DEF Elements
    <3>. QED
      BY <3>1, <1>2 DEF Elements
  <2>2. CASE x \in Elements(r)
    <3>1. PICK i \in 1 .. Len(r) : x = r[i]
      BY <1>1, <2>2 DEF Elements
    <3>. QED
      BY <3>1, <1>3 DEF Elements
  <2>. QED
    BY <1>5, <2>1, <2>2
<1>6. ASSUME NEW x, x \in Elements(s \o r)
      PROVE  x \in Elements(s) \/ x \in Elements(r)
  <2>1. PICK i \in DOMAIN (s \o r) : x = (s \o r)[i]
    BY <1>6 DEF Elements
  <2>. QED
    BY <2>1, <1>1, <1>4 DEF Elements
<1>. QED
  BY <1>5, <1>6

LEMMA LineType ==
  IInv => /\ Held \in Seq(Bufs) /\ Adding \in Seq(Bufs) /\ queue \in Seq(Bufs)
          /\ Waiting \in Seq(Bufs) /\ Line \in Seq(Bufs)
<1>. SUFFICES ASSUME IInv
              PROVE  /\ Held \in Seq(Bufs) /\ Adding \in Seq(Bufs) /\ queue \in Seq(Bufs)
                     /\ Waiting \in Seq(Bufs) /\ Line \in Seq(Bufs)
  OBVIOUS
<1>1. Held \in Seq(Bufs) /\ queue \in Seq(Bufs)
  BY EmptySeq DEF IInv, TypeOK, Held
<1>2. Adding \in Seq(Bufs)
  BY EmptySeq DEF IInv, TypeOK, Handed, Adding
<1>. QED
  BY <1>1, <1>2, ConcatProperties DEF Waiting, Line

(* A transfer is in line once.                                             *)
Once(s) == \A i, j \in DOMAIN s : s[i] = s[j] => i = j
LEMMA OnceConcat ==
  ASSUME NEW s \in Seq(Bufs), NEW r \in Seq(Bufs), Once(s), Once(r),
         \A i \in DOMAIN s, j \in DOMAIN r : s[i] # r[j]
  PROVE  Once(s \o r)
<1>1. /\ DOMAIN s = 1 .. Len(s) /\ DOMAIN r = 1 .. Len(r)
      /\ Len(s) \in Nat /\ Len(r) \in Nat
      /\ DOMAIN (s \o r) = 1 .. Len(s) + Len(r)
      /\ \A i \in 1 .. Len(s) + Len(r) :
           (s \o r)[i] = IF i <= Len(s) THEN s[i] ELSE r[i - Len(s)]
  BY ConcatProperties, LenProperties
<1>2. SUFFICES ASSUME NEW i \in 1 .. Len(s) + Len(r), NEW j \in 1 .. Len(s) + Len(r),
                      (s \o r)[i] = (s \o r)[j]
               PROVE  i = j
  BY <1>1 DEF Once
<1>3. \A k \in 1 .. Len(s) + Len(r) :
        \/ k \in 1 .. Len(s) /\ (s \o r)[k] = s[k] /\ k <= Len(s)
        \/ k - Len(s) \in 1 .. Len(r) /\ (s \o r)[k] = r[k - Len(s)] /\ k > Len(s)
  BY <1>1
<1>4. CASE i <= Len(s) /\ j <= Len(s)
  BY <1>1, <1>2, <1>3, <1>4 DEF Once
<1>5. CASE i > Len(s) /\ j > Len(s)
  <2>. DEFINE k == i - Len(s)
              l == j - Len(s)
  <2>1. k \in DOMAIN r /\ l \in DOMAIN r /\ r[k] = r[l] /\ i = Len(s) + k /\ j = Len(s) + l
    BY <1>1, <1>2, <1>3, <1>5
  <2>2. k = l
    BY <2>1 DEF Once
  <2>. QED
    BY <2>1, <2>2
<1>6. CASE (i <= Len(s) /\ j > Len(s)) \/ (i > Len(s) /\ j <= Len(s))
  BY <1>1, <1>2, <1>3, <1>6
<1>. QED
  BY <1>1, <1>4, <1>5, <1>6

LEMMA LineOnce ==
  ASSUME IInv
  PROVE  Once(Line)
<1>1. /\ Held \in Seq(Bufs) /\ Adding \in Seq(Bufs) /\ queue \in Seq(Bufs)
      /\ Waiting = Held \o queue /\ Waiting \in Seq(Bufs) /\ Line = Waiting \o Adding
  BY LineType DEF Waiting, Line
<1>2. Once(queue) /\ Once(Held) /\ Once(Adding)
  BY DEF Once, Held, Adding, IInv, Apart
<1>3. \A i \in DOMAIN Held, j \in DOMAIN queue : Held[i] # queue[j]
  BY DEF Held, IInv, Apart
<1>4. \A i \in DOMAIN Adding : \E t \in Threads :
        Adding[i] = in_bp[t] /\ in_bp[t] # NoBuf
  BY FlowAssumption DEF Adding, IInv, TypeOK, Handed
<1>5. /\ \A i \in DOMAIN Adding, j \in DOMAIN queue : Adding[i] # queue[j]
      /\ \A i \in DOMAIN Adding, j \in DOMAIN Held : Adding[i] # Held[j]
  BY <1>4 DEF Held, IInv, Apart, Queued
<1>6. Once(Waiting)
  BY <1>1, <1>2, <1>3, OnceConcat
<1>7. \A i \in DOMAIN Waiting, j \in DOMAIN Adding : Waiting[i] # Adding[j]
  <2>1. \A i \in DOMAIN Waiting : Waiting[i] \in Elements(Held) \cup Elements(queue)
    BY <1>1, ElementsConcat DEF Elements
  <2>. QED
    BY <2>1, <1>5 DEF Elements
<1>. QED
  BY <1>1, <1>2, <1>6, <1>7, OnceConcat

(* When its head goes, the others keep their order;                        *)
LEMMA HeadGoes ==
  ASSUME NEW s \in Seq(Bufs), s # <<>>, Once(s)
  PROVE  /\ Head(s) \in Bufs /\ Head(s) \in Elements(s)
         /\ Elements(Tail(s)) = Elements(s) \ {Head(s)}
         /\ \A x : ~Precedes(s, x, Head(s)) /\ ~Precedes(Tail(s), x, Head(s))
         /\ \A x, y : y # Head(s) =>
              (Precedes(Tail(s), x, y) <=> Precedes(s, x, y) /\ x # Head(s))
<1>. DEFINE h == Head(s)
            r == Tail(s)
            n == Len(s)
<1>1. /\ n \in Nat /\ n > 0 /\ DOMAIN s = 1 .. n /\ h = s[1] /\ DOMAIN r = 1 .. n - 1
      /\ \A i \in 1 .. n - 1 : i + 1 \in 1 .. n /\ r[i] = s[i + 1]
      /\ \A i \in 1 .. n : s[i] \in Bufs
  OBVIOUS
<1>2. \A i \in 1 .. n : i = 1 \/ (i - 1 \in 1 .. n - 1 /\ r[i - 1] = s[i])
  BY <1>1
<1>3. \A i \in 1 .. n : s[i] = h <=> i = 1
  BY <1>1 DEF Once
<1>4. \A i \in 1 .. n - 1 : r[i] # h
  BY <1>1, <1>3
<1>. HIDE DEF h, r, n
<1>5. h \in Bufs /\ h \in Elements(s)
  BY <1>1 DEF Elements
<1>6. Elements(r) = Elements(s) \ {h}
  <2>1. ASSUME NEW x \in Elements(r) PROVE x \in Elements(s) \ {h}
    BY <1>1, <1>4 DEF Elements
  <2>2. ASSUME NEW x \in Elements(s), x # h PROVE x \in Elements(r)
    BY <1>1, <1>2, <2>2 DEF Elements
  <2>. QED
    BY <2>1, <2>2
<1>7. ASSUME NEW x PROVE ~Precedes(s, x, h) /\ ~Precedes(r, x, h)
  BY <1>1, <1>3, <1>4 DEF Precedes
<1>8. ASSUME NEW x, NEW y, Precedes(r, x, y) PROVE Precedes(s, x, y) /\ x # h
  <2>1. PICK i, j \in 1 .. n - 1 : i < j /\ r[i] = x /\ r[j] = y
    BY <1>1, <1>8 DEF Precedes
  <2>2. i + 1 \in 1 .. n /\ j + 1 \in 1 .. n /\ i + 1 < j + 1 /\ s[i + 1] = x /\ s[j + 1] = y
    BY <1>1, <2>1
  <2>. QED
    BY <1>1, <1>4, <2>1, <2>2 DEF Precedes
<1>9. ASSUME NEW x, NEW y, Precedes(s, x, y), x # h PROVE Precedes(r, x, y)
  <2>1. PICK i, j \in 1 .. n : i < j /\ s[i] = x /\ s[j] = y
    BY <1>1, <1>9 DEF Precedes
  <2>2. i # 1 /\ j # 1
    BY <1>1, <1>9, <2>1
  <2>3. /\ i - 1 \in 1 .. n - 1 /\ j - 1 \in 1 .. n - 1 /\ i - 1 < j - 1
        /\ r[i - 1] = x /\ r[j - 1] = y
    BY <1>2, <2>1, <2>2
  <2>. QED
    BY <1>1, <2>3 DEF Precedes
<1>. QED
  BY <1>5, <1>6, <1>7, <1>8, <1>9 DEF h, r

(* one that joins comes behind all others.                                 *)
LEMMA OneJoins ==
  ASSUME NEW s \in Seq(Bufs), NEW b \in Bufs
  PROVE  /\ Elements(Append(s, b)) = Elements(s) \cup {b}
         /\ \A x, y : Precedes(Append(s, b), x, y) <=>
                        Precedes(s, x, y) \/ (x \in Elements(s) /\ y = b)
<1>. DEFINE r == Append(s, b)
            n == Len(s)
<1>1. /\ n \in Nat /\ DOMAIN s = 1 .. n /\ DOMAIN r = 1 .. n + 1
      /\ \A i \in 1 .. n : i \in 1 .. n + 1 /\ r[i] = s[i]
      /\ n + 1 \in 1 .. n + 1 /\ r[n + 1] = b
      /\ \A i \in 1 .. n + 1 : i = n + 1 \/ i \in 1 .. n
  OBVIOUS
<1>. HIDE DEF r, n
<1>2. Elements(r) = Elements(s) \cup {b}
  BY <1>1 DEF Elements
<1>3. ASSUME NEW x, NEW y, Precedes(s, x, y) PROVE Precedes(r, x, y)
  BY <1>1, <1>3 DEF Precedes
<1>4. ASSUME NEW x \in Elements(s) PROVE Precedes(r, x, b)
  <2>1. PICK i \in 1 .. n : s[i] = x
    BY <1>1 DEF Elements
  <2>2. i < n + 1
    BY <1>1, <2>1
  <2>. QED
    BY <1>1, <2>1, <2>2 DEF Precedes
<1>5. ASSUME NEW x, NEW y, Precedes(r, x, y)
      PROVE  Precedes(s, x, y) \/ (x \in Elements(s) /\ y = b)
  <2>1. PICK i, j \in 1 .. n + 1 : i < j /\ r[i] = x /\ r[j] = y
    BY <1>1, <1>5 DEF Precedes
  <2>2. i \in 1 .. n /\ s[i] = x
    BY <1>1, <2>1
  <2>3. CASE j = n + 1
    BY <1>1, <2>1, <2>2, <2>3 DEF Elements
  <2>4. CASE j \in 1 .. n
    BY <1>1, <2>1, <2>2, <2>4 DEF Precedes
  <2>. QED
    BY <1>1, <2>3, <2>4
<1>. QED
  BY <1>2, <1>3, <1>4, <1>5 DEF r

(* The steps of the line are those of GhdService.                          *)
LEMMA AbsIsService ==
  ASSUME IInv, AbsStep
  PROVE  [Service!Next]_(Service!vars)
<1>. DEFINE A == [b \in Bufs |-> {x \in Bufs : Precedes(Line, x, b)}]
<1>1. Line \in Seq(Bufs) /\ Once(Line) /\ \A x \in Elements(Line) : x \in Bufs
  BY LineType, LineOnce DEF Elements
<1>2. CASE AbsStutter
  BY <1>2 DEF AbsStutter, Ended, Service!vars
<1>3. ASSUME AbsStart PROVE Service!Start(Head(Line)) /\ Head(Line) \in Bufs
  <2>. DEFINE h == Head(Line)
  <2>1. Service!Cardinality(Out) = Cardinality(Out)
    BY DEF Cardinality, Service!Cardinality
  <2>2. /\ h \in Bufs /\ h \in Elements(Line) /\ Elements(Line') = Elements(Line) \ {h}
        /\ \A x : ~Precedes(Line, x, h) /\ ~Precedes(Line', x, h)
        /\ \A x, y : y # h => (Precedes(Line', x, y) <=> Precedes(Line, x, y) /\ x # h)
    BY <1>1, <1>3, HeadGoes DEF AbsStart
  <2>. HIDE DEF h
  <2>3. A[h] = {}
    BY <2>2
  <2>4. A' = [x \in Bufs |-> IF x = h THEN {} ELSE A[x] \ {h}]
    BY <2>2
  <2>5. Out' = Out \cup {h} /\ Ended' = Ended /\ Cardinality(Out) < MaxCnt
    BY <1>3 DEF AbsStart, h
  <2>. QED
    BY <2>1, <2>2, <2>3, <2>4, <2>5 DEF Ended, Service!Start, Service!Leave, h
<1>4. ASSUME NEW b \in Bufs, AbsSubmit(b) PROVE Service!Submit(b)
  <2>1. /\ Elements(Line') = Elements(Line) \cup {b}
        /\ \A x, y : Precedes(Line', x, y) <=>
                       Precedes(Line, x, y) \/ (x \in Elements(Line) /\ y = b)
    BY <1>1, <1>4, OneJoins DEF AbsSubmit
  <2>2. \A x : ~Precedes(Line, x, b)
    BY <1>4 DEF AbsSubmit, Precedes, Elements
  <2>3. {x \in Elements(Line) : [c \in Bufs |-> "disk"][x] = [c \in Bufs |-> "disk"][b]}
        = Elements(Line)
    BY <1>1
  <2>4. A' = [A EXCEPT ![b] = Elements(Line)]
    <3>1. A'[b] = Elements(Line)
      BY <1>1, <2>1, <2>2
    <3>2. \A c \in Bufs : c # b => A'[c] = A[c]
      BY <2>1
    <3>. QED
      BY <3>1, <3>2
  <2>. QED
    BY <1>4, <2>1, <2>3, <2>4 DEF AbsSubmit, Ended, Service!Submit
<1>5. ASSUME NEW b \in Bufs, AbsFinish(b) PROVE Service!FinishCmd(b)
  BY <1>5 DEF AbsFinish, Ended, Service!FinishCmd
<1>6. ASSUME NEW b \in Bufs, AbsGiveBack(b) PROVE Service!GiveBack(b)
  BY <1>6 DEF AbsGiveBack, Ended, Service!GiveBack
<1>. QED
  BY <1>2, <1>3, <1>4, <1>5, <1>6 DEF AbsStep, Service!Next

(* Who is in line, and who has ended.                                      *)
InLine(x) == \/ x = ds_bp /\ x # NoBuf
             \/ \E i \in DOMAIN queue : queue[i] = x
             \/ \E t \in Threads : pc[t] = "en_body" /\ in_bp[t] = x
LEMMA LineMembers == IInv => \A x : x \in Elements(Line) <=> InLine(x)
<1>. SUFFICES ASSUME IInv, NEW x PROVE x \in Elements(Line) <=> InLine(x)
  OBVIOUS
<1>1. x \in Elements(Line) <=>
        x \in Elements(Held) \/ x \in Elements(queue) \/ x \in Elements(Adding)
  BY LineType, ElementsConcat DEF Line, Waiting
<1>2. x \in Elements(Held) <=> x = ds_bp /\ x # NoBuf
  BY DEF Held, Elements
<1>3. x \in Elements(queue) <=> \E i \in DOMAIN queue : queue[i] = x
  BY DEF Elements
<1>4. x \in Elements(Adding) <=> \E t \in Threads : pc[t] = "en_body" /\ in_bp[t] = x
  BY FlowAssumption DEF Adding, Elements, IInv, TypeOK, Locked
<1>. QED
  BY <1>1, <1>2, <1>3, <1>4 DEF InLine

LEMMA EndedMembers ==
  /\ \A x : x \in Ended <=>
       /\ x \in owned /\ x \notin Elements(Line) /\ x \notin Out
       /\ ~\E t \in Threads : pc[t] = "en_lock" /\ in_bp[t] = x
  /\ \A x : x \in Ended' <=>
       /\ x \in owned' /\ x \notin Elements(Line') /\ x \notin Out'
       /\ ~\E t \in Threads : pc'[t] = "en_lock" /\ in_bp'[t] = x
BY DEF Ended, Entering, Elements

(* Nobody is between taking the mutex and queueing while the mutex is free *)
(* or a dequeue has it.                                                    *)
LEMMA NobodyAdds ==
  ASSUME IInv, \A t \in Threads : pc[t] # "en_body"
  PROVE  Line = Waiting
<1>1. Adding = <<>>
  BY FlowAssumption DEF Adding, IInv, TypeOK
<1>. QED
  BY <1>1, LineType, ConcatEmptySeq DEF Line

LEMMA OneAdds ==
  ASSUME IInv, NEW t \in Threads, pc[t] = "en_body"
  PROVE  Line = Append(Waiting, in_bp[t]) /\ in_bp[t] \in Bufs
<1>1. ds_mutex = t /\ in_bp[t] \in Bufs
  BY DEF IInv, TypeOK, Locked, Handed
<1>2. Adding = <<in_bp[t]>>
  BY <1>1, FlowAssumption DEF Adding
<1>. QED
  BY <1>1, <1>2, LineType, AppendIsConcat DEF Line

(* A line whose parts stay as they are.                                    *)
LEMMA LineStays ==
  ASSUME UNCHANGED <<ds_bp, queue>>, Adding' = Adding
  PROVE  Line' = Line
BY DEF Line, Waiting, Held

LEMMA AddingStays ==
  ASSUME IInv, NEW t \in Threads, pc[t] # "en_body",
         \/ UNCHANGED ds_mutex
         \/ ds_mutex = NoThread /\ ds_mutex' = t
         \/ ds_mutex = t /\ ds_mutex' = NoThread,
         pc'[t] # "en_body", \A u \in Threads : u # t => pc'[u] = pc[u] /\ in_bp'[u] = in_bp[u]
  PROVE  Adding' = Adding
BY FlowAssumption DEF Adding, IInv, TypeOK

(* What dmult_deque has in hand is the head of the line.                   *)
LEMMA NextIsHead ==
  ASSUME IInv, NextBp # NoBuf
  PROVE  /\ NextBp \in Bufs /\ Rest \in Seq(Bufs)
         /\ Waiting = <<NextBp>> \o Rest
<1>1. NextBp \in Bufs /\ Rest \in Seq(Bufs)
  BY TakeNext DEF IInv, Fit
<1>2. queue \in Seq(Bufs)
  BY LineType
<1>3. CASE ds_bp # NoBuf
  BY <1>1, <1>3 DEF Waiting, Held, NextBp, Rest
<1>4. CASE ds_bp = NoBuf
  <2>1. queue # <<>> /\ NextBp = Head(queue) /\ Rest = Tail(queue)
    BY <1>4 DEF NextBp, Rest
  <2>2. Waiting = queue
    BY <1>2, <1>4, ConcatEmptySeq DEF Waiting, Held
  <2>3. queue = <<Head(queue)>> \o Tail(queue)
    BY <1>2, <2>1
  <2>. QED
    BY <1>1, <2>1, <2>2, <2>3, Zenon
<1>. QED
  BY <1>1, <1>3, <1>4
(* Steps that the service does not see.                                    *)
LEMMA EnqueAbs ==
  ASSUME IInv, NEW t \in Threads, NEW b \in Bufs, Enque(t, b)
  PROVE  AbsStutter
<1>1. Out' = Out
  BY EnqueKeeps
<1>2. Adding' = Adding
  BY AddingStays DEF Enque, Goto, flow, IInv, TypeOK
<1>3. Line' = Line
  BY <1>2, LineStays DEF Enque, flow
<1>4. ASSUME NEW x PROVE x \in Ended' <=> x \in Ended
  BY <1>1, <1>3, EndedMembers DEF Enque, Goto, IInv, TypeOK, Handed, Apart
<1>. QED
  BY <1>1, <1>3, <1>4 DEF AbsStutter

LEMMA IoDoneAbs ==
  ASSUME IInv, NEW t \in Threads, NEW b \in Bufs, IoDone(t, b)
  PROVE  AbsStutter
<1>1. Out' = Out
  BY IoDoneKeeps
<1>2. Adding' = Adding
  BY AddingStays DEF IoDone, Goto, flow, IInv, TypeOK
<1>3. Line' = Line
  BY <1>2, LineStays DEF IoDone, flow
<1>4. ASSUME NEW x PROVE x \in Ended' <=> x \in Ended
  BY <1>1, <1>3, EndedMembers DEF IoDone, Goto, IInv, TypeOK, Handed, Apart
<1>. QED
  BY <1>1, <1>3, <1>4 DEF AbsStutter

LEMMA RestartAbs ==
  ASSUME IInv, Restart
  PROVE  AbsStutter
<1>1. Out' = Out
  BY RestartKeeps
<1>2. Adding' = Adding
  BY AddingStays, FlowAssumption DEF Restart, Goto, flow, IInv, TypeOK, Threads
<1>3. Line' = Line
  BY <1>2, LineStays DEF Restart, flow
<1>4. ASSUME NEW x PROVE x \in Ended' <=> x \in Ended
  BY <1>1, <1>3, EndedMembers DEF Restart, Goto, IInv, TypeOK, Handed, Apart
<1>. QED
  BY <1>1, <1>3, <1>4 DEF AbsStutter

LEMMA TransportAbs ==
  ASSUME IInv, NEW t \in Threads, Transport(t)
  PROVE  AbsStutter
<1>1. Out' = Out
  BY TransportKeeps
<1>2. Adding' = Adding
  BY AddingStays DEF Transport, Goto, flow, IInv, TypeOK
<1>3. Line' = Line
  BY <1>2, LineStays DEF Transport, flow
<1>4. ASSUME NEW x PROVE x \in Ended' <=> x \in Ended
  BY <1>1, <1>3, EndedMembers DEF Transport, Goto, IInv, TypeOK, Handed, Apart
<1>. QED
  BY <1>1, <1>3, <1>4 DEF AbsStutter

LEMMA DequeNothingAbs ==
  ASSUME IInv, NEW t \in Threads, DequeNothing(t)
  PROVE  AbsStutter
<1>1. Out' = Out
  BY DequeNothingKeeps
<1>2. Adding' = Adding
  BY AddingStays DEF DequeNothing, Goto, flow, IInv, TypeOK, Unlock, Locked
<1>3. Line' = Line
  BY <1>2, LineStays DEF DequeNothing, flow
<1>4. ASSUME NEW x PROVE x \in Ended' <=> x \in Ended
  BY <1>1, <1>3, EndedMembers DEF DequeNothing, Goto, IInv, TypeOK, Handed, Apart
<1>. QED
  BY <1>1, <1>3, <1>4 DEF AbsStutter

LEMMA DequeTryFailsAbs ==
  ASSUME IInv, NEW t \in Threads, DequeTryFails(t)
  PROVE  AbsStutter
<1>1. Out' = Out
  BY DequeTryFailsKeeps
<1>2. Adding' = Adding
  BY AddingStays DEF DequeTryFails, Goto, flow, IInv, TypeOK
<1>3. Line' = Line
  BY <1>2, LineStays DEF DequeTryFails, flow
<1>4. ASSUME NEW x PROVE x \in Ended' <=> x \in Ended
  BY <1>1, <1>3, EndedMembers DEF DequeTryFails, Goto, IInv, TypeOK, Handed, Apart
<1>. QED
  BY <1>1, <1>3, <1>4 DEF AbsStutter

LEMMA DequeTryOkAbs ==
  ASSUME IInv, NEW t \in Threads, DequeTryOk(t)
  PROVE  AbsStutter
<1>1. Out' = Out
  BY DequeTryOkKeeps
<1>2. Adding' = Adding
  BY AddingStays DEF DequeTryOk, Goto, flow, IInv, TypeOK
<1>3. Line' = Line
  BY <1>2, LineStays DEF DequeTryOk, flow
<1>4. ASSUME NEW x PROVE x \in Ended' <=> x \in Ended
  BY <1>1, <1>3, EndedMembers DEF DequeTryOk, Goto, IInv, TypeOK, Handed, Apart
<1>. QED
  BY <1>1, <1>3, <1>4 DEF AbsStutter

(* The transfer that was being added goes to the end of the queue,         *)
LEMMA EnqueQueueAbs ==
  ASSUME IInv, NEW t \in Threads, EnqueQueue(t)
  PROVE  AbsStutter
<1>1. Out' = Out /\ IInv'
  BY EnqueQueueKeeps
<1>2. Line = Append(Waiting, in_bp[t]) /\ in_bp[t] \in Bufs
  BY OneAdds DEF EnqueQueue
<1>3. Held \in Seq(Bufs) /\ queue \in Seq(Bufs) /\ Waiting \in Seq(Bufs)
  BY LineType
<1>4. \A u \in Threads : pc'[u] # "en_body"
  BY FlowAssumption DEF EnqueQueue, Goto, IInv, TypeOK, Locked
<1>5. Adding' = <<>>
  BY <1>4, FlowAssumption DEF Adding, EnqueQueue, Unlock
<1>6. Waiting' = Append(Waiting, in_bp[t])
  <2>1. Waiting' = Held \o Append(queue, in_bp[t])
    BY DEF EnqueQueue, Waiting, Held
  <2>2. /\ Append(queue, in_bp[t]) = queue \o <<in_bp[t]>>
        /\ Append(Waiting, in_bp[t]) = Waiting \o <<in_bp[t]>>
    BY <1>2, <1>3, AppendIsConcat
  <2>3. (Held \o queue) \o <<in_bp[t]>> = Held \o (queue \o <<in_bp[t]>>)
    BY <1>2, <1>3, ConcatAssociative
  <2>. QED
    BY <2>1, <2>2, <2>3 DEF Waiting
<1>7. Line' = Line
  <2>1. Append(Waiting, in_bp[t]) \in Seq(Bufs)
    BY <1>2, <1>3, AppendProperties
  <2>. QED
    BY <1>2, <1>5, <1>6, <2>1, ConcatEmptySeq DEF Line
<1>8. ASSUME NEW x PROVE x \in Ended' <=> x \in Ended
  BY <1>1, <1>7, EndedMembers DEF EnqueQueue, Goto, IInv, TypeOK, Handed
<1>. QED
  BY <1>1, <1>7, <1>8 DEF AbsStutter

(* or is the first in line: nothing else waits when it may be released.    *)
LEMMA FirstInLine ==
  ASSUME IInv, NEW t \in Threads, pc[t] = "en_body", ~MustWait
  PROVE  /\ ds_bp = NoBuf /\ queue = <<>> /\ Line = <<in_bp[t]>> /\ in_bp[t] \in Bufs
         /\ ds_outcnt < MaxCnt
<1>1. ds_bp = NoBuf /\ queue = <<>> /\ ds_outcnt < MaxCnt
  BY FlowAssumption DEF IInv, TypeOK, MustWait, InOrder, Locked
<1>2. Waiting = <<>>
  BY <1>1, EmptySeq, ConcatEmptySeq DEF Waiting, Held
<1>3. Line = Append(<<>>, in_bp[t]) /\ in_bp[t] \in Bufs
  BY <1>2, OneAdds
<1>4. Append(<<>>, in_bp[t]) = <<in_bp[t]>>
  BY <1>3
<1>. QED
  BY <1>1, <1>3, <1>4

LEMMA EnqueRefusedAbs ==
  ASSUME IInv, NEW t \in Threads, EnqueRefused(t)
  PROVE  AbsStutter
<1>1. Out' = Out
  BY EnqueRefusedKeeps
<1>2. /\ ds_bp = NoBuf /\ queue = <<>> /\ Line = <<in_bp[t]>> /\ in_bp[t] \in Bufs
  BY FirstInLine DEF EnqueRefused
<1>3. Line' = Line
  <2>1. Held' = <<in_bp[t]>> /\ queue' = <<>>
    BY <1>2, FlowAssumption DEF EnqueRefused, Held
  <2>2. <<in_bp[t]>> \in Seq(Bufs)
    BY <1>2
  <2>3. Waiting' = <<in_bp[t]>>
    BY <2>1, <2>2, ConcatEmptySeq DEF Waiting
  <2>4. Adding' = <<>>
    BY FlowAssumption DEF Adding, EnqueRefused, Unlock
  <2>. QED
    BY <1>2, <2>2, <2>3, <2>4, ConcatEmptySeq DEF Line
<1>4. ASSUME NEW x PROVE x \in Ended' <=> x \in Ended
  BY <1>1, <1>3, EndedMembers DEF EnqueRefused, Goto, IInv, TypeOK, Handed
<1>. QED
  BY <1>1, <1>3, <1>4 DEF AbsStutter

(* While a dequeue has the mutex the line is what waits.                   *)
LEMMA DequeLine ==
  ASSUME IInv, NEW t \in Threads, pc[t] = "de_loop", Unlock, NextBp # NoBuf
  PROVE  Line = <<NextBp>> \o Rest /\ Adding' = <<>>
<1>1. \A u \in Threads : pc[u] # "en_body"
  BY DEF IInv, Locked
<1>. QED
  BY <1>1, NobodyAdds, NextIsHead, FlowAssumption DEF Unlock, Adding

LEMMA DequeKeptAbs ==
  ASSUME IInv, NEW t \in Threads, DequeRefused(t) \/ DequeFull(t)
  PROVE  AbsStutter
<1>1. Out' = Out
  BY DequeRefusedKeeps, DequeFullKeeps
<1>2. Line = <<NextBp>> \o Rest /\ Adding' = <<>> /\ NextBp \in Bufs /\ Rest \in Seq(Bufs)
  BY DequeLine, NextIsHead DEF DequeRefused, DequeFull
<1>3. Line' = Line
  <2>1. Waiting' = <<NextBp>> \o Rest
    BY <1>2, FlowAssumption DEF DequeRefused, DequeFull, Waiting, Held
  <2>2. <<NextBp>> \o Rest \in Seq(Bufs)
    BY <1>2, ConcatProperties
  <2>. QED
    BY <1>2, <2>1, <2>2, ConcatEmptySeq DEF Line
<1>4. ASSUME NEW x PROVE x \in Ended' <=> x \in Ended
  BY <1>1, <1>3, EndedMembers DEF DequeRefused, DequeFull, Goto, IInv, TypeOK, Handed
<1>. QED
  BY <1>1, <1>3, <1>4 DEF AbsStutter

(* A transfer gets in line when its thread has got the mutex.              *)
LEMMA EnqueLockAbs ==
  ASSUME IInv, NEW t \in Threads, EnqueLock(t)
  PROVE  in_bp[t] \in Bufs /\ AbsSubmit(in_bp[t])
<1>1. Out' = Out /\ IInv'
  BY EnqueLockKeeps
<1>2. in_bp[t] \in Bufs
  BY DEF EnqueLock, IInv, TypeOK, Handed
<1>3. Line' = Append(Line, in_bp[t])
  <2>1. Line = Waiting
    BY NobodyAdds, FlowAssumption DEF EnqueLock, IInv, Locked
  <2>2. pc'[t] = "en_body" /\ in_bp' = in_bp /\ ds_mutex' = t /\ Waiting' = Waiting
    BY DEF EnqueLock, Goto, IInv, TypeOK, Waiting, Held
  <2>3. Adding' = <<in_bp[t]>>
    BY <2>2, FlowAssumption DEF Adding
  <2>. QED
    BY <1>2, <2>1, <2>2, <2>3, LineType, AppendIsConcat DEF Line
<1>4. in_bp[t] \notin Elements(Line) \cup Out
  <2>1. ~InLine(in_bp[t])
    BY FlowAssumption DEF InLine, EnqueLock, IInv, Apart, Queued, Locked, Handed
  <2>2. in_bp[t] \notin Out
    BY OutMembers DEF EnqueLock, IInv, TypeOK, Handed, Apart
  <2>. QED
    BY <2>1, <2>2, LineMembers
<1>5. \A x : x \in Elements(Line') <=> x \in Elements(Line) \/ x = in_bp[t]
  <2>1. Line' = Line \o <<in_bp[t]>> /\ <<in_bp[t]>> \in Seq(Bufs) /\ Line \in Seq(Bufs)
    BY <1>2, <1>3, LineType, AppendIsConcat
  <2>2. \A x : x \in Elements(<<in_bp[t]>>) <=> x = in_bp[t]
    BY DEF Elements
  <2>. QED
    BY <2>1, <2>2, ElementsConcat
<1>6. in_bp[t] \notin Ended
  BY EndedMembers DEF EnqueLock
<1>7. ASSUME NEW x PROVE x \in Ended' <=> x \in Ended
  BY <1>1, <1>5, EndedMembers DEF EnqueLock, Goto, IInv, TypeOK, Handed, Apart
<1>. QED
  BY <1>1, <1>2, <1>3, <1>4, <1>6, <1>7 DEF AbsSubmit

(* The head of the line is released, by the thread that brought it         *)
LEMMA EnqueSendAbs ==
  ASSUME IInv, NEW t \in Threads, EnqueSend(t)
  PROVE  AbsStart
<1>1. Out' = Out \cup {in_bp[t]}
  BY EnqueSendKeeps
<1>2. /\ ds_bp = NoBuf /\ queue = <<>> /\ Line = <<in_bp[t]>> /\ in_bp[t] \in Bufs
      /\ ds_outcnt < MaxCnt
  BY FirstInLine DEF EnqueSend
<1>3. Head(Line) = in_bp[t] /\ Tail(Line) = <<>> /\ Line # <<>>
  BY <1>2
<1>4. Line' = <<>>
  <2>1. Held' = <<>> /\ queue' = <<>>
    BY <1>2 DEF EnqueSend, Held
  <2>2. Adding' = <<>>
    BY FlowAssumption DEF Adding, EnqueSend, Unlock
  <2>. QED
    BY <2>1, <2>2, EmptySeq, ConcatEmptySeq DEF Line, Waiting
<1>5. \A x : x \in Elements(Line) <=> x = in_bp[t]
  BY <1>2 DEF Elements
<1>6. \A x : x \notin Elements(Line')
  BY <1>4 DEF Elements
<1>7. ASSUME NEW x PROVE x \in Ended' <=> x \in Ended
  BY <1>1, <1>5, <1>6, EndedMembers DEF EnqueSend, Goto, IInv, TypeOK, Handed
<1>8. Cardinality(Out) < MaxCnt
  BY <1>2 DEF IInv, OutcntExact
<1>. QED
  BY <1>1, <1>3, <1>4, <1>7, <1>8 DEF AbsStart

(* or by a dequeue.                                                        *)
LEMMA DequeSendAbs ==
  ASSUME IInv, NEW t \in Threads, DequeSend(t)
  PROVE  AbsStart
<1>1. Out' = Out \cup {NextBp}
  BY DequeSendKeeps
<1>2. Line = <<NextBp>> \o Rest /\ Adding' = <<>> /\ NextBp \in Bufs /\ Rest \in Seq(Bufs)
  BY DequeLine, NextIsHead DEF DequeSend
<1>3. Head(Line) = NextBp /\ Tail(Line) = Rest /\ Line # <<>>
  BY <1>2
<1>4. Line' = Rest
  <2>1. Waiting' = Rest
    <3>1. CASE Rest = <<>>
      BY <3>1, EmptySeq, ConcatEmptySeq DEF DequeSend, Waiting, Held
    <3>2. CASE Rest # <<>>
      <4>1. Head(Rest) \in Bufs /\ Rest = <<Head(Rest)>> \o Tail(Rest)
        BY <1>2, <3>2
      <4>2. ds_bp' = Head(Rest) /\ queue' = Tail(Rest)
        BY <3>2 DEF DequeSend
      <4>3. Waiting' = <<Head(Rest)>> \o Tail(Rest)
        BY <4>1, <4>2, FlowAssumption DEF Waiting, Held
      <4>. QED
        BY <4>1, <4>3, Zenon
    <3>. QED
      BY <3>1, <3>2
  <2>. QED
    BY <1>2, <2>1, ConcatEmptySeq DEF Line
<1>5. \A x : x \in Elements(Line) <=> x = NextBp \/ x \in Elements(Rest)
  <2>1. <<NextBp>> \in Seq(Bufs) /\ \A x : x \in Elements(<<NextBp>>) <=> x = NextBp
    BY <1>2 DEF Elements
  <2>. QED
    BY <1>2, <2>1, ElementsConcat
<1>6. ASSUME NEW x PROVE x \in Ended' <=> x \in Ended
  BY <1>1, <1>4, <1>5, EndedMembers DEF DequeSend, Goto, IInv, TypeOK, Handed
<1>7. Cardinality(Out) < MaxCnt
  BY FlowAssumption DEF DequeSend, Throttled, IInv, TypeOK, OutcntExact
<1>. QED
  BY <1>1, <1>3, <1>4, <1>6, <1>7 DEF AbsStart

(* A transfer that dadk_iodone brings is finished when it is counted off   *)
LEMMA DequeLockAbs ==
  ASSUME IInv, NEW t \in Threads, DequeLock(t)
  PROVE  AbsStutter \/ (in_bp[t] \in Bufs /\ AbsFinish(in_bp[t]))
<1>1. Out' = Out \ {in_bp[t]} /\ (in_bp[t] # NoBuf => in_bp[t] \in Out)
  BY DequeLockKeeps
<1>2. Adding' = Adding
  BY AddingStays DEF DequeLock, Goto, IInv, TypeOK
<1>3. Line' = Line
  BY <1>2, LineStays DEF DequeLock
<1>4. CASE in_bp[t] = NoBuf
  <2>1. Out' = Out
    BY <1>1, <1>4, OutFinite, FlowAssumption DEF IInv
  <2>2. ASSUME NEW x PROVE x \in Ended' <=> x \in Ended
    BY <2>1, <1>3, EndedMembers DEF DequeLock, Goto, IInv, TypeOK, Handed
  <2>3. Ended' = Ended
    BY <2>2
  <2>4. AbsStutter
    BY <1>3, <2>1, <2>3 DEF AbsStutter
  <2>. QED
    BY <2>4
<1>5. CASE in_bp[t] # NoBuf
  <2>1. in_bp[t] \in Bufs /\ in_bp[t] \in owned /\ in_bp[t] \in Out
    BY <1>1, <1>5 DEF IInv, TypeOK, Apart
  <2>2. ~InLine(in_bp[t])
    BY <1>5, FlowAssumption DEF InLine, DequeLock, IInv, Apart, Queued, Locked
  <2>3. in_bp[t] \notin Elements(Line)
    BY <2>2, LineMembers
  <2>4. ASSUME NEW x PROVE x \in Ended' <=> x \in Ended \cup {in_bp[t]}
    BY <1>1, <1>3, <1>5, <2>1, <2>3, EndedMembers
       DEF DequeLock, Goto, IInv, TypeOK, Handed, Apart
  <2>. QED
    BY <1>1, <1>3, <2>1, <2>4 DEF AbsFinish
<1>. QED
  BY <1>4, <1>5

(* and given back at the end of dadk_iodone.                               *)
LEMMA DequeReturnAbs ==
  ASSUME IInv, NEW t \in Threads, DequeReturn(t)
  PROVE  AbsStutter \/ (in_bp[t] \in Bufs /\ AbsGiveBack(in_bp[t]))
<1>1. Out' = Out
  BY DequeReturnKeeps
<1>2. Adding' = Adding
  BY AddingStays DEF DequeReturn, Goto, flow, IInv, TypeOK
<1>3. Line' = Line
  BY <1>2, LineStays DEF DequeReturn, flow
<1>4. CASE in_bp[t] = NoBuf
  <2>1. ASSUME NEW x PROVE x \in Ended' <=> x \in Ended
    BY <1>1, <1>3, <1>4, EndedMembers, FlowAssumption
       DEF DequeReturn, Goto, IInv, TypeOK, Handed
  <2>2. Ended' = Ended
    BY <2>1
  <2>3. AbsStutter
    BY <1>1, <1>3, <2>2 DEF AbsStutter
  <2>. QED
    BY <2>3
<1>5. CASE in_bp[t] # NoBuf
  <2>1. in_bp[t] \in Bufs /\ in_bp[t] \in owned
    BY <1>5 DEF IInv, TypeOK, Apart
  <2>2. ~InLine(in_bp[t])
    BY <1>5 DEF InLine, DequeReturn, IInv, Apart, Queued
  <2>3. in_bp[t] \notin Out
    BY <1>5, OutMembers DEF DequeReturn, IInv, TypeOK, Handed, Apart
  <2>4. in_bp[t] \in Ended
    BY <1>5, <2>1, <2>2, <2>3, LineMembers, EndedMembers
       DEF DequeReturn, IInv, Apart
  <2>5. ASSUME NEW x PROVE x \in Ended' <=> x \in Ended \ {in_bp[t]}
    BY <1>1, <1>3, <1>5, <2>1, EndedMembers
       DEF DequeReturn, Goto, IInv, TypeOK, Handed, Apart
  <2>. QED
    BY <1>1, <1>3, <2>1, <2>4, <2>5 DEF AbsGiveBack
<1>. QED
  BY <1>4, <1>5

(* dmult, over qfifo and with the calls of dadk, is the service: transfers *)
(* are released in the order in which they got the mutex and at most       *)
(* ds_waitcnt at a time, each is given back once and none is lost          *)
(* (strategy.c, dmult_enque, dmult_deque).                                 *)
THEOREM FlowImplementsService == Spec => ImplementsService
<1>1. Init => Service!Init
  <2>. SUFFICES ASSUME Init PROVE Service!Init
    OBVIOUS
  <2>1. Line = <<>>
    BY EmptySeq, ConcatEmptySeq DEF Init, Line, Waiting, Held, Adding
  <2>2. ASSUME NEW x PROVE x \notin Out /\ x \notin Ended
    BY OutMembers, EndedMembers DEF Init
  <2>3. Elements(Line) = {} /\ \A x, y : ~Precedes(Line, x, y)
    BY <2>1 DEF Elements, Precedes
  <2>. QED
    BY <2>2, <2>3 DEF Ended, Service!Init
<1>2. IInv /\ [Next]_vars => [Service!Next]_(Service!vars)
  <2>. SUFFICES ASSUME IInv, [Next]_vars PROVE AbsStep
    BY AbsIsService
  <2>1. CASE UNCHANGED vars
    BY <2>1 DEF vars, threads, flow, AbsStep, AbsStutter, Line, Waiting, Held, Adding,
                Ended, Elements, Entering, Out
  <2>2. ASSUME NEW t \in Threads, Step(t) PROVE AbsStep
    BY <2>2, EnqueLockAbs, EnqueQueueAbs, EnqueSendAbs, EnqueRefusedAbs, TransportAbs,
       DequeLockAbs, DequeNothingAbs, DequeKeptAbs, DequeSendAbs, DequeTryFailsAbs,
       DequeTryOkAbs, DequeReturnAbs
       DEF Step, AbsStep
  <2>3. ASSUME NEW t \in Threads, NEW b \in Bufs, Enque(t, b) \/ IoDone(t, b)
        PROVE  AbsStep
    BY <2>3, EnqueAbs, IoDoneAbs DEF AbsStep
  <2>4. CASE Restart
    BY <2>4, RestartAbs DEF AbsStep
  <2>. QED
    BY <2>1, <2>2, <2>3, <2>4 DEF Next
<1>. QED
  BY <1>1, <1>2, IInvAlways, PTL DEF Spec, ImplementsService, Service!Spec
=============================================================================
