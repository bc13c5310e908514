------------------------------- MODULE Qsort -------------------------------
(***************************************************************************)
(* The queue object qsort of src/dktp/drvobj/strategy.c, which a disk gets *)
(* with the property queue="qsort": b_actf, the transfers of this pass     *)
(* over the disk, and b_pasf, those of the next, are linked lists sorted   *)
(* by block. Both operations run with ds_mutex held (FLC_ENQUE,            *)
(* FLC_DEQUE), so each is a step.                                          *)
(***************************************************************************)
EXTENDS Integers, Sequences

CONSTANTS
  Requests, \* the transfers (struct buf)
  DBLK  \* the block each one begins at

ASSUME QsortAssumption == DBLK \in [Requests -> Nat]

VARIABLES
  b_actf, b_pasf, \* the two lists
  q_cnt,          \* how many transfers they hold
  before          \* history: pairs of waiting transfers, the earlier one first

qsortVars == <<b_actf, b_pasf, q_cnt, before>>

Entries(s) == {s[i] : i \in DOMAIN s}
InQueue == Entries(b_actf) \cup Entries(b_pasf)

QsortInit == b_actf = <<>> /\ b_pasf = <<>> /\ q_cnt = 0 /\ before = {}

(* The while loop: b goes behind the k-th transfer of the list s, the      *)
(* first whose successor, if it has one, has a higher block.               *)
IsPlaceAmongEquals(s, b, k) ==  \* a slip: it compares with <=
  /\ \A j \in 2..k : DBLK[b] > DBLK[s[j]]
  /\ k < Len(s) => DBLK[b] <= DBLK[s[k + 1]]
IsPlace(s, b, k) ==
  /\ \A j \in 2..k : DBLK[b] >= DBLK[s[j]]
  /\ k < Len(s) => DBLK[b] < DBLK[s[k + 1]]

PutAfter(s, k, b) ==
  [i \in 1..Len(s) + 1 |->
     IF i <= k THEN s[i] ELSE IF i = k + 1 THEN b ELSE s[i - 1]]

(* Is b's block one the head of this pass has left behind?                 *)
LeftBehind(b) == DBLK[b] < DBLK[b_actf[1]]

InsideNextPass(b) == b_pasf # <<>> /\ DBLK[b] >= DBLK[b_pasf[1]]

(* qsort_add, oneway_scan_binary: to an empty queue; in front of the next  *)
(* pass; into the next pass; into this one.                                *)
AddFirst(b) ==
  /\ b_actf = <<>>
  /\ b_actf' = <<b>> /\ UNCHANGED b_pasf
AddFront(b) ==
  /\ b_actf # <<>> /\ LeftBehind(b)
  /\ ~InsideNextPass(b)
  /\ b_pasf' = PutAfter(b_pasf, 0, b) /\ UNCHANGED b_actf
AddNextPass(b) ==
  /\ b_actf # <<>> /\ LeftBehind(b)
  /\ InsideNextPass(b)
  /\ \E k \in 1..Len(b_pasf) :
       IsPlace(b_pasf, b, k) /\ b_pasf' = PutAfter(b_pasf, k, b)
  /\ UNCHANGED b_actf
AddThisPass(b) ==
  /\ b_actf # <<>> /\ ~LeftBehind(b)
  /\ \E k \in 1..Len(b_actf) :
       IsPlace(b_actf, b, k) /\ b_actf' = PutAfter(b_actf, k, b)
  /\ UNCHANGED b_pasf

Add(b) ==
  /\ b \in Requests \ InQueue
  /\ AddFirst(b) \/ AddFront(b) \/ AddNextPass(b) \/ AddThisPass(b)
  /\ q_cnt' = q_cnt + 1
  /\ before' = before \cup (InQueue \X {b})

(* qsort_del. The empty queue returns NULL and changes nothing. At the end *)
(* of this pass the next one becomes it.                                   *)
PassEnds == Tail(b_actf) = <<>> /\ b_pasf # <<>>

Del ==
  /\ q_cnt # 0
  /\ q_cnt' = q_cnt - 1
  /\ b_actf' = IF PassEnds THEN b_pasf ELSE Tail(b_actf)
  /\ b_pasf' = IF PassEnds THEN <<>> ELSE b_pasf
  /\ before' = {p \in before : Head(b_actf) \notin {p[1], p[2]}}

QsortNext == Del \/ \E b \in Requests : Add(b)

QsortSpec == QsortInit /\ [][QsortNext]_qsortVars

-----------------------------------------------------------------------------
(* Properties.                                                             *)

(* q_cnt alone tells qsort_del that b_actf is there to be followed: it     *)
(* counts the transfers of both lists, and the next pass never waits       *)
(* behind a pass that is over.                                             *)
CountExact ==
  /\ q_cnt = Len(b_actf) + Len(b_pasf)
  /\ (b_actf = <<>> => b_pasf = <<>>)

(* Both lists are in order, and the next pass keeps behind the head of     *)
(* this one: that is why a second transfer to a block always lands behind  *)
(* the first, whichever list that is on.                                   *)
InTurn(b, c) ==
  \/ DBLK[b] < DBLK[c]
  \/ DBLK[b] = DBLK[c] /\ <<b, c>> \in before
Sorted(s) == \A i, j \in DOMAIN s : i < j => InTurn(s[i], s[j]) /\ s[i] # s[j]
QsortInv ==
  /\ b_actf \in Seq(Requests) /\ b_pasf \in Seq(Requests) /\ q_cnt \in Nat
  /\ CountExact
  /\ Sorted(b_actf) /\ Sorted(b_pasf)
  /\ \A j \in DOMAIN b_pasf : DBLK[b_pasf[j]] < DBLK[b_actf[1]]
  /\ before \subseteq InQueue \X InQueue
  /\ \A b, c \in Requests : <<b, c>> \in before => <<c, b>> \notin before

(* A transfer never leaves the queue before an earlier one to the same     *)
(* block: what is read there is what was written last.                     *)
SameBlockInOrder ==
  [][\A b \in InQueue \ InQueue' : \A c \in InQueue :
       DBLK[b] = DBLK[c] => <<c, b>> \notin before]_qsortVars

(* Refinement of the one-way scan: insertion by comparison with one        *)
(* element of a list does what comparison with every other one would.      *)
Scan ==
  INSTANCE OneWayScan WITH
    Bufs <- Requests, waiting <- InQueue, later <- Entries(b_pasf)
ImplementsScan == Scan!Spec
=============================================================================
