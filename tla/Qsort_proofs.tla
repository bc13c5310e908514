----------------------------- MODULE Qsort_proofs -----------------------------
(***************************************************************************)
(* Proofs about qsort: its counter, the order for one block, and the       *)
(* one-way scan, for any transfers and any blocks.                         *)
(***************************************************************************)
EXTENDS Qsort, TLAPS, SequenceTheorems

(* What PutAfter yields: the list with b behind its k-th transfer.         *)
LEMMA PutAfterSeq ==
  ASSUME NEW s \in Seq(Requests), NEW b \in Requests, NEW k \in 0..Len(s)
  PROVE  /\ PutAfter(s, k, b) \in Seq(Requests)
         /\ Len(PutAfter(s, k, b)) = Len(s) + 1
         /\ DOMAIN PutAfter(s, k, b) = 1..Len(s) + 1
         /\ \A i \in 1..k : PutAfter(s, k, b)[i] = s[i]
         /\ PutAfter(s, k, b)[k + 1] = b
         /\ \A i \in k + 2..Len(s) + 1 : PutAfter(s, k, b)[i] = s[i - 1]
         /\ Entries(PutAfter(s, k, b)) = Entries(s) \cup {b}
<1>. DEFINE r == PutAfter(s, k, b)
<1>1. /\ DOMAIN r = 1..Len(s) + 1
      /\ \A i \in 1..k : r[i] = s[i]
      /\ r[k + 1] = b
      /\ \A i \in k + 2..Len(s) + 1 : r[i] = s[i - 1]
  BY DEF PutAfter
<1>2. r \in [1..Len(s) + 1 -> Requests]
  BY DEF PutAfter
<1>3. r \in Seq(Requests) /\ Len(r) = Len(s) + 1
  BY <1>2
<1>4. Entries(r) \subseteq Entries(s) \cup {b}
  BY <1>1 DEF Entries
<1>5. ASSUME NEW i \in DOMAIN s
      PROVE  s[i] \in Entries(r)
  <2>1. CASE i <= k
    BY <2>1, <1>1 DEF Entries
  <2>2. CASE i > k
    <3>1. i + 1 \in k + 2..Len(s) + 1 /\ (i + 1) - 1 = i
      BY <2>2
    <3>2. r[i + 1] = s[i]
      BY <3>1, <1>1
    <3>. QED
      BY <3>1, <3>2, <1>1 DEF Entries
  <2>. QED
    BY <2>1, <2>2
<1>6. b \in Entries(r)
  BY <1>1 DEF Entries
<1>. QED
  BY <1>1, <1>3, <1>4, <1>5, <1>6 DEF Entries

(* A list stays in order when a newcomer goes in front of what is to       *)
(* higher blocks and behind all the rest.                                  *)
LEMMA PutKeepsOrder ==
  ASSUME QsortAssumption,
         NEW s \in Seq(Requests), Sorted(s), Entries(s) \subseteq InQueue,
         NEW b \in Requests, b \notin InQueue,
         before' = before \cup (InQueue \X {b}),
         NEW k \in 0..Len(s),
         \A i \in 1..k : DBLK[s[i]] <= DBLK[b],
         \A i \in k + 1..Len(s) : DBLK[b] < DBLK[s[i]]
  PROVE  Sorted(PutAfter(s, k, b))'
<1>. DEFINE r == PutAfter(s, k, b)
<1>1. /\ Len(r) = Len(s) + 1 /\ DOMAIN r = 1..Len(s) + 1
      /\ \A i \in 1..k : r[i] = s[i]
      /\ r[k + 1] = b
      /\ \A i \in k + 2..Len(s) + 1 : r[i] = s[i - 1]
  BY PutAfterSeq
<1>. HIDE DEF r
<1>2. \A i \in DOMAIN s : s[i] \in Requests /\ s[i] \in InQueue /\ s[i] # b
  BY DEF Entries
<1>3. \A i \in DOMAIN s : DBLK[s[i]] \in Nat
  BY <1>2 DEF QsortAssumption
<1>4. DBLK[b] \in Nat
  BY DEF QsortAssumption
<1>5. ASSUME NEW i \in 1..k
      PROVE  DBLK[s[i]] <= DBLK[b] /\ <<s[i], b>> \in before'
  BY <1>2
<1>6. ASSUME NEW i \in DOMAIN s, NEW j \in DOMAIN s, i < j
      PROVE  InTurn(s[i], s[j])' /\ s[i] # s[j]
  BY <1>6 DEF Sorted, InTurn
<1>7. SUFFICES ASSUME NEW i \in 1..Len(s) + 1, NEW j \in 1..Len(s) + 1, i < j
               PROVE  InTurn(r[i], r[j])' /\ r[i] # r[j]
  BY <1>1 DEF Sorted, r
<1>8. CASE j <= k
  <2>1. r[i] = s[i] /\ r[j] = s[j] /\ i \in DOMAIN s /\ j \in DOMAIN s
    BY <1>1, <1>7, <1>8
  <2>. QED
    BY <2>1, <1>6, <1>7
<1>9. CASE j = k + 1
  <2>1. r[i] = s[i] /\ r[j] = b /\ i \in 1..k /\ i \in DOMAIN s
    BY <1>1, <1>7, <1>9
  <2>2. DBLK[s[i]] <= DBLK[b] /\ <<s[i], b>> \in before' /\ s[i] # b
    BY <2>1, <1>2, <1>5
  <2>3. DBLK[s[i]] < DBLK[b] \/ DBLK[s[i]] = DBLK[b]
    BY <2>1, <2>2, <1>3, <1>4
  <2>. QED
    BY <2>1, <2>2, <2>3 DEF InTurn
<1>10. CASE j > k + 1
  <2>1. r[j] = s[j - 1] /\ j - 1 \in DOMAIN s /\ j - 1 \in k + 1..Len(s)
    <3>1. j \in k + 2..Len(s) + 1
      BY <1>10
    <3>2. j - 1 \in 1..Len(s) /\ j - 1 \in k + 1..Len(s)
      BY <3>1
    <3>. QED
      BY <3>1, <3>2, <1>1
  <2>2. CASE i <= k
    <3>1. r[i] = s[i] /\ i \in DOMAIN s /\ i < j - 1
      BY <2>2, <1>1, <1>7, <1>10
    <3>. QED
      BY <3>1, <2>1, <1>6
  <2>3. CASE i = k + 1
    <3>1. r[i] = b
      BY <2>3, <1>1
    <3>. QED
      BY <3>1, <2>1, <1>2 DEF InTurn
  <2>4. CASE i > k + 1
    <3>1. i \in k + 2..Len(s) + 1 /\ i - 1 \in 1..Len(s) /\ i - 1 < j - 1
      BY <2>4, <1>7
    <3>2. r[i] = s[i - 1] /\ i - 1 \in DOMAIN s
      BY <3>1, <1>1, SMTT(30)
    <3>. QED
      BY <3>1, <3>2, <2>1, <1>6
  <2>. QED
    BY <2>2, <2>3, <2>4, <1>7
<1>. QED
  BY <1>7, <1>8, <1>9, <1>10

(* Where IsPlace puts a transfer that is not for the front of a list.      *)
LEMMA PlaceDivides ==
  ASSUME QsortAssumption,
         NEW s \in Seq(Requests), Sorted(s),
         NEW b \in Requests, NEW k \in 1..Len(s),
         DBLK[s[1]] <= DBLK[b], IsPlace(s, b, k)
  PROVE  /\ \A i \in 1..k : DBLK[s[i]] <= DBLK[b]
         /\ \A i \in k + 1..Len(s) : DBLK[b] < DBLK[s[i]]
<1>1. \A i \in DOMAIN s : s[i] \in Requests /\ DBLK[s[i]] \in Nat
  BY DEF QsortAssumption
<1>2. DBLK[b] \in Nat
  BY DEF QsortAssumption
<1>3. ASSUME NEW i \in 1..k
      PROVE  DBLK[s[i]] <= DBLK[b]
  BY <1>1, <1>2 DEF IsPlace
<1>4. ASSUME NEW i \in k + 1..Len(s)
      PROVE  DBLK[b] < DBLK[s[i]]
  <2>1. DBLK[b] < DBLK[s[k + 1]] /\ k + 1 \in DOMAIN s /\ i \in DOMAIN s
    BY DEF IsPlace
  <2>2. i # k + 1 => DBLK[s[k + 1]] <= DBLK[s[i]]
    <3>1. i # k + 1 => InTurn(s[k + 1], s[i])
      BY <2>1 DEF Sorted
    <3>. QED
      BY <3>1, <2>1, <1>1 DEF InTurn
  <2>. QED
    BY <2>1, <2>2, <1>1, <1>2
<1>. QED
  BY <1>3, <1>4

-----------------------------------------------------------------------------
(* The inductive invariant.                                                *)

(* The disks' blocks are numbers, and the lists hold transfers.            *)
LEMMA Members ==
  ASSUME QsortAssumption, QsortInv
  PROVE  /\ InQueue \subseteq Requests
         /\ \A b \in Requests : DBLK[b] \in Nat
         /\ DOMAIN b_actf = 1..Len(b_actf) /\ Len(b_actf) \in Nat
         /\ DOMAIN b_pasf = 1..Len(b_pasf) /\ Len(b_pasf) \in Nat
         /\ \A i \in DOMAIN b_actf : b_actf[i] \in InQueue
         /\ \A i \in DOMAIN b_pasf : b_pasf[i] \in InQueue
         /\ b_actf # <<>> => 1 \in DOMAIN b_actf
         /\ b_pasf # <<>> => 1 \in DOMAIN b_pasf
BY DEF QsortAssumption, QsortInv, InQueue, Entries

(* What qsort_add does to its lists keeps them in order and apart.         *)
LEMMA AddKeepsLists ==
  ASSUME QsortAssumption, QsortInv, NEW b \in Requests, Add(b)
  PROVE  /\ b_actf' \in Seq(Requests) /\ b_pasf' \in Seq(Requests)
         /\ Len(b_actf') + Len(b_pasf') = Len(b_actf) + Len(b_pasf) + 1
         /\ b_actf' # <<>>
         /\ Sorted(b_actf)' /\ Sorted(b_pasf)'
         /\ \A j \in DOMAIN b_pasf' : DBLK[b_pasf'[j]] < DBLK[b_actf'[1]]
         /\ Entries(b_actf') \cup Entries(b_pasf') = InQueue \cup {b}
<1>1. b \notin InQueue /\ before' = before \cup (InQueue \X {b})
  BY DEF Add
<1>2. DBLK[b] \in Nat
  BY Members
<1>3. b_actf' = b_actf => Sorted(b_actf)'
  BY DEF QsortInv, Sorted, InTurn, Add
<1>4. b_pasf' = b_pasf => Sorted(b_pasf)'
  BY DEF QsortInv, Sorted, InTurn, Add
<1>5. CASE AddFirst(b)
  <2>1. b_actf = <<>> /\ b_pasf = <<>> /\ b_actf' = <<b>> /\ b_pasf' = <<>>
    BY <1>5 DEF AddFirst, QsortInv, CountExact
  <2>2. Sorted(b_actf)' /\ Sorted(b_pasf)'
    BY <2>1 DEF Sorted
  <2>3. Entries(b_actf') \cup Entries(b_pasf') = InQueue \cup {b}
    BY <2>1 DEF Entries, InQueue
  <2>. QED
    BY <2>1, <2>2, <2>3
<1>6. CASE AddFront(b)
  <2>1. /\ b_actf # <<>> /\ DBLK[b] < DBLK[b_actf[1]]
        /\ b_pasf' = PutAfter(b_pasf, 0, b) /\ b_actf' = b_actf
    BY <1>6 DEF AddFront, LeftBehind
  <2>2. 0 \in 0..Len(b_pasf)
    BY Members
  <2>3. \A i \in 1..Len(b_pasf) : DBLK[b] < DBLK[b_pasf[i]]
    <3>1. SUFFICES ASSUME NEW i \in 1..Len(b_pasf)
                   PROVE  DBLK[b] < DBLK[b_pasf[i]]
      OBVIOUS
    <3>2. 1 \in DOMAIN b_pasf /\ i \in DOMAIN b_pasf /\ b_pasf # <<>>
      BY Members
    <3>3. DBLK[b_pasf[1]] \in Nat /\ DBLK[b_pasf[i]] \in Nat
      BY <3>2, Members
    <3>4. DBLK[b] < DBLK[b_pasf[1]]
      BY <1>2, <1>6, <3>2, <3>3 DEF AddFront, InsideNextPass
    <3>5. i # 1 => DBLK[b_pasf[1]] <= DBLK[b_pasf[i]]
      <4>1. i # 1 => InTurn(b_pasf[1], b_pasf[i])
        BY <3>2 DEF QsortInv, Sorted
      <4>. QED
        BY <4>1, <3>3 DEF InTurn
    <3>. QED
      BY <3>3, <3>4, <3>5, <1>2
  <2>4. /\ Entries(b_pasf) \subseteq InQueue
        /\ b_pasf \in Seq(Requests) /\ Sorted(b_pasf)
    BY DEF InQueue, QsortInv
  <2>5. Sorted(b_pasf)'
    BY <1>1, <2>1, <2>2, <2>3, <2>4, PutKeepsOrder
  <2>6. /\ b_pasf' \in Seq(Requests) /\ Len(b_pasf') = Len(b_pasf) + 1
        /\ Entries(b_pasf') = Entries(b_pasf) \cup {b}
    BY <2>1, <2>2, <2>4, PutAfterSeq
  <2>7. \A j \in DOMAIN b_pasf' : DBLK[b_pasf'[j]] < DBLK[b_actf'[1]]
    BY <2>1, <2>6 DEF QsortInv, Entries
  <2>8. Entries(b_actf') \cup Entries(b_pasf') = InQueue \cup {b}
    BY <2>1, <2>6 DEF InQueue
  <2>9. Len(b_actf') + Len(b_pasf') = Len(b_actf) + Len(b_pasf) + 1
    BY <2>1, <2>6, Members
  <2>. QED
    BY <1>3, <2>1, <2>5, <2>6, <2>7, <2>8, <2>9 DEF QsortInv
<1>7. CASE AddNextPass(b)
  <2>1. PICK k \in 1..Len(b_pasf) :
          IsPlace(b_pasf, b, k) /\ b_pasf' = PutAfter(b_pasf, k, b)
    BY <1>7 DEF AddNextPass
  <2>2. /\ b_actf # <<>> /\ DBLK[b] < DBLK[b_actf[1]] /\ b_actf' = b_actf
        /\ b_pasf # <<>> /\ DBLK[b_pasf[1]] <= DBLK[b]
    <3>1. /\ b_actf # <<>> /\ DBLK[b] < DBLK[b_actf[1]] /\ b_actf' = b_actf
          /\ b_pasf # <<>> /\ DBLK[b] >= DBLK[b_pasf[1]]
      BY <1>7 DEF AddNextPass, LeftBehind, InsideNextPass
    <3>2. DBLK[b_pasf[1]] \in Nat
      BY <3>1, Members
    <3>. QED
      BY <3>1, <3>2, <1>2
  <2>3. k \in 0..Len(b_pasf) /\ b_pasf \in Seq(Requests) /\ Sorted(b_pasf)
        /\ Entries(b_pasf) \subseteq InQueue
    BY DEF QsortInv, InQueue
  <2>4. /\ \A i \in 1..k : DBLK[b_pasf[i]] <= DBLK[b]
        /\ \A i \in k + 1..Len(b_pasf) : DBLK[b] < DBLK[b_pasf[i]]
    BY <2>1, <2>2, <2>3, PlaceDivides
  <2>5. Sorted(b_pasf)'
    BY <1>1, <2>1, <2>3, <2>4, PutKeepsOrder
  <2>6. /\ b_pasf' \in Seq(Requests) /\ Len(b_pasf') = Len(b_pasf) + 1
        /\ Entries(b_pasf') = Entries(b_pasf) \cup {b}
    BY <2>1, <2>3, PutAfterSeq
  <2>7. \A j \in DOMAIN b_pasf' : DBLK[b_pasf'[j]] < DBLK[b_actf'[1]]
    BY <2>2, <2>6 DEF QsortInv, Entries
  <2>. QED
    BY <1>3, <2>2, <2>5, <2>6, <2>7, Members DEF QsortInv, InQueue
<1>8. CASE AddThisPass(b)
  <2>1. PICK k \in 1..Len(b_actf) :
          IsPlace(b_actf, b, k) /\ b_actf' = PutAfter(b_actf, k, b)
    BY <1>8 DEF AddThisPass
  <2>2. b_actf # <<>> /\ b_pasf' = b_pasf /\ DBLK[b_actf[1]] <= DBLK[b]
    <3>1. b_actf # <<>> /\ ~(DBLK[b] < DBLK[b_actf[1]]) /\ b_pasf' = b_pasf
      BY <1>8 DEF AddThisPass, LeftBehind
    <3>2. DBLK[b_actf[1]] \in Nat
      BY <3>1, Members
    <3>. QED
      BY <3>1, <3>2, <1>2
  <2>3. k \in 0..Len(b_actf) /\ b_actf \in Seq(Requests) /\ Sorted(b_actf)
        /\ Entries(b_actf) \subseteq InQueue
    BY DEF QsortInv, InQueue
  <2>4. /\ \A i \in 1..k : DBLK[b_actf[i]] <= DBLK[b]
        /\ \A i \in k + 1..Len(b_actf) : DBLK[b] < DBLK[b_actf[i]]
    BY <2>1, <2>2, <2>3, PlaceDivides
  <2>5. Sorted(b_actf)'
    BY <1>1, <2>1, <2>3, <2>4, PutKeepsOrder
  <2>6. /\ b_actf' \in Seq(Requests) /\ Len(b_actf') = Len(b_actf) + 1
        /\ Entries(b_actf') = Entries(b_actf) \cup {b}
        /\ \A i \in 1..k : b_actf'[i] = b_actf[i]
    BY <2>1, <2>3, PutAfterSeq, ZenonT(60)
  <2>7. \A j \in DOMAIN b_pasf' : DBLK[b_pasf'[j]] < DBLK[b_actf'[1]]
    <3>. b_actf'[1] = b_actf[1]
      BY <2>1, <2>6
    <3>. QED
      BY <2>2 DEF QsortInv
  <2>. QED
    BY <1>4, <2>2, <2>5, <2>6, <2>7, Members DEF QsortInv, InQueue
<1>. QED
  BY <1>5, <1>6, <1>7, <1>8 DEF Add

(* qsort_add keeps the invariant and adds just its transfer.              *)
LEMMA AddKeeps ==
  ASSUME QsortAssumption, QsortInv, NEW b \in Requests, Add(b)
  PROVE  QsortInv' /\ InQueue' = InQueue \cup {b}
<1>1. InQueue' = InQueue \cup {b}
  BY AddKeepsLists DEF InQueue
<1>2. /\ b \notin InQueue /\ before' = before \cup (InQueue \X {b})
      /\ q_cnt' = q_cnt + 1
  BY DEF Add
<1>3. before' \subseteq InQueue' \X InQueue'
  BY <1>1, <1>2 DEF QsortInv
<1>4. \A c, d \in Requests : <<c, d>> \in before' => <<d, c>> \notin before'
  BY <1>2 DEF QsortInv
<1>5. q_cnt' \in Nat /\ CountExact'
  BY <1>2, AddKeepsLists DEF QsortInv, CountExact
<1>. QED
  BY <1>1, <1>3, <1>4, <1>5, AddKeepsLists DEF QsortInv

(* qsort_del finds a transfer when q_cnt says so, and takes nothing else.  *)
LEMMA DelTakesHead ==
  ASSUME QsortAssumption, QsortInv, Del
  PROVE  /\ b_actf # <<>> /\ Head(b_actf) = b_actf[1]
         /\ Tail(b_actf) \in Seq(Requests)
         /\ Len(Tail(b_actf)) = Len(b_actf) - 1
         /\ \A i \in DOMAIN Tail(b_actf) :
              i + 1 \in DOMAIN b_actf /\ Tail(b_actf)[i] = b_actf[i + 1]
         /\ Entries(Tail(b_actf)) = Entries(b_actf) \ {b_actf[1]}
         /\ b_actf[1] \notin Entries(b_pasf)
<1>1. b_actf # <<>>
  BY DEF Del, QsortInv, CountExact
<1>2. b_actf \in Seq(Requests) /\ Sorted(b_actf)
  BY DEF QsortInv
<1>3. /\ Head(b_actf) = b_actf[1] /\ Tail(b_actf) \in Seq(Requests)
      /\ Len(Tail(b_actf)) = Len(b_actf) - 1
      /\ \A i \in 1..Len(Tail(b_actf)) : Tail(b_actf)[i] = b_actf[i + 1]
  BY <1>1, <1>2, HeadTailProperties
<1>4. DOMAIN Tail(b_actf) = 1..Len(b_actf) - 1 /\ DOMAIN b_actf = 1..Len(b_actf)
      /\ Len(b_actf) \in Nat
  BY <1>2, <1>3
<1>5. \A i \in DOMAIN Tail(b_actf) :
        i + 1 \in DOMAIN b_actf /\ Tail(b_actf)[i] = b_actf[i + 1]
  BY <1>3, <1>4
<1>6. \A i \in DOMAIN b_actf : i # 1 => b_actf[i] # b_actf[1]
  BY <1>2, <1>4 DEF Sorted
<1>7. Entries(Tail(b_actf)) \subseteq Entries(b_actf) \ {b_actf[1]}
  <2>1. \A i \in DOMAIN Tail(b_actf) : i + 1 # 1
    BY <1>4
  <2>. QED
    BY <2>1, <1>5, <1>6 DEF Entries
<1>8. ASSUME NEW i \in DOMAIN b_actf, i # 1
      PROVE  b_actf[i] \in Entries(Tail(b_actf))
  <2>1. i - 1 \in DOMAIN Tail(b_actf) /\ (i - 1) + 1 = i
    BY <1>4, <1>8
  <2>2. Tail(b_actf)[i - 1] = b_actf[i]
    BY <2>1, <1>5
  <2>. QED
    BY <2>1, <2>2 DEF Entries
<1>9. b_actf[1] \notin Entries(b_pasf)
  <2>1. DBLK[b_actf[1]] \in Nat
    BY <1>1, Members
  <2>. QED
    BY <2>1 DEF QsortInv, Entries
<1>10. Entries(b_actf) \ {b_actf[1]} \subseteq Entries(Tail(b_actf))
  BY <1>8 DEF Entries
<1>. QED
  BY <1>1, <1>3, <1>5, <1>7, <1>9, <1>10

(* qsort_del keeps the invariant and removes just the head.                *)
LEMMA DelKeeps ==
  ASSUME QsortAssumption, QsortInv, Del
  PROVE  QsortInv' /\ InQueue' = InQueue \ {b_actf[1]}
<1>. DEFINE h == b_actf[1]
            t == Tail(b_actf)
<1>1. /\ b_actf # <<>> /\ Head(b_actf) = h /\ t \in Seq(Requests)
      /\ Len(t) = Len(b_actf) - 1 /\ Entries(t) = Entries(b_actf) \ {h}
      /\ h \notin Entries(b_pasf)
  BY DelTakesHead
<1>2. /\ q_cnt' = q_cnt - 1 /\ q_cnt # 0
      /\ before' = {p \in before : h \notin {p[1], p[2]}}
      /\ \/ t = <<>> /\ b_pasf # <<>> /\ b_actf' = b_pasf /\ b_pasf' = <<>>
         \/ (t # <<>> \/ b_pasf = <<>>) /\ b_actf' = t /\ b_pasf' = b_pasf
  BY <1>1 DEF Del, PassEnds
<1>3. Entries(<<>>) = {}
  BY DEF Entries
<1>4. InQueue' = InQueue \ {h}
  BY <1>1, <1>2, <1>3 DEF InQueue
<1>5. /\ b_actf' \in Seq(Requests) /\ b_pasf' \in Seq(Requests)
      /\ Len(b_actf') + Len(b_pasf') = Len(b_actf) + Len(b_pasf) - 1
      /\ (b_actf' = <<>> => b_pasf' = <<>>)
  <2>1. Len(<<>>) = 0 /\ <<>> \in Seq(Requests)
    BY EmptySeq
  <2>2. CASE t = <<>> /\ b_pasf # <<>> /\ b_actf' = b_pasf /\ b_pasf' = <<>>
    <3>1. Len(b_actf) \in Nat /\ Len(b_pasf) \in Nat
      BY Members
    <3>2. Len(b_actf) - 1 = 0
      BY <2>1, <2>2, <1>1
    <3>3. Len(b_actf) = 1
      BY <3>1, <3>2
    <3>4. Len(b_actf') = Len(b_pasf) /\ Len(b_pasf') = 0
      BY <2>1, <2>2
    <3>5. Len(b_actf') + Len(b_pasf') = Len(b_actf) + Len(b_pasf) - 1
      BY <3>1, <3>3, <3>4
    <3>. QED
      BY <2>1, <2>2, <3>5 DEF QsortInv
  <2>3. CASE (t # <<>> \/ b_pasf = <<>>) /\ b_actf' = t /\ b_pasf' = b_pasf
    <3>1. Len(b_actf') + Len(b_pasf') = Len(b_actf) + Len(b_pasf) - 1
      BY <2>3, <1>1, Members
    <3>. QED
      BY <2>3, <3>1, <1>1 DEF QsortInv
  <2>. QED
    BY <1>2, <2>2, <2>3
<1>6. q_cnt' \in Nat /\ CountExact'
  BY <1>2, <1>5 DEF QsortInv, CountExact
<1>7. \A b, c \in InQueue' : <<b, c>> \in before => <<b, c>> \in before'
  BY <1>2, <1>4
<1>. DEFINE Lined(s) == \A i, j \in DOMAIN s : i < j =>
              /\ \/ DBLK[s[i]] < DBLK[s[j]]
                 \/ DBLK[s[i]] = DBLK[s[j]] /\ <<s[i], s[j]>> \in before'
              /\ s[i] # s[j]
<1>8. Lined(t)
  <2>1. \A i \in DOMAIN t :
          i + 1 \in DOMAIN b_actf /\ t[i] = b_actf[i + 1] /\ i \in Nat
    BY <1>1, DelTakesHead
  <2>2. \A i \in DOMAIN t : t[i] \in InQueue'
    BY <1>1, <1>4 DEF Entries, InQueue
  <2>. SUFFICES ASSUME NEW i \in DOMAIN t, NEW j \in DOMAIN t, i < j
                PROVE  /\ \/ DBLK[t[i]] < DBLK[t[j]]
                          \/ /\ DBLK[t[i]] = DBLK[t[j]]
                             /\ <<t[i], t[j]>> \in before'
                       /\ t[i] # t[j]
    OBVIOUS
  <2>3. i + 1 < j + 1
    BY <2>1
  <2>4. InTurn(t[i], t[j]) /\ t[i] # t[j]
    BY <2>1, <2>3 DEF QsortInv, Sorted
  <2>. QED
    BY <2>2, <2>4, <1>7 DEF InTurn
<1>9. Lined(b_pasf)
  <2>1. \A i \in DOMAIN b_pasf : b_pasf[i] \in InQueue'
    BY <1>1, <1>4 DEF Entries, InQueue
  <2>. QED
    BY <2>1, <1>7 DEF QsortInv, Sorted, InTurn
<1>10. Lined(<<>>)
  OBVIOUS
<1>11. Lined(b_actf') /\ Lined(b_pasf')
  <2>. HIDE DEF Lined
  <2>. QED
    BY <1>2, <1>8, <1>9, <1>10
<1>12. Sorted(b_actf)' /\ Sorted(b_pasf)'
  BY <1>11 DEF Sorted, InTurn
<1>13. \A j \in DOMAIN b_pasf' : DBLK[b_pasf'[j]] < DBLK[b_actf'[1]]
  <2>1. CASE b_pasf' = <<>>
    BY <2>1
  <2>2. CASE b_pasf' # <<>>
    <3>1. t # <<>> /\ b_actf' = t /\ b_pasf' = b_pasf
      BY <2>2, <1>2
    <3>2. 1 \in DOMAIN t /\ 2 \in DOMAIN b_actf /\ t[1] = b_actf[2]
      <4>1. 1 \in DOMAIN t
        BY <3>1, <1>1
      <4>. QED
        BY <4>1, DelTakesHead
    <3>3. DBLK[b_actf[1]] <= DBLK[b_actf[2]]
      <4>0. 1 \in DOMAIN b_actf /\ 1 < 2
        BY <1>1, Members
      <4>1. InTurn(b_actf[1], b_actf[2])
        BY <4>0, <3>2 DEF QsortInv, Sorted
      <4>2. DBLK[b_actf[1]] \in Nat /\ DBLK[b_actf[2]] \in Nat
        BY <4>0, <3>2, Members
      <4>. QED
        BY <4>1, <4>2 DEF InTurn
    <3>4. ASSUME NEW j \in DOMAIN b_pasf
          PROVE  DBLK[b_pasf[j]] < DBLK[b_actf[2]]
      <4>1. DBLK[b_pasf[j]] < DBLK[b_actf[1]]
        BY DEF QsortInv
      <4>2. /\ DBLK[b_pasf[j]] \in Nat /\ DBLK[b_actf[2]] \in Nat
            /\ DBLK[b_actf[1]] \in Nat
        BY <3>2, <1>1, Members
      <4>. QED
        BY <4>1, <4>2, <3>3
    <3>. QED
      BY <3>1, <3>2, <3>4
  <2>. QED
    BY <2>1, <2>2
<1>14. before' \subseteq InQueue' \X InQueue'
  BY <1>2, <1>4 DEF QsortInv
<1>15. \A c, d \in Requests : <<c, d>> \in before' => <<d, c>> \notin before'
  BY <1>2 DEF QsortInv
<1>. QED
  BY <1>4, <1>5, <1>6, <1>12, <1>13, <1>14, <1>15 DEF QsortInv

(* The queue que_create makes is empty: the invariant holds.               *)
LEMMA Start == QsortInit => QsortInv
BY EmptySeq DEF QsortInit, QsortInv, CountExact, Sorted, InQueue, Entries

(* What other code does leaves the queue alone.                            *)
LEMMA StutterKeeps == QsortInv /\ UNCHANGED qsortVars => QsortInv'
BY DEF qsortVars, QsortInv, CountExact, Sorted, InTurn, InQueue, Entries

(* Each call, qsort_add or qsort_del, keeps the invariant.                 *)
LEMMA StepKeeps ==
  QsortAssumption /\ QsortInv /\ [QsortNext]_qsortVars => QsortInv'
BY AddKeeps, DelKeeps, StutterKeeps DEF QsortNext

-----------------------------------------------------------------------------
(* The results.                                                            *)

(* The lists are sorted and apart: the comparisons of oneway_scan_binary   *)
(* with two heads and one successor are enough to keep them so.            *)
THEOREM QsortInvAlways == QsortSpec => []QsortInv
<1>1. QsortInv /\ [QsortNext]_qsortVars => QsortInv'
  BY StepKeeps, QsortAssumption
<1>. QED
  BY <1>1, Start, PTL DEF QsortSpec

(* q_cnt is never positive with b_actf empty, so qsort_del may follow it.  *)
THEOREM CountAlways == QsortSpec => []CountExact
<1>1. QsortInv => CountExact
  BY DEF QsortInv
<1>. QED
  BY <1>1, QsortInvAlways, PTL

(* qsort_del never returns a transfer before an earlier one to its block.  *)
THEOREM SameBlockKept == QsortSpec => SameBlockInOrder
<1>1. QsortAssumption
  BY QsortAssumption
<1>2. ASSUME QsortInv, [QsortNext]_qsortVars,
             NEW b \in InQueue \ InQueue', NEW c \in InQueue,
             DBLK[b] = DBLK[c]
      PROVE  <<c, b>> \notin before
  <2>1. Del
    BY <1>1, <1>2, AddKeeps DEF QsortNext, qsortVars, InQueue
  <2>2. b = b_actf[1] /\ b_actf # <<>>
    BY <1>1, <1>2, <2>1, DelKeeps, DelTakesHead
  <2>3. c # b => InTurn(b, c)
    <3>1. CASE c \in Entries(b_actf)
      <4>1. PICK i \in DOMAIN b_actf : c = b_actf[i]
        BY <3>1 DEF Entries
      <4>2. c # b => 1 < i /\ 1 \in DOMAIN b_actf
        BY <1>1, <1>2, <2>2, <4>1, Members
      <4>. QED
        BY <1>2, <2>2, <4>1, <4>2 DEF QsortInv, Sorted
    <3>2. CASE c \in Entries(b_pasf)
      <4>1. DBLK[c] < DBLK[b]
        BY <1>2, <2>2, <3>2 DEF QsortInv, Entries
      <4>2. DBLK[c] \in Nat /\ DBLK[b] \in Nat
        BY <1>1, <1>2, Members
      <4>. QED
        BY <4>1, <4>2, <1>2
    <3>. QED
      BY <3>1, <3>2 DEF InQueue
  <2>4. b \in Requests /\ c \in Requests /\ DBLK[b] \in Nat /\ DBLK[c] \in Nat
    BY <1>1, <1>2, Members
  <2>5. c # b => <<b, c>> \in before
    BY <1>2, <2>3, <2>4 DEF InTurn
  <2>. QED
    BY <1>2, <2>4, <2>5 DEF QsortInv
<1>3. QsortInv /\ [QsortNext]_qsortVars =>
        [\A b \in InQueue \ InQueue' : \A c \in InQueue :
           DBLK[b] = DBLK[c] => <<c, b>> \notin before]_qsortVars
  BY <1>2
<1>. QED
  BY <1>3, QsortInvAlways, PTL DEF QsortSpec, SameBlockInOrder

(* The head of b_actf is the one whose turn it is.                         *)
LEMMA HeadFirst ==
  ASSUME QsortAssumption, QsortInv, b_actf # <<>>
  PROVE  /\ Scan!First(b_actf[1])
         /\ \A c \in InQueue : Scan!First(c) => DBLK[c] = DBLK[b_actf[1]]
<1>. DEFINE h == b_actf[1]
<1>1. /\ 1 \in DOMAIN b_actf /\ h \in InQueue /\ h \in Entries(b_actf)
      /\ DBLK[h] \in Nat
  BY Members DEF Entries
<1>2. \A c \in Entries(b_pasf) : DBLK[c] < DBLK[h]
  BY DEF QsortInv, Entries
<1>3. h \notin Entries(b_pasf)
  BY <1>1, <1>2
<1>4. ASSUME NEW c \in Entries(b_actf), c # h
      PROVE  InTurn(h, c) /\ c \notin Entries(b_pasf)
  <2>1. PICK i \in DOMAIN b_actf : c = b_actf[i]
    BY DEF Entries
  <2>2. 1 < i
    BY <1>4, <2>1, Members
  <2>3. InTurn(h, c)
    BY <1>1, <2>1, <2>2 DEF QsortInv, Sorted
  <2>4. c \in InQueue /\ DBLK[c] \in Nat
    BY Members DEF InQueue
  <2>. QED
    BY <1>1, <1>2, <2>3, <2>4 DEF InTurn
<1>5. Scan!First(h)
  <2>1. ASSUME NEW c \in InQueue, c # h
        PROVE  \/ h \notin Entries(b_pasf) /\ c \in Entries(b_pasf)
               \/ /\ h \in Entries(b_pasf) <=> c \in Entries(b_pasf)
                  /\ Scan!Precedes(h, c)
    BY <1>3, <1>4, <2>1 DEF InQueue, InTurn, Scan!Precedes
  <2>. QED
    BY <1>1, <2>1 DEF Scan!First
<1>6. ASSUME NEW c \in InQueue, Scan!First(c), c # h
      PROVE  DBLK[c] = DBLK[h]
  <2>1. c \notin Entries(b_pasf) /\ Scan!Precedes(c, h)
    BY <1>1, <1>3, <1>6 DEF Scan!First
  <2>2. InTurn(h, c)
    BY <1>4, <1>6, <2>1 DEF InQueue
  <2>3. DBLK[c] \in Nat
    BY Members
  <2>. QED
    BY <1>1, <2>1, <2>2, <2>3 DEF InTurn, Scan!Precedes
<1>. QED
  BY <1>5, <1>6

(* qsort_add puts a transfer off to the next pass when the scan would.     *)
LEMMA AddIsScan ==
  ASSUME QsortAssumption, QsortInv, NEW b \in Requests, Add(b)
  PROVE  Scan!Add(b)
<1>1. b \notin InQueue /\ before' = before \cup (InQueue \X {b})
  BY DEF Add
<1>2. InQueue' = InQueue \cup {b}
  BY AddKeeps
<1>3. b_actf # <<>> =>
        (LeftBehind(b) <=>
           \E c \in InQueue : Scan!First(c) /\ DBLK[b] < DBLK[c])
  <2>1. b_actf # <<>> => b_actf[1] \in InQueue
    BY Members
  <2>. QED
    BY <2>1, HeadFirst DEF LeftBehind
<1>4. b_actf = <<>> => InQueue = {}
  <2>1. Entries(<<>>) = {}
    BY DEF Entries
  <2>. QED
    BY <2>1 DEF QsortInv, CountExact, InQueue
<1>5. CASE AddFirst(b)
  <2>1. b_pasf' = b_pasf /\ InQueue = {}
    BY <1>4, <1>5 DEF AddFirst
  <2>. QED
    BY <1>1, <1>2, <2>1 DEF Scan!Add
<1>6. CASE AddThisPass(b)
  <2>1. b_pasf' = b_pasf /\ b_actf # <<>> /\ ~LeftBehind(b)
    BY <1>6 DEF AddThisPass
  <2>. QED
    BY <1>1, <1>2, <1>3, <2>1 DEF Scan!Add
<1>7. CASE AddFront(b) \/ AddNextPass(b)
  <2>1. b_actf # <<>> /\ LeftBehind(b)
    BY <1>7 DEF AddFront, AddNextPass
  <2>2. Entries(b_pasf') = Entries(b_pasf) \cup {b}
    <3>1. b_pasf \in Seq(Requests) /\ 0 \in 0..Len(b_pasf)
      BY Members DEF QsortInv
    <3>2. CASE AddFront(b)
      BY <3>1, <3>2, PutAfterSeq DEF AddFront
    <3>3. CASE AddNextPass(b)
      <4>1. PICK k \in 1..Len(b_pasf) : b_pasf' = PutAfter(b_pasf, k, b)
        BY <3>3 DEF AddNextPass
      <4>2. k \in 0..Len(b_pasf)
        OBVIOUS
      <4>. QED
        BY <3>1, <4>1, <4>2, PutAfterSeq
    <3>. QED
      BY <1>7, <3>2, <3>3
  <2>. QED
    BY <1>1, <1>2, <1>3, <2>1, <2>2 DEF Scan!Add
<1>. QED
  BY <1>5, <1>6, <1>7 DEF Add

(* qsort_del takes whose turn it is, and starts the next pass when due.    *)
LEMMA DelIsScan ==
  ASSUME QsortAssumption, QsortInv, Del
  PROVE  b_actf[1] \in Requests /\ Scan!Take(b_actf[1])
<1>. DEFINE h == b_actf[1]
<1>1. /\ b_actf # <<>> /\ Head(b_actf) = h /\ Tail(b_actf) \in Seq(Requests)
      /\ Entries(Tail(b_actf)) = Entries(b_actf) \ {h}
      /\ h \notin Entries(b_pasf)
  BY DelTakesHead
<1>2. InQueue' = InQueue \ {h}
  BY DelKeeps
<1>3. h \in Requests /\ Scan!First(h)
  BY <1>1, HeadFirst, Members
<1>4. before' = {p \in before : h \notin {p[1], p[2]}}
  BY <1>1 DEF Del
<1>5. Entries(<<>>) = {} /\ (b_pasf # <<>> => Entries(b_pasf) # {})
  BY Members DEF Entries
<1>6. Tail(b_actf) # <<>> => ~(InQueue' \subseteq Entries(b_pasf))
  <2>1. SUFFICES ASSUME Tail(b_actf) # <<>>
                 PROVE  \E c \in InQueue' : c \notin Entries(b_pasf)
    OBVIOUS
  <2>2. 1 \in DOMAIN Tail(b_actf)
    BY <1>1, <2>1
  <2>3. Tail(b_actf)[1] = b_actf[2] /\ 2 \in DOMAIN b_actf
    BY <2>2, DelTakesHead
  <2>4. b_actf[2] \in InQueue' /\ b_actf[2] \in Entries(b_actf)
    BY <1>1, <1>2, <2>2, <2>3 DEF Entries, InQueue
  <2>5. DBLK[h] <= DBLK[b_actf[2]] /\ DBLK[h] \in Nat /\ DBLK[b_actf[2]] \in Nat
    <3>1. 1 \in DOMAIN b_actf /\ 1 < 2
      BY <1>1, Members
    <3>2. InTurn(b_actf[1], b_actf[2])
      BY <3>1, <2>3 DEF QsortInv, Sorted
    <3>3. DBLK[h] \in Nat /\ DBLK[b_actf[2]] \in Nat
      BY <3>1, <2>3, Members
    <3>. QED
      BY <3>2, <3>3 DEF InTurn
  <2>6. \A c \in Entries(b_pasf) : DBLK[c] < DBLK[h]
    BY DEF QsortInv, Entries
  <2>. QED
    BY <2>4, <2>5, <2>6
<1>7. Entries(b_pasf') =
        IF InQueue' \subseteq Entries(b_pasf) THEN {} ELSE Entries(b_pasf)
  <2>1. CASE Tail(b_actf) = <<>>
    <3>1. InQueue' = Entries(b_pasf)
      BY <1>1, <1>2, <1>5, <2>1 DEF InQueue
    <3>2. Entries(b_pasf') = {}
      <4>1. b_pasf' = <<>>
        BY <2>1 DEF Del, PassEnds
      <4>. QED
        BY <4>1, <1>5
    <3>. QED
      BY <3>1, <3>2
  <2>2. CASE Tail(b_actf) # <<>>
    <3>1. b_pasf' = b_pasf
      BY <2>2 DEF Del, PassEnds
    <3>. QED
      BY <3>1, <2>2, <1>6
  <2>. QED
    BY <2>1, <2>2
<1>. QED
  BY <1>2, <1>3, <1>4, <1>7 DEF Scan!Take

(* qsort is a one-way scan.                                                *)
THEOREM QsortImplementsScan == QsortSpec => ImplementsScan
<1>1. QsortInit => Scan!Init
  BY DEF QsortInit, Scan!Init, InQueue, Entries
<1>2. QsortInv /\ [QsortNext]_qsortVars => [Scan!Next]_(Scan!vars)
  <2>1. ASSUME UNCHANGED qsortVars
        PROVE  UNCHANGED Scan!vars
    BY <2>1 DEF qsortVars, Scan!vars, InQueue
  <2>. QED
    BY <2>1, AddIsScan, DelIsScan, QsortAssumption DEF QsortNext, Scan!Next
<1>. QED
  BY <1>1, <1>2, QsortInvAlways, PTL DEF QsortSpec, ImplementsScan, Scan!Spec
=============================================================================
