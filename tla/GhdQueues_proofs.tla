-------------------------- MODULE GhdQueues_proofs --------------------------
(***************************************************************************)
(* The invariant of module GhdQueues is inductive, and what follows for    *)
(* the properties of module Ghd: no request is lost or completed twice,    *)
(* each is watched by the timer just as long as it is pending, recovery    *)
(* only escalates and hits the request it is for, completions have         *)
(* somebody coming for them and keep their order, the throttles are exact  *)
(* and hold nobody back in vain, and GHD does what GhdService promises.    *)
(***************************************************************************)
EXTENDS GhdQueues, Ghd_proofs, FiniteSetTheorems

-----------------------------------------------------------------------------
(* Sequences without repetition.                                           *)

(* The elements of a sequence, and its indices.                            *)
LEMMA ElemsIs ==
  ASSUME NEW S, NEW s \in Seq(S)
  PROVE  /\ Len(s) \in Nat /\ DOMAIN s = 1 .. Len(s)
         /\ \A x : x \in Elems(s) <=> \E i \in 1 .. Len(s) : s[i] = x
         /\ Elems(s) \subseteq S
         /\ Elems(s) = {} <=> s = <<>>
<1>1. Len(s) \in Nat /\ DOMAIN s = 1 .. Len(s) /\ \A i \in 1 .. Len(s) : s[i] \in S
  BY LenProperties, ElementOfSeq
<1>2. \A x : x \in Elems(s) <=> \E i \in 1 .. Len(s) : s[i] = x
  BY <1>1 DEF Elems
<1>3. s = <<>> => Elems(s) = {}
  BY <1>1, <1>2, EmptySeq
<1>4. s # <<>> => s[1] \in Elems(s)
  BY <1>1, <1>2, EmptySeq
<1>. QED
  BY <1>1, <1>2, <1>3, <1>4

(* The empty one,                                                          *)
LEMMA NothingRepeats ==
  NoRepeat(<<>>) /\ Elems(<<>>) = {}
BY DEF NoRepeat, Elems

(* a single element,                                                       *)
LEMMA SingleElem ==
  ASSUME NEW S, NEW c \in S
  PROVE  <<c>> \in Seq(S) /\ NoRepeat(<<c>>) /\ Elems(<<c>>) = {c}
<1>1. <<c>> \in Seq(S)
  OBVIOUS
<1>2. DOMAIN <<c>> = {1} /\ <<c>>[1] = c
  OBVIOUS
<1>. QED
  BY <1>1, <1>2 DEF NoRepeat, Elems

(* one more element at the end,                                            *)
LEMMA AppendElems ==
  ASSUME NEW S, NEW s \in Seq(S), NEW c \in S
  PROVE  /\ Append(s, c) \in Seq(S)
         /\ Elems(Append(s, c)) = Elems(s) \cup {c}
         /\ NoRepeat(s) /\ c \notin Elems(s) => NoRepeat(Append(s, c))
<1>. DEFINE r == Append(s, c)
<1>1. /\ r \in Seq(S) /\ Len(r) = Len(s) + 1
      /\ \A i \in 1 .. Len(s) : r[i] = s[i]
      /\ r[Len(s) + 1] = c
  BY AppendProperties
<1>2. /\ Len(s) \in Nat /\ DOMAIN s = 1 .. Len(s)
      /\ \A x : x \in Elems(s) <=> \E i \in 1 .. Len(s) : s[i] = x
  BY ElemsIs
<1>3. /\ DOMAIN r = 1 .. Len(r)
      /\ \A x : x \in Elems(r) <=> \E i \in 1 .. Len(r) : r[i] = x
  BY <1>1, ElemsIs
<1>. HIDE DEF r
<1>4. ASSUME NEW x PROVE x \in Elems(r) <=> x \in Elems(s) \cup {c}
  <2>1. ASSUME x \in Elems(r) PROVE x \in Elems(s) \cup {c}
    <3>1. PICK i \in 1 .. Len(r) : r[i] = x
      BY <1>3, <2>1
    <3>. QED
      BY <3>1, <1>1, <1>2
  <2>2. ASSUME x \in Elems(s) PROVE x \in Elems(r)
    BY <2>2, <1>1, <1>2, <1>3
  <2>3. c \in Elems(r)
    BY <1>1, <1>2, <1>3
  <2>. QED
    BY <2>1, <2>2, <2>3
<1>5. ASSUME NoRepeat(s), c \notin Elems(s) PROVE NoRepeat(r)
  BY <1>1, <1>2, <1>3, <1>5 DEF NoRepeat
<1>. QED
  BY <1>1, <1>4, <1>5 DEF r

(* two sequences after each other,                                         *)
LEMMA ConcatElems ==
  ASSUME NEW S, NEW s \in Seq(S), NEW u \in Seq(S)
  PROVE  /\ s \o u \in Seq(S)
         /\ Elems(s \o u) = Elems(s) \cup Elems(u)
         /\ NoRepeat(s) /\ NoRepeat(u) /\ Elems(s) \cap Elems(u) = {}
              => NoRepeat(s \o u)
<1>. DEFINE r == s \o u
<1>1. /\ r \in Seq(S) /\ Len(r) = Len(s) + Len(u)
      /\ \A i \in 1 .. Len(s) + Len(u) :
           r[i] = IF i <= Len(s) THEN s[i] ELSE u[i - Len(s)]
  BY ConcatProperties
<1>2. /\ Len(s) \in Nat /\ DOMAIN s = 1 .. Len(s)
      /\ \A x : x \in Elems(s) <=> \E i \in 1 .. Len(s) : s[i] = x
  BY ElemsIs
<1>3. /\ Len(u) \in Nat /\ DOMAIN u = 1 .. Len(u)
      /\ \A x : x \in Elems(u) <=> \E i \in 1 .. Len(u) : u[i] = x
  BY ElemsIs
<1>4. /\ DOMAIN r = 1 .. Len(r)
      /\ \A x : x \in Elems(r) <=> \E i \in 1 .. Len(r) : r[i] = x
  BY <1>1, ElemsIs
<1>. HIDE DEF r
<1>5. \A i \in 1 .. Len(s) : i \in 1 .. Len(r) /\ r[i] = s[i]
  BY <1>1, <1>2, <1>3
<1>6. \A i \in 1 .. Len(u) : Len(s) + i \in 1 .. Len(r) /\ r[Len(s) + i] = u[i]
  <2>. TAKE i \in 1 .. Len(u)
  <2>1. Len(s) + i \in 1 .. Len(r) /\ ~(Len(s) + i <= Len(s)) /\ (Len(s) + i) - Len(s) = i
    BY <1>1, <1>2, <1>3
  <2>. QED
    BY <2>1, <1>1
<1>7. \A i \in 1 .. Len(r) :
        \/ i \in 1 .. Len(s) /\ r[i] = s[i]
        \/ i - Len(s) \in 1 .. Len(u) /\ r[i] = u[i - Len(s)]
  BY <1>1, <1>2, <1>3
<1>8. ASSUME NEW x PROVE x \in Elems(r) <=> x \in Elems(s) \cup Elems(u)
  <2>1. ASSUME x \in Elems(r) PROVE x \in Elems(s) \cup Elems(u)
    <3>1. PICK i \in 1 .. Len(r) : r[i] = x
      BY <1>4, <2>1
    <3>. QED
      BY <3>1, <1>7, <1>2, <1>3
  <2>2. ASSUME x \in Elems(s) PROVE x \in Elems(r)
    BY <2>2, <1>2, <1>4, <1>5
  <2>3. ASSUME x \in Elems(u) PROVE x \in Elems(r)
    <3>1. PICK i \in 1 .. Len(u) : u[i] = x
      BY <1>3, <2>3
    <3>. QED
      BY <3>1, <1>4, <1>6
  <2>. QED
    BY <2>1, <2>2, <2>3
<1>9. ASSUME NoRepeat(s), NoRepeat(u), Elems(s) \cap Elems(u) = {}
      PROVE  NoRepeat(r)
  <2>. SUFFICES ASSUME NEW i \in 1 .. Len(r), NEW j \in 1 .. Len(r), r[i] = r[j]
                PROVE  i = j
    BY <1>4 DEF NoRepeat
  <2>1. CASE i \in 1 .. Len(s) /\ r[i] = s[i]
    <3>1. s[i] \in Elems(s)
      BY <2>1, <1>2
    <3>2. ~(j - Len(s) \in 1 .. Len(u) /\ r[j] = u[j - Len(s)])
      BY <3>1, <2>1, <1>3, <1>9
    <3>3. j \in 1 .. Len(s) /\ r[j] = s[j]
      BY <3>2, <1>7
    <3>. QED
      BY <3>3, <2>1, <1>2, <1>9 DEF NoRepeat
  <2>2. CASE i - Len(s) \in 1 .. Len(u) /\ r[i] = u[i - Len(s)]
    <3>1. u[i - Len(s)] \in Elems(u)
      BY <2>2, <1>3
    <3>2. ~(j \in 1 .. Len(s) /\ r[j] = s[j])
      BY <3>1, <2>2, <1>2, <1>9
    <3>3. j - Len(s) \in 1 .. Len(u) /\ r[j] = u[j - Len(s)]
      BY <3>2, <1>7
    <3>4. i - Len(s) = j - Len(s)
      BY <3>3, <2>2, <1>3, <1>9 DEF NoRepeat
    <3>5. i \in Int /\ j \in Int /\ Len(s) \in Int
      BY <1>1, <1>2, <1>3
    <3>. QED
      BY <3>4, <3>5
  <2>. QED
    BY <2>1, <2>2, <1>7
<1>. QED
  BY <1>1, <1>8, <1>9 DEF r

(* the first n elements and the others,                                    *)
LEMMA SplitElems ==
  ASSUME NEW S, NEW s \in Seq(S), NEW n \in Nat, n <= Len(s), NoRepeat(s)
  PROVE  /\ SubSeq(s, 1, n) \in Seq(S) /\ SubSeq(s, n + 1, Len(s)) \in Seq(S)
         /\ Len(SubSeq(s, 1, n)) = n
         /\ NoRepeat(SubSeq(s, 1, n)) /\ NoRepeat(SubSeq(s, n + 1, Len(s)))
         /\ Elems(s) = Elems(SubSeq(s, 1, n)) \cup Elems(SubSeq(s, n + 1, Len(s)))
         /\ Elems(SubSeq(s, 1, n)) \cap Elems(SubSeq(s, n + 1, Len(s))) = {}
<1>. DEFINE a == SubSeq(s, 1, n)
            b == SubSeq(s, n + 1, Len(s))
<1>1. /\ Len(s) \in Nat /\ DOMAIN s = 1 .. Len(s)
      /\ \A x : x \in Elems(s) <=> \E i \in 1 .. Len(s) : s[i] = x
      /\ \A i \in 1 .. Len(s) : s[i] \in S
  BY ElemsIs, ElementOfSeq
<1>2. /\ a \in Seq(S) /\ Len(a) = n
      /\ \A i \in 1 .. n : a[i] = s[i]
  <2>1. \A i \in 1 .. n : s[i] \in S
    BY <1>1
  <2>2. /\ a \in Seq(S) /\ Len(a) = IF 1 <= n THEN n - 1 + 1 ELSE 0
        /\ \A i \in 1 .. n - 1 + 1 : a[i] = s[1 + i - 1]
    BY <2>1, SubSeqProperties, 1 \in Int, n \in Int
  <2>3. \A i \in 1 .. n : i \in 1 .. n - 1 + 1 /\ 1 + i - 1 = i
    OBVIOUS
  <2>. HIDE DEF a
  <2>. QED
    BY <2>2, <2>3
<1>3. /\ b \in Seq(S) /\ Len(b) = Len(s) - n
      /\ \A i \in 1 .. Len(s) - n : b[i] = s[n + i]
  <2>1. \A i \in n + 1 .. Len(s) : s[i] \in S
    BY <1>1
  <2>2. n + 1 \in Int /\ Len(s) \in Int
    BY <1>1
  <2>3. /\ b \in Seq(S) /\ Len(b) = IF n + 1 <= Len(s) THEN Len(s) - (n + 1) + 1 ELSE 0
        /\ \A i \in 1 .. Len(s) - (n + 1) + 1 : b[i] = s[(n + 1) + i - 1]
    BY <2>1, <2>2, SubSeqProperties
  <2>4. \A i \in 1 .. Len(s) - n : i \in 1 .. Len(s) - (n + 1) + 1 /\ (n + 1) + i - 1 = n + i
    BY <1>1
  <2>. HIDE DEF b
  <2>5. Len(b) = Len(s) - n
    <3>1. Len(b) = IF n + 1 <= Len(s) THEN Len(s) - (n + 1) + 1 ELSE 0
      BY <2>3
    <3>2. Len(s) \in Nat
      BY <1>1
    <3>. QED
      BY <3>1, <3>2
  <2>. QED
    BY <2>3, <2>4, <2>5
<1>. HIDE DEF a, b
<1>4. /\ DOMAIN a = 1 .. n
      /\ \A x : x \in Elems(a) <=> \E i \in 1 .. n : a[i] = x
  BY <1>2, ElemsIs
<1>5. /\ DOMAIN b = 1 .. Len(s) - n
      /\ \A x : x \in Elems(b) <=> \E i \in 1 .. Len(s) - n : b[i] = x
  BY <1>3, ElemsIs
<1>6. NoRepeat(a)
  BY <1>1, <1>2, <1>4 DEF NoRepeat
<1>7. NoRepeat(b)
  <2>. SUFFICES ASSUME NEW i \in 1 .. Len(s) - n, NEW j \in 1 .. Len(s) - n, b[i] = b[j]
                PROVE  i = j
    BY <1>5 DEF NoRepeat
  <2>1. n + i \in DOMAIN s /\ n + j \in DOMAIN s /\ s[n + i] = s[n + j]
    BY <1>1, <1>3
  <2>2. n + i = n + j
    BY <2>1 DEF NoRepeat
  <2>. QED
    BY <2>2
<1>8. ASSUME NEW x PROVE x \in Elems(s) <=> x \in Elems(a) \/ x \in Elems(b)
  <2>1. ASSUME x \in Elems(s) PROVE x \in Elems(a) \/ x \in Elems(b)
    <3>1. PICK i \in 1 .. Len(s) : s[i] = x
      BY <1>1, <2>1
    <3>2. CASE i <= n
      BY <3>1, <3>2, <1>2, <1>4
    <3>3. CASE ~(i <= n)
      <4>1. i - n \in 1 .. Len(s) - n /\ n + (i - n) = i
        BY <3>3, <1>1
      <4>2. b[i - n] = x
        BY <4>1, <3>1, <1>3
      <4>. QED
        BY <4>1, <4>2, <1>5
    <3>. QED
      BY <3>2, <3>3
  <2>2. ASSUME x \in Elems(a) PROVE x \in Elems(s)
    BY <2>2, <1>1, <1>2, <1>4
  <2>3. ASSUME x \in Elems(b) PROVE x \in Elems(s)
    <3>1. PICK i \in 1 .. Len(s) - n : b[i] = x
      BY <2>3, <1>5
    <3>2. n + i \in 1 .. Len(s) /\ s[n + i] = x
      BY <3>1, <1>1, <1>3
    <3>. QED
      BY <3>2, <1>1
  <2>. QED
    BY <2>1, <2>2, <2>3
<1>9. ASSUME NEW x, x \in Elems(a), x \in Elems(b) PROVE FALSE
  <2>1. PICK i \in 1 .. n : a[i] = x
    BY <1>9, <1>4
  <2>2. PICK j \in 1 .. Len(s) - n : b[j] = x
    BY <1>9, <1>5
  <2>3. i \in DOMAIN s /\ n + j \in DOMAIN s /\ s[i] = s[n + j]
    BY <2>1, <2>2, <1>1, <1>2, <1>3
  <2>4. i = n + j
    BY <2>3 DEF NoRepeat
  <2>. QED
    BY <2>4, <2>1, <2>2
<1>. QED
  BY <1>2, <1>3, <1>6, <1>7, <1>8, <1>9 DEF a, b

(* the tail,                                                               *)
LEMMA TailElems ==
  ASSUME NEW S, NEW s \in Seq(S), s # <<>>, NoRepeat(s)
  PROVE  /\ Tail(s) \in Seq(S) /\ Head(s) \in Elems(s)
         /\ NoRepeat(Tail(s))
         /\ Elems(Tail(s)) = Elems(s) \ {Head(s)}
<1>1. Len(s) \in Nat /\ 1 <= Len(s) /\ Head(s) = s[1]
  BY LenProperties, EmptySeq
<1>2. Tail(s) = SubSeq(s, 1 + 1, Len(s))
  BY TailIsSubSeq, 1 + 1 = 2
<1>3. /\ SubSeq(s, 1, 1) \in Seq(S) /\ Len(SubSeq(s, 1, 1)) = 1
      /\ SubSeq(s, 1 + 1, Len(s)) \in Seq(S)
      /\ NoRepeat(SubSeq(s, 1 + 1, Len(s)))
      /\ Elems(s) = Elems(SubSeq(s, 1, 1)) \cup Elems(SubSeq(s, 1 + 1, Len(s)))
      /\ Elems(SubSeq(s, 1, 1)) \cap Elems(SubSeq(s, 1 + 1, Len(s))) = {}
  BY <1>1, SplitElems, 1 \in Nat
<1>4. SubSeq(s, 1, 1)[1] = s[1]
  <2>1. 1 \in 1 .. Len(s) /\ 1 \in 1 .. Len(s)
    BY <1>1
  <2>2. Head(SubSeq(s, 1, 1)) = s[1]
    BY <2>1, HeadTailOfSubSeq
  <2>. QED
    BY <2>2
<1>5. Elems(SubSeq(s, 1, 1)) = {Head(s)}
  <2>. DEFINE a == SubSeq(s, 1, 1)
  <2>1. a \in Seq(S) /\ Len(a) = 1 /\ a[1] = Head(s)
    BY <1>1, <1>3, <1>4
  <2>. HIDE DEF a
  <2>2. \A x : x \in Elems(a) <=> \E i \in 1 .. Len(a) : a[i] = x
    BY <2>1, ElemsIs
  <2>3. \A i : i \in 1 .. Len(a) <=> i = 1
    BY <2>1
  <2>4. \A x : x \in Elems(a) <=> x = Head(s)
    BY <2>1, <2>2, <2>3
  <2>. QED
    BY <2>4 DEF a
<1>6. /\ Elems(SubSeq(s, 1 + 1, Len(s))) = Elems(s) \ {Head(s)}
      /\ Head(s) \in Elems(s)
  <2>. DEFINE a == Elems(SubSeq(s, 1, 1))
              b == Elems(SubSeq(s, 1 + 1, Len(s)))
              h == Head(s)
  <2>1. Elems(s) = a \cup b /\ a \cap b = {} /\ a = {h}
    BY <1>3, <1>5
  <2>. HIDE DEF a, b, h
  <2>2. b = Elems(s) \ {h} /\ h \in Elems(s)
    BY <2>1
  <2>. QED
    BY <2>2 DEF b, h
<1>. QED
  BY <1>2, <1>3, <1>6

(* and what L2_delete leaves.                                              *)
LEMMA UnlinkElems ==
  ASSUME NEW S, NEW s \in Seq(S), NEW c, NoRepeat(s)
  PROVE  /\ Unlink(s, c) \in Seq(S)
         /\ NoRepeat(Unlink(s, c))
         /\ Elems(Unlink(s, c)) = Elems(s) \ {c}
<1>1. CASE c \notin Elems(s)
  BY <1>1 DEF Unlink
<1>2. CASE c \in Elems(s)
  <2>. DEFINE k == CHOOSE i \in DOMAIN s : s[i] = c
              a == SubSeq(s, 1, k - 1)
              b == SubSeq(s, k + 1, Len(s))
              m == SubSeq(s, 1, k)
  <2>1. Len(s) \in Nat /\ DOMAIN s = 1 .. Len(s)
    BY ElemsIs
  <2>2. k \in 1 .. Len(s) /\ s[k] = c
    BY <1>2, <2>1 DEF Elems
  <2>3. Unlink(s, c) = a \o b
    BY <1>2 DEF Unlink
  <2>. HIDE DEF k
  <2>4. k \in Nat /\ k - 1 \in Nat /\ k <= Len(s) /\ k - 1 <= Len(s) /\ (k - 1) + 1 = k
    BY <2>1, <2>2
  <2>5. /\ m \in Seq(S) /\ b \in Seq(S) /\ Len(m) = k /\ NoRepeat(m) /\ NoRepeat(b)
        /\ Elems(s) = Elems(m) \cup Elems(b) /\ Elems(m) \cap Elems(b) = {}
    BY <2>4, SplitElems
  <2>6. a \in Seq(S) /\ NoRepeat(a) /\ Elems(a) \subseteq Elems(s)
    BY <2>4, SplitElems
  <2>7. /\ \A i \in 1 .. k : m[i] = s[i]
        /\ Len(a) = k - 1 /\ \A i \in 1 .. k - 1 : a[i] = s[i]
    <3>1. \A i \in 1 .. Len(s) : s[i] \in S
      BY ElementOfSeq
    <3>2. 1 \in Int /\ k \in Int /\ k - 1 \in Int
          /\ (\A i \in 1 .. k : s[i] \in S) /\ (\A i \in 1 .. k - 1 : s[i] \in S)
      BY <2>4, <3>1
    <3>3. \A i \in 1 .. k - 1 + 1 : m[i] = s[1 + i - 1]
      BY <3>2, SubSeqProperties
    <3>4. /\ Len(a) = IF 1 <= k - 1 THEN k - 1 - 1 + 1 ELSE 0
          /\ \A i \in 1 .. k - 1 - 1 + 1 : a[i] = s[1 + i - 1]
      BY <3>2, SubSeqProperties
    <3>5. \A i \in 1 .. k : i \in 1 .. k - 1 + 1 /\ 1 + i - 1 = i
      BY <2>4
    <3>6. \A i \in 1 .. k - 1 : i \in 1 .. k - 1 - 1 + 1 /\ 1 + i - 1 = i
      BY <2>4
    <3>. HIDE DEF a, m
    <3>. QED
      BY <2>4, <3>3, <3>4, <3>5, <3>6
  <2>. HIDE DEF a, b, m
  <2>8. \A x : x \in Elems(m) <=> \E i \in 1 .. k : m[i] = x
    BY <2>5, ElemsIs
  <2>9. \A x : x \in Elems(a) <=> \E i \in 1 .. k - 1 : a[i] = x
    BY <2>6, <2>7, ElemsIs
  <2>10. Elems(m) = Elems(a) \cup {c}
    <3>1. ASSUME NEW x, x \in Elems(m) PROVE x \in Elems(a) \cup {c}
      <4>1. PICK i \in 1 .. k : m[i] = x
        BY <3>1, <2>8
      <4>2. CASE i = k
        BY <4>1, <4>2, <2>2, <2>7
      <4>3. CASE i # k
        <5>1. i \in 1 .. k - 1
          BY <4>1, <4>3, <2>4
        <5>. QED
          BY <4>1, <5>1, <2>7, <2>9
      <4>. QED
        BY <4>2, <4>3
    <3>2. ASSUME NEW x, x \in Elems(a) PROVE x \in Elems(m)
      <4>1. PICK i \in 1 .. k - 1 : a[i] = x
        BY <3>2, <2>9
      <4>2. i \in 1 .. k
        BY <4>1, <2>4
      <4>. QED
        BY <4>1, <4>2, <2>7, <2>8
    <3>3. c \in Elems(m)
      <4>1. k \in 1 .. k
        BY <2>2, <2>1
      <4>. QED
        BY <4>1, <2>2, <2>7, <2>8
    <3>. QED
      BY <3>1, <3>2, <3>3
  <2>11. c \notin Elems(a)
    <3>1. SUFFICES ASSUME c \in Elems(a) PROVE FALSE
      OBVIOUS
    <3>2. PICK i \in 1 .. k - 1 : a[i] = c
      BY <3>1, <2>9
    <3>3. i \in 1 .. Len(s) /\ s[i] = s[k] /\ i # k
      BY <3>2, <2>2, <2>4, <2>7
    <3>. QED
      BY <3>3, <2>1, <2>2 DEF NoRepeat
  <2>12. /\ a \o b \in Seq(S) /\ Elems(a \o b) = Elems(a) \cup Elems(b)
         /\ NoRepeat(a \o b)
    BY <2>5, <2>6, <2>10, ConcatElems
  <2>. QED
    BY <2>3, <2>5, <2>10, <2>11, <2>12
<1>. QED
  BY <1>1, <1>2

-----------------------------------------------------------------------------
(* The wait queue operators.                                               *)

(* sol11ghd_waitq_shuffle_up moves a head of the device's queue to the     *)
(* tail of the adapter's, and stops short of all of it only for want of    *)
(* room.                                                                   *)
LEMMA ShuffleUpMoves ==
  ASSUME NEW q \in WaitqStates, NEW d \in Devs, NoRepeat(q.devq[d])
  PROVE  \E up, rest \in Seq(Cmds) :
           /\ NoRepeat(up) /\ NoRepeat(rest)
           /\ Elems(q.devq[d]) = Elems(up) \cup Elems(rest)
           /\ Elems(up) \cap Elems(rest) = {}
           /\ rest # <<>> => Len(up) = Room(q, d)
           /\ Len(up) <= Room(q, d)
           /\ ShuffleUp(q, d).devq = [q.devq EXCEPT ![d] = rest]
           /\ ShuffleUp(q, d).hbaq = q.hbaq \o up
           /\ ShuffleUp(q, d).hbaActive = q.hbaActive
           /\ ShuffleUp(q, d).devActive = [q.devActive EXCEPT ![d] = @ + Len(up)]
           /\ ShuffleUp(q, d).level =
                [c \in Cmds |-> IF c \in Elems(up) THEN q.level[c] + 1 ELSE q.level[c]]
<1>. DEFINE s == q.devq[d]
            n == IF Room(q, d) < Len(s) THEN Room(q, d) ELSE Len(s)
            up == SubSeq(s, 1, n)
            rest == SubSeq(s, n + 1, Len(s))
            r == ShuffleUp(q, d)
<1>1. s \in Seq(Cmds)
  BY DEF WaitqStates
<1>2. Room(q, d) \in Nat /\ Len(s) \in Nat
  BY <1>1, RoomType, LenProperties
<1>3. n \in Nat /\ n <= Len(s) /\ n <= Room(q, d) /\ (n # Len(s) => n = Room(q, d))
  BY <1>2
<1>4. /\ r.devq = [q.devq EXCEPT ![d] = rest]
      /\ r.hbaq = q.hbaq \o up
      /\ r.hbaActive = q.hbaActive
      /\ r.devActive = [q.devActive EXCEPT ![d] = @ + n]
      /\ r.level = [c \in Cmds |-> IF c \in Elems(up) THEN q.level[c] + 1
                                                     ELSE q.level[c]]
  BY DEF ShuffleUp, WaitqStates
<1>. HIDE DEF n, r
<1>5. /\ up \in Seq(Cmds) /\ rest \in Seq(Cmds) /\ Len(up) = n
      /\ NoRepeat(up) /\ NoRepeat(rest)
      /\ Elems(s) = Elems(up) \cup Elems(rest) /\ Elems(up) \cap Elems(rest) = {}
  BY <1>1, <1>3, SplitElems
<1>6. rest # <<>> => n # Len(s)
  <2>. SUFFICES ASSUME n = Len(s) PROVE rest = <<>>
    OBVIOUS
  <2>1. n + 1 \in Int /\ Len(s) \in Int /\ Len(s) < n + 1
    BY <1>2
  <2>. QED
    BY <2>1, SubSeqEmpty
<1>. HIDE DEF up, rest, s
<1>7. (rest # <<>> => Len(up) = Room(q, d)) /\ Len(up) <= Room(q, d)
  BY <1>3, <1>5, <1>6
<1>8. r.devActive = [q.devActive EXCEPT ![d] = @ + Len(up)]
  BY <1>4, <1>5
<1>. QED
  BY <1>4, <1>5, <1>7, <1>8 DEF r, s

(* Nobody leaves the wait queues, and the levels follow.                   *)
LEMMA ShuffleUpWaits ==
  ASSUME NEW q \in WaitqStates, NEW d \in Devs, WaitqInv(q)
  PROVE  /\ WaitqInv(ShuffleUp(q, d))
         /\ \A c \in Cmds : Waits(ShuffleUp(q, d), c) <=> Waits(q, c)
         /\ \A c \in Cmds : ~Waits(q, c) => ShuffleUp(q, d).level[c] = q.level[c]
<1>. DEFINE r == ShuffleUp(q, d)
<1>1. /\ NoRepeat(q.devq[d]) /\ q.devq[d] \in Seq(Cmds) /\ q.hbaq \in Seq(Cmds)
      /\ q.devq \in [Devs -> Seq(Cmds)] /\ q.level \in [Cmds -> Int]
  BY DEF WaitqInv, WaitqStates
<1>2. PICK up, rest \in Seq(Cmds) :
           /\ NoRepeat(up) /\ NoRepeat(rest)
           /\ Elems(q.devq[d]) = Elems(up) \cup Elems(rest)
           /\ Elems(up) \cap Elems(rest) = {}
           /\ rest # <<>> => Len(up) = Room(q, d)
           /\ Len(up) <= Room(q, d)
           /\ r.devq = [q.devq EXCEPT ![d] = rest]
           /\ r.hbaq = q.hbaq \o up
           /\ r.hbaActive = q.hbaActive
           /\ r.devActive = [q.devActive EXCEPT ![d] = @ + Len(up)]
           /\ r.level = [c \in Cmds |-> IF c \in Elems(up) THEN q.level[c] + 1
                                                          ELSE q.level[c]]
  BY <1>1, ShuffleUpMoves
<1>. HIDE DEF r
<1>3. \A e \in Devs : \A c \in Elems(q.devq[e]) : c \in Cmds /\ Dev[c] = e /\ q.level[c] = 1
  BY ElemsIs DEF WaitqInv, WaitqStates
<1>4. \A c \in Elems(q.hbaq) : c \in Cmds /\ q.level[c] = 2
  BY ElemsIs, <1>1 DEF WaitqInv
<1>5. Elems(q.hbaq) \cap Elems(up) = {}
  <2>1. \A c \in Elems(up) : q.level[c] = 1
    BY <1>2, <1>3
  <2>. QED
    BY <2>1, <1>4
<1>6. NoRepeat(r.hbaq) /\ Elems(r.hbaq) = Elems(q.hbaq) \cup Elems(up)
  BY <1>1, <1>2, <1>5, ConcatElems DEF WaitqInv
<1>7. r.devq[d] = rest /\ \A e \in Devs \ {d} : r.devq[e] = q.devq[e]
  BY <1>1, <1>2
<1>8. \A c \in Elems(r.hbaq) : r.level[c] = 2
  <2>. TAKE c \in Elems(r.hbaq)
  <2>1. CASE c \in Elems(up)
    <3>1. c \in Cmds /\ q.level[c] = 1
      BY <2>1, <1>2, <1>3
    <3>. QED
      BY <2>1, <3>1, <1>2
  <2>2. CASE c \notin Elems(up)
    BY <2>2, <1>2, <1>4, <1>6
  <2>. QED
    BY <2>1, <2>2
<1>9. ASSUME NEW e \in Devs
      PROVE  NoRepeat(r.devq[e]) /\ \A c \in Elems(r.devq[e]) : Dev[c] = e /\ r.level[c] = 1
  <2>1. \A c \in Elems(r.devq[e]) : c \in Elems(q.devq[e]) /\ c \notin Elems(up)
    <3>1. CASE e = d
      BY <3>1, <1>2, <1>7
    <3>2. CASE e # d
      <4>1. \A c \in Elems(up) : Dev[c] = d
        BY <1>2, <1>3
      <4>. QED
        BY <3>2, <4>1, <1>3, <1>7
    <3>. QED
      BY <3>1, <3>2
  <2>2. NoRepeat(r.devq[e])
    BY <1>2, <1>7 DEF WaitqInv
  <2>. QED
    BY <2>1, <2>2, <1>2, <1>3
<1>10. ASSUME NEW c \in Cmds PROVE Waits(r, c) <=> Waits(q, c)
  <2>1. Dev[c] \in Devs
    BY WaitqAssumption
  <2>2. c \in Elems(up) => Dev[c] = d
    BY <1>2, <1>3
  <2>3. CASE Dev[c] = d
    BY <2>3, <1>2, <1>6, <1>7 DEF Waits
  <2>4. CASE Dev[c] # d
    BY <2>1, <2>2, <2>4, <1>6, <1>7 DEF Waits
  <2>. QED
    BY <2>3, <2>4
<1>11. ASSUME NEW c \in Cmds, ~Waits(q, c) PROVE r.level[c] = q.level[c]
  <2>1. c \notin Elems(up)
    BY <1>11, <1>2, <1>3 DEF Waits
  <2>. QED
    BY <2>1, <1>2
<1>. QED
  BY <1>6, <1>8, <1>9, <1>10, <1>11 DEF WaitqInv, r

(* The queues with the new request, before the promotion.                  *)
Joined(q, c) == [q EXCEPT !.level[c] = 1, !.devq[Dev[c]] = Append(@, c)]

(* A request that joins its device's queue waits there.                    *)
LEMMA JoinedWaits ==
  ASSUME NEW q \in WaitqStates, NEW c \in Cmds, WaitqInv(q), ~Waits(q, c)
  PROVE  /\ Joined(q, c) \in WaitqStates /\ WaitqInv(Joined(q, c))
         /\ Joined(q, c).devq = [q.devq EXCEPT ![Dev[c]] = Append(q.devq[Dev[c]], c)]
         /\ Joined(q, c).hbaq = q.hbaq /\ Joined(q, c).level = [q.level EXCEPT ![c] = 1]
         /\ Joined(q, c).devActive = q.devActive
         /\ Joined(q, c).hbaActive = q.hbaActive
         /\ \A x \in Cmds : Waits(Joined(q, c), x) <=> Waits(q, x) \/ x = c
<1>. DEFINE d == Dev[c]
            r == [q EXCEPT !.level[c] = 1, !.devq[d] = Append(@, c)]
<1>1. d \in Devs /\ q.devq[d] \in Seq(Cmds)
  BY WaitqAssumption DEF WaitqStates
<1>2. c \notin Elems(q.devq[d]) /\ c \notin Elems(q.hbaq)
  BY DEF Waits
<1>3. /\ Append(q.devq[d], c) \in Seq(Cmds) /\ NoRepeat(Append(q.devq[d], c))
      /\ Elems(Append(q.devq[d], c)) = Elems(q.devq[d]) \cup {c}
  BY <1>1, <1>2, AppendElems DEF WaitqInv
<1>4. /\ r.devq = [q.devq EXCEPT ![d] = Append(q.devq[d], c)]
      /\ r.hbaq = q.hbaq /\ r.level = [q.level EXCEPT ![c] = 1]
      /\ r.devActive = q.devActive /\ r.hbaActive = q.hbaActive
  BY <1>1 DEF WaitqStates
<1>5. r \in WaitqStates
  <2>1. r = [q EXCEPT !.level = [q.level EXCEPT ![c] = 1],
                      !.devq = [q.devq EXCEPT ![d] = Append(q.devq[d], c)]]
    BY <1>1 DEF WaitqStates
  <2>2. [q.level EXCEPT ![c] = 1] \in [Cmds -> Int]
    BY DEF WaitqStates
  <2>3. [q.devq EXCEPT ![d] = Append(q.devq[d], c)] \in [Devs -> Seq(Cmds)]
    BY <1>1, <1>3 DEF WaitqStates
  <2>. HIDE DEF r
  <2>. QED
    BY <2>1, <2>2, <2>3 DEF WaitqStates
<1>6. Joined(q, c) = r
  BY DEF Joined
<1>. HIDE DEF r
<1>7. \A e \in Devs : \A x \in Elems(q.devq[e]) : x \in Cmds /\ Dev[x] = e /\ q.level[x] = 1
  BY ElemsIs DEF WaitqInv, WaitqStates
<1>8. \A x \in Elems(q.hbaq) : x \in Cmds /\ q.level[x] = 2
  BY ElemsIs DEF WaitqInv, WaitqStates
<1>9. /\ \A x \in Cmds \ {c} : r.level[x] = q.level[x]
      /\ r.level[c] = 1
      /\ r.devq[d] = Append(q.devq[d], c)
      /\ \A e \in Devs \ {d} : r.devq[e] = q.devq[e]
  BY <1>1, <1>4 DEF WaitqStates
<1>10. WaitqInv(r)
  <2>1. NoRepeat(r.hbaq) /\ \A x \in Elems(r.hbaq) : r.level[x] = 2
    BY <1>2, <1>4, <1>8, <1>9 DEF WaitqInv
  <2>2. ASSUME NEW e \in Devs
        PROVE  NoRepeat(r.devq[e]) /\ \A x \in Elems(r.devq[e]) : Dev[x] = e /\ r.level[x] = 1
    <3>1. CASE e = d
      BY <3>1, <1>3, <1>7, <1>9
    <3>2. CASE e # d
      <4>1. c \notin Elems(q.devq[e])
        BY <3>2, <1>7
      <4>. QED
        BY <3>2, <4>1, <1>7, <1>9 DEF WaitqInv
    <3>. QED
      BY <3>1, <3>2
  <2>. QED
    BY <2>1, <2>2 DEF WaitqInv
<1>11. \A x \in Cmds : Waits(r, x) <=> Waits(q, x) \/ x = c
  <2>. TAKE x \in Cmds
  <2>1. Dev[x] \in Devs
    BY WaitqAssumption
  <2>2. CASE Dev[x] = d
    BY <2>2, <1>3, <1>4, <1>9 DEF Waits
  <2>3. CASE Dev[x] # d
    BY <2>1, <2>3, <1>4, <1>9 DEF Waits
  <2>. QED
    BY <2>2, <2>3
<1>. QED
  BY <1>4, <1>5, <1>6, <1>10, <1>11

(* A new request waits (sol11ghd_transport),                               *)
LEMMA EnqueueWaits ==
  ASSUME NEW q \in WaitqStates, NEW c \in Cmds, WaitqInv(q), ~Waits(q, c)
  PROVE  /\ WaitqInv(Enqueue(q, c))
         /\ \A x \in Cmds : Waits(Enqueue(q, c), x) <=> Waits(q, x) \/ x = c
         /\ \A x \in Cmds : ~Waits(q, x) /\ x # c => Enqueue(q, c).level[x] = q.level[x]
<1>. DEFINE r == Joined(q, c)
<1>1. Enqueue(q, c) = ShuffleUp(r, Dev[c]) /\ Dev[c] \in Devs
  BY WaitqAssumption DEF Enqueue, Joined
<1>2. /\ r \in WaitqStates /\ WaitqInv(r)
      /\ \A x \in Cmds : Waits(r, x) <=> Waits(q, x) \/ x = c
      /\ \A x \in Cmds : x # c => r.level[x] = q.level[x]
  <2>1. q.level \in [Cmds -> Int]
    BY DEF WaitqStates
  <2>2. /\ r \in WaitqStates /\ WaitqInv(r) /\ r.level = [q.level EXCEPT ![c] = 1]
        /\ \A x \in Cmds : Waits(r, x) <=> Waits(q, x) \/ x = c
    BY JoinedWaits
  <2>. HIDE DEF r
  <2>. QED
    BY <2>1, <2>2
<1>. HIDE DEF r
<1>. QED
  BY <1>1, <1>2, ShuffleUpWaits

(* The queues without a request, before the promotion: its level tells     *)
(* where it has to be removed from.                                        *)
Removed(q, c) ==
  LET l == q.level[c]
  IN  [q EXCEPT !.devq[Dev[c]] = IF l = 1 THEN Unlink(@, c) ELSE @,
                !.hbaq = IF l = 2 THEN Unlink(@, c) ELSE @,
                !.devActive[Dev[c]] = IF l \in {2, 3} THEN @ - 1 ELSE @,
                !.hbaActive = IF l = 3 THEN @ - 1 ELSE @]

(* A request that leaves the queues no longer waits.                       *)
LEMMA RemovedWaits ==
  ASSUME NEW q \in WaitqStates, NEW c \in Cmds, WaitqInv(q),
         Waits(q, c) \/ q.level[c] = 3
  PROVE  /\ Removed(q, c) \in WaitqStates /\ WaitqInv(Removed(q, c))
         /\ Removed(q, c).level = q.level
         /\ Elems(Removed(q, c).hbaq) = Elems(q.hbaq) \ {c}
         /\ \A e \in Devs \ {Dev[c]} : Removed(q, c).devq[e] = q.devq[e]
         /\ Removed(q, c).devActive =
              [q.devActive EXCEPT ![Dev[c]] = IF q.level[c] \in {2, 3} THEN @ - 1 ELSE @]
         /\ Removed(q, c).hbaActive =
              IF q.level[c] = 3 THEN q.hbaActive - 1 ELSE q.hbaActive
         /\ \A x \in Cmds : Waits(Removed(q, c), x) <=> Waits(q, x) /\ x # c
<1>. DEFINE d == Dev[c]
            l == q.level[c]
            r == [q EXCEPT
                    !.devq[d] = IF l = 1 THEN Unlink(@, c) ELSE @,
                    !.hbaq = IF l = 2 THEN Unlink(@, c) ELSE @,
                    !.devActive[d] = IF l \in {2, 3} THEN @ - 1 ELSE @,
                    !.hbaActive = IF l = 3 THEN @ - 1 ELSE @]
            dq == IF l = 1 THEN Unlink(q.devq[d], c) ELSE q.devq[d]
            hq == IF l = 2 THEN Unlink(q.hbaq, c) ELSE q.hbaq
<1>1. d \in Devs /\ q.devq[d] \in Seq(Cmds) /\ q.hbaq \in Seq(Cmds)
  BY WaitqAssumption DEF WaitqStates
<1>2. \A e \in Devs : \A x \in Elems(q.devq[e]) : x \in Cmds /\ Dev[x] = e /\ q.level[x] = 1
  BY ElemsIs DEF WaitqInv, WaitqStates
<1>3. \A x \in Elems(q.hbaq) : x \in Cmds /\ q.level[x] = 2
  BY ElemsIs DEF WaitqInv, WaitqStates
<1>4. (c \in Elems(q.devq[d]) => l = 1) /\ (c \in Elems(q.hbaq) => l = 2)
  BY <1>1, <1>2, <1>3
<1>5. dq \in Seq(Cmds) /\ NoRepeat(dq) /\ Elems(dq) = Elems(q.devq[d]) \ {c}
  <2>1. CASE l = 1
    BY <2>1, <1>1, UnlinkElems DEF WaitqInv
  <2>2. CASE l # 1
    BY <2>2, <1>1, <1>4 DEF WaitqInv
  <2>. QED
    BY <2>1, <2>2
<1>6. hq \in Seq(Cmds) /\ NoRepeat(hq) /\ Elems(hq) = Elems(q.hbaq) \ {c}
  <2>1. CASE l = 2
    BY <2>1, <1>1, UnlinkElems DEF WaitqInv
  <2>2. CASE l # 2
    BY <2>2, <1>1, <1>4 DEF WaitqInv
  <2>. QED
    BY <2>1, <2>2
<1>. DEFINE da == [q.devActive EXCEPT ![d] = IF l \in {2, 3} THEN @ - 1 ELSE @]
            ha == IF l = 3 THEN q.hbaActive - 1 ELSE q.hbaActive
<1>7. r = [q EXCEPT !.devq = [q.devq EXCEPT ![d] = dq], !.hbaq = hq,
                    !.devActive = da, !.hbaActive = ha]
  BY DEF WaitqStates
<1>8. da \in [Devs -> Int] /\ ha \in Int
  BY <1>1 DEF WaitqStates
<1>9. Removed(q, c) = r
  BY DEF Removed
<1>. HIDE DEF r, dq, hq, da, ha, l
<1>10. r \in WaitqStates
  <2>1. [q.devq EXCEPT ![d] = dq] \in [Devs -> Seq(Cmds)]
    BY <1>1, <1>5 DEF WaitqStates
  <2>. QED
    BY <2>1, <1>6, <1>7, <1>8 DEF WaitqStates
<1>11. /\ r.level = q.level /\ r.hbaq = hq /\ r.devq[d] = dq
       /\ r.devActive = da /\ r.hbaActive = ha
       /\ \A e \in Devs \ {d} : r.devq[e] = q.devq[e]
  BY <1>1, <1>7 DEF WaitqStates
<1>12. WaitqInv(r)
  <2>1. ASSUME NEW e \in Devs
        PROVE  NoRepeat(r.devq[e]) /\ \A x \in Elems(r.devq[e]) : Dev[x] = e /\ r.level[x] = 1
    <3>1. CASE e = d
      BY <3>1, <1>2, <1>5, <1>11
    <3>2. CASE e # d
      BY <3>2, <1>2, <1>11 DEF WaitqInv
    <3>. QED
      BY <3>1, <3>2
  <2>. QED
    BY <2>1, <1>3, <1>6, <1>11 DEF WaitqInv
<1>13. \A x \in Cmds : Waits(r, x) <=> Waits(q, x) /\ x # c
  <2>. TAKE x \in Cmds
  <2>1. Dev[x] \in Devs
    BY WaitqAssumption
  <2>2. CASE Dev[x] = d
    BY <2>2, <1>5, <1>6, <1>11 DEF Waits
  <2>3. CASE Dev[x] # d
    BY <2>1, <2>3, <1>6, <1>11 DEF Waits
  <2>. QED
    BY <2>2, <2>3
<1>. QED
  BY <1>6, <1>9, <1>10, <1>11, <1>12, <1>13 DEF da, ha, l

(* and one that is finished, aborted or timed out does not any more        *)
(* (sol11ghd_waitq_delete).                                                *)
LEMMA WaitqDeleteWaits ==
  ASSUME NEW q \in WaitqStates, NEW c \in Cmds, WaitqInv(q),
         Waits(q, c) \/ q.level[c] = 3
  PROVE  /\ WaitqInv(WaitqDelete(q, c))
         /\ \A x \in Cmds : Waits(WaitqDelete(q, c), x) <=> Waits(q, x) /\ x # c
         /\ \A x \in Cmds : ~Waits(q, x) => WaitqDelete(q, c).level[x] = q.level[x]
<1>. DEFINE r == Removed(q, c)
<1>1. WaitqDelete(q, c) = ShuffleUp(r, Dev[c]) /\ Dev[c] \in Devs
  BY WaitqAssumption DEF WaitqDelete, Removed
<1>2. /\ r \in WaitqStates /\ WaitqInv(r) /\ r.level = q.level
      /\ \A x \in Cmds : Waits(r, x) <=> Waits(q, x) /\ x # c
  BY RemovedWaits
<1>. HIDE DEF r
<1>. QED
  BY <1>1, <1>2, ShuffleUpWaits

(* The popped request stops waiting, at the level of those in flight,      *)
LEMMA PopHbaWaits ==
  ASSUME NEW q \in WaitqStates, WaitqInv(q), CanStart(q)
  PROVE  /\ WaitqInv(PopHba(q))
         /\ Head(q.hbaq) \in Cmds /\ Waits(q, Head(q.hbaq))
         /\ \A x \in Cmds : Waits(PopHba(q), x) <=> Waits(q, x) /\ x # Head(q.hbaq)
         /\ PopHba(q).level[Head(q.hbaq)] = 3
         /\ \A x \in Cmds : x # Head(q.hbaq) => PopHba(q).level[x] = q.level[x]
<1>. DEFINE h == Head(q.hbaq)
            r == PopHba(q)
<1>1. /\ q.hbaq \in Seq(Cmds) /\ q.hbaq # <<>> /\ NoRepeat(q.hbaq)
      /\ q.level \in [Cmds -> Int]
  BY DEF CanStart, WaitqStates, WaitqInv
<1>2. /\ h \in Elems(q.hbaq) /\ NoRepeat(Tail(q.hbaq))
      /\ Elems(Tail(q.hbaq)) = Elems(q.hbaq) \ {h}
  BY <1>1, TailElems
<1>3. h \in Cmds /\ q.level[h] = 2 /\ \A x \in Elems(q.hbaq) : x \in Cmds /\ q.level[x] = 2
  BY <1>1, <1>2, ElemsIs DEF WaitqInv
<1>4. \A e \in Devs : \A x \in Elems(q.devq[e]) : x \in Cmds /\ Dev[x] = e /\ q.level[x] = 1
  BY ElemsIs DEF WaitqInv, WaitqStates
<1>5. /\ r.hbaq = Tail(q.hbaq) /\ r.devq = q.devq
      /\ r.level = [q.level EXCEPT ![h] = @ + 1]
  BY DEF PopHba, WaitqStates
<1>. HIDE DEF h, r
<1>6. r.level[h] = 3 /\ \A x \in Cmds : x # h => r.level[x] = q.level[x]
  BY <1>1, <1>3, <1>5
<1>7. WaitqInv(r)
  <2>1. \A e \in Devs : \A x \in Elems(q.devq[e]) : x # h
    BY <1>3, <1>4
  <2>. QED
    BY <2>1, <1>2, <1>3, <1>4, <1>5, <1>6 DEF WaitqInv
<1>8. \A x \in Cmds : Waits(r, x) <=> Waits(q, x) /\ x # h
  <2>. TAKE x \in Cmds
  <2>1. Dev[x] \in Devs
    BY WaitqAssumption
  <2>2. h \notin Elems(q.devq[Dev[x]])
    BY <2>1, <1>3, <1>4
  <2>. QED
    BY <2>2, <1>2, <1>5 DEF Waits
<1>9. Waits(q, h)
  BY <1>2 DEF Waits
<1>. QED
  BY <1>3, <1>6, <1>7, <1>8, <1>9 DEF h, r

(* and a refused one waits again, at the head.                             *)
LEMMA RequeueWaits ==
  ASSUME NEW q \in WaitqStates, NEW c \in Cmds, WaitqInv(q), ~Waits(q, c), q.level[c] = 3
  PROVE  /\ WaitqInv(Requeue(q, c))
         /\ \A x \in Cmds : Waits(Requeue(q, c), x) <=> Waits(q, x) \/ x = c
         /\ \A x \in Cmds : x # c => Requeue(q, c).level[x] = q.level[x]
<1>. DEFINE r == Requeue(q, c)
<1>1. /\ q.hbaq \in Seq(Cmds) /\ NoRepeat(q.hbaq) /\ q.level \in [Cmds -> Int]
      /\ c \notin Elems(q.hbaq)
  BY DEF WaitqStates, WaitqInv, Waits
<1>. DEFINE one == <<c>>
<1>2. one \in Seq(Cmds) /\ NoRepeat(one) /\ Elems(one) = {c}
  BY SingleElem
<1>4. /\ r.hbaq = one \o q.hbaq /\ r.devq = q.devq
      /\ r.level = [q.level EXCEPT ![c] = @ - 1]
  BY DEF Requeue, WaitqStates
<1>. HIDE DEF r, one
<1>3. NoRepeat(one \o q.hbaq) /\ Elems(one \o q.hbaq) = {c} \cup Elems(q.hbaq)
  BY <1>1, <1>2, ConcatElems
<1>5. \A e \in Devs : \A x \in Elems(q.devq[e]) : x \in Cmds /\ Dev[x] = e /\ q.level[x] = 1
  BY ElemsIs DEF WaitqInv, WaitqStates
<1>6. \A x \in Elems(q.hbaq) : x \in Cmds /\ q.level[x] = 2
  BY <1>1, ElemsIs DEF WaitqInv
<1>7. r.level[c] = 2 /\ \A x \in Cmds : x # c => r.level[x] = q.level[x]
  BY <1>1, <1>4
<1>8. WaitqInv(r)
  <2>1. \A e \in Devs : \A x \in Elems(q.devq[e]) : x # c
    BY <1>5
  <2>. QED
    BY <2>1, <1>3, <1>4, <1>5, <1>6, <1>7 DEF WaitqInv
<1>9. \A x \in Cmds : Waits(r, x) <=> Waits(q, x) \/ x = c
  BY <1>3, <1>4 DEF Waits
<1>. QED
  BY <1>7, <1>8, <1>9 DEF r

-----------------------------------------------------------------------------
(* Program points.                                                         *)

(* A step of one thread concerns the others only through the HBA mutex.    *)
Local(t) ==
  /\ \A u \in Threads \ {t} : pc'[u] = pc[u] /\ op'[u] = op[u] /\ cmd'[u] = cmd[u]
  /\ hba \notin {t, NoThread} => frame' = frame /\ pollmode' = pollmode /\ hba' = hba
  /\ hba' \in {hba, t, NoThread}

(* All the steps of threads are such.                                      *)
LEMMA LocalSteps ==
  ASSUME IInv
  PROVE  /\ \A t \in Threads : Call(t) \/ Step(t) => Local(t)
         /\ IntrReturn \/ IntrEnter => Local(Intr)
         /\ DoneqBegin \/ DoneqGet \/ DoneqCall => Local(DoneqSoft)
         /\ TimerBegin \/ TimerEnter => Local(TimerSoft)
<1>. USE DEF calls, locks, timers, doneqs, device, ghosts, Goto
<1>1. ASSUME NEW t \in Threads, NEW c \in Cmds, Transport(t, c)
       PROVE  Local(t)
  BY <1>1, SoftThreads, GhdAssumption
  DEF Transport, Local, IInv, TypeOK, Owners, HbaLabels, Polled
<1>2. ASSUME NEW t \in Threads, NEW c \in Cmds, Abort(t, c)
       PROVE  Local(t)
  BY <1>2, SoftThreads, GhdAssumption
  DEF Abort, Local, IInv, TypeOK, Owners, HbaLabels, Polled
<1>3. ASSUME NEW t \in Threads, NEW c \in Cmds, Reset(t, c)
       PROVE  Local(t)
  BY <1>3, SoftThreads, GhdAssumption
  DEF Reset, Local, IInv, TypeOK, Owners, HbaLabels, Polled
<1>4. ASSUME NEW t \in Threads, EnterPolled(t)
       PROVE  Local(t)
  BY <1>4, SoftThreads, GhdAssumption
  DEF EnterPolled, Enter, Local, IInv, TypeOK, Owners, HbaLabels, Polled
<1>5. ASSUME NEW t \in Threads, EnterAbort(t)
       PROVE  Local(t)
  BY <1>5, SoftThreads, GhdAssumption
  DEF EnterAbort, Enter, Local, IInv, TypeOK, Owners, HbaLabels, Polled
<1>6. ASSUME NEW t \in Threads, EnterReset(t)
       PROVE  Local(t)
  BY <1>6, SoftThreads, GhdAssumption
  DEF EnterReset, Enter, Local, IInv, TypeOK, Owners, HbaLabels, Polled
<1>7. ASSUME NEW t \in Threads, TransportEnqueue(t)
       PROVE  Local(t)
  BY <1>7, SoftThreads, GhdAssumption
  DEF TransportEnqueue, Local, IInv, TypeOK, Owners, HbaLabels, Polled
<1>8. ASSUME NEW t \in Threads, TransportTryFails(t)
       PROVE  Local(t)
  BY <1>8, SoftThreads, GhdAssumption
  DEF TransportTryFails, Return, Local, IInv, TypeOK, Owners, HbaLabels,
      Polled
<1>9. ASSUME NEW t \in Threads, TransportTryOk(t)
       PROVE  Local(t)
  BY <1>9, SoftThreads, GhdAssumption
  DEF TransportTryOk, Local, IInv, TypeOK, Owners, HbaLabels, Polled
<1>10. ASSUME NEW t \in Threads, WaitqDone(t)
       PROVE  Local(t)
  BY <1>10, SoftThreads, GhdAssumption
  DEF WaitqDone, WaitqReturn, Local, IInv, TypeOK, Owners, HbaLabels, Polled
<1>11. ASSUME NEW t \in Threads, WaitqPop(t)
       PROVE  Local(t)
  BY <1>11, SoftThreads, GhdAssumption
  DEF WaitqPop, Local, IInv, TypeOK, Owners, HbaLabels, Polled
<1>12. ASSUME NEW t \in Threads, HbaAccepts(t)
       PROVE  Local(t)
  BY <1>12, SoftThreads, GhdAssumption
  DEF HbaAccepts, Local, IInv, TypeOK, Owners, HbaLabels, Polled
<1>13. ASSUME NEW t \in Threads, HbaFinishesAtOnce(t)
       PROVE  Local(t)
  BY <1>13, SoftThreads, GhdAssumption
  DEF HbaFinishesAtOnce, CompleteActive, Complete, Local, IInv, TypeOK,
      Owners, HbaLabels, Polled
<1>14. ASSUME NEW t \in Threads, HbaRefuses(t)
       PROVE  Local(t)
  BY <1>14, SoftThreads, GhdAssumption
  DEF HbaRefuses, Local, IInv, TypeOK, Owners, HbaLabels, Polled
<1>15. ASSUME NEW t \in Threads, WaitqRequeue(t)
       PROVE  Local(t)
  BY <1>15, SoftThreads, GhdAssumption
  DEF WaitqRequeue, WaitqReturn, Local, IInv, TypeOK, Owners, HbaLabels,
      Polled
<1>16. ASSUME NEW t \in Threads, ReleaseHba(t)
       PROVE  Local(t)
  BY <1>16, SoftThreads, GhdAssumption
  DEF ReleaseHba, Local, IInv, TypeOK, Owners, HbaLabels, Polled
<1>17. ASSUME NEW t \in Threads, ReleaseWaitq(t)
       PROVE  Local(t)
  BY <1>17, SoftThreads, GhdAssumption
  DEF ReleaseWaitq, Return, Local, IInv, TypeOK, Owners, HbaLabels, Polled
<1>18. ASSUME NEW t \in Threads, IntrPhase(t)
       PROVE  Local(t)
  BY <1>18, SoftThreads, GhdAssumption
  DEF IntrPhase, StatusProcessed, Local, IInv, TypeOK, Owners, HbaLabels,
      Polled
<1>19. ASSUME NEW t \in Threads, IntrComplete(t)
       PROVE  Local(t)
  BY <1>19, SoftThreads, GhdAssumption
  DEF IntrComplete, StatusProcessed, CompleteActive, Complete, Local, IInv,
      TypeOK, Owners, HbaLabels, Polled
<1>20. ASSUME NEW t \in Threads, IntrNone(t)
       PROVE  Local(t)
  BY <1>20, SoftThreads, GhdAssumption
  DEF IntrNone, Local, IInv, TypeOK, Owners, HbaLabels, Polled
<1>21. ASSUME NEW t \in Threads, PollDrain(t)
       PROVE  Local(t)
  BY <1>21, SoftThreads, GhdAssumption
  DEF PollDrain, Local, IInv, TypeOK, Owners, HbaLabels, Polled
<1>22. ASSUME NEW t \in Threads, PollGiveUp(t)
       PROVE  Local(t)
  BY <1>22, SoftThreads, GhdAssumption
  DEF PollGiveUp, Local, IInv, TypeOK, Owners, HbaLabels, Polled
<1>23. ASSUME NEW t \in Threads, PollPut(t)
       PROVE  Local(t)
  BY <1>23, SoftThreads, GhdAssumption
  DEF PollPut, PutBack, Local, IInv, TypeOK, Owners, HbaLabels, Polled
<1>24. ASSUME NEW t \in Threads, PollmodeExit(t)
       PROVE  Local(t)
  BY <1>24, SoftThreads, GhdAssumption
  DEF PollmodeExit, Local, IInv, TypeOK, Owners, HbaLabels, Polled
<1>25. ASSUME NEW t \in Threads, PollmodeTrigger(t)
       PROVE  Local(t)
  BY <1>25, SoftThreads, GhdAssumption
  DEF PollmodeTrigger, Local, IInv, TypeOK, Owners, HbaLabels, Polled
<1>26. ASSUME NEW t \in Threads, Finish(t)
       PROVE  Local(t)
  BY <1>26, SoftThreads, GhdAssumption
  DEF Finish, Return, Local, IInv, TypeOK, Owners, HbaLabels, Polled
<1>27. ASSUME NEW t \in Threads, TimerNone(t)
       PROVE  Local(t)
  BY <1>27, SoftThreads, GhdAssumption
  DEF TimerNone, Local, IInv, TypeOK, Owners, HbaLabels, Polled
<1>28. ASSUME NEW t \in Threads, TimerGet(t)
       PROVE  Local(t)
  BY <1>28, SoftThreads, GhdAssumption
  DEF TimerGet, Local, IInv, TypeOK, Owners, HbaLabels, Polled
<1>29. ASSUME NEW t \in Threads, NewstateEarly(t)
       PROVE  Local(t)
  BY <1>29, SoftThreads, GhdAssumption
  DEF NewstateEarly, Complete, Local, IInv, TypeOK, Owners, HbaLabels, Polled
<1>30. ASSUME NEW t \in Threads, NewstateCannot(t)
       PROVE  Local(t)
  BY <1>30, SoftThreads, GhdAssumption
  DEF NewstateCannot, Local, IInv, TypeOK, Owners, HbaLabels, Polled
<1>31. ASSUME NEW t \in Threads, NewstateReset(t)
       PROVE  Local(t)
  BY <1>31, SoftThreads, GhdAssumption
  DEF NewstateReset, Local, IInv, TypeOK, Owners, HbaLabels, Polled
<1>32. ASSUME NEW t \in Threads, NewstateHung(t)
       PROVE  Local(t)
  BY <1>32, SoftThreads, GhdAssumption
  DEF NewstateHung, Local, IInv, TypeOK, Owners, HbaLabels, Polled
<1>33. ASSUME IntrReturn
       PROVE  Local(Intr)
  BY <1>33, SoftThreads, GhdAssumption
  DEF IntrReturn, Local, IInv, TypeOK, Owners, HbaLabels, Polled
<1>34. ASSUME DoneqBegin
       PROVE  Local(DoneqSoft)
  BY <1>34, SoftThreads, GhdAssumption
  DEF DoneqBegin, Local, IInv, TypeOK, Owners, HbaLabels, Polled
<1>35. ASSUME DoneqGet
       PROVE  Local(DoneqSoft)
  BY <1>35, SoftThreads, GhdAssumption
  DEF DoneqGet, Local, IInv, TypeOK, Owners, HbaLabels, Polled
<1>36. ASSUME DoneqCall
       PROVE  Local(DoneqSoft)
  BY <1>36, SoftThreads, GhdAssumption
  DEF DoneqCall, Local, IInv, TypeOK, Owners, HbaLabels, Polled
<1>37. ASSUME TimerBegin
       PROVE  Local(TimerSoft)
  BY <1>37, SoftThreads, GhdAssumption
  DEF TimerBegin, Local, IInv, TypeOK, Owners, HbaLabels, Polled
<1>38. ASSUME TimerEnter
       PROVE  Local(TimerSoft)
  BY <1>38, SoftThreads, GhdAssumption
  DEF TimerEnter, Local, IInv, TypeOK, Owners, HbaLabels, Polled
<1>39. ASSUME IntrEnter
       PROVE  Local(Intr)
  BY <1>39, SoftThreads, GhdAssumption
  DEF IntrEnter, Local, IInv, TypeOK, Owners, HbaLabels, Polled
<1>. QED
  BY <1>1, <1>2, <1>3, <1>4, <1>5, <1>6, <1>7, <1>8, <1>9, <1>10, <1>11,
      <1>12, <1>13, <1>14, <1>15, <1>16, <1>17, <1>18, <1>19, <1>20, <1>21,
      <1>22, <1>23, <1>24, <1>25, <1>26, <1>27, <1>28, <1>29, <1>30, <1>31,
      <1>32, <1>33, <1>34, <1>35, <1>36, <1>37, <1>38, <1>39
  DEF Call, Step, SoftStep

(* A thread that does not own the HBA mutex stays where it was.            *)
LEMMA ControlBy ==
  ASSUME IInv, Control, NEW t \in Threads, AtPoint(t)', Local(t),
         hba' \in {t, NoThread} => OwnerAtWork'
  PROVE  Control'
<1>1. ASSUME NEW u \in Threads, u # t
       PROVE  AtPoint(u)'
  <2>1. AtPoint(u) /\ pc'[u] = pc[u] /\ op'[u] = op[u]
    BY <1>1 DEF Control, Local
  <2>2. CASE hba = u
    <3>1. frame' = frame /\ pollmode' = pollmode
      BY <1>1, <2>2, GhdAssumption DEF Local
    <3>. QED
      BY <2>1, <3>1 DEF AtPoint, Polling, Leaving, Serving
  <2>3. CASE hba # u
    <3>1. pc[u] \notin HbaLabels /\ ~(pc[u] = "tr_enq" /\ op[u] \in Polled)
      BY <2>3 DEF IInv, Owners
    <3>. QED
      BY <2>1, <3>1
      DEF AtPoint, Polling, Leaving, Serving, WaitqProc, HbaLabels
  <2>. QED
    BY <2>2, <2>3
<1>2. OwnerAtWork'
  <2>1. CASE hba' \in {t, NoThread}
    BY <2>1
  <2>2. CASE hba' \notin {t, NoThread}
    <3>1. hba' = hba /\ hba \in Threads \ {t} /\ frame' = frame
      BY <2>2 DEF IInv, TypeOK, Local
    <3>2. pc'[hba] = pc[hba] /\ op'[hba] = op[hba]
      BY <3>1 DEF Local
    <3>. QED
      BY <3>1, <3>2 DEF OwnerAtWork, Control
  <2>. QED
    BY <2>1, <2>2
<1>. QED
  BY <1>1, <1>2 DEF Control

(* A step that changes nothing of it.                                      *)
LEMMA SameControl ==
  ASSUME Control, UNCHANGED <<pc, op, frame, pollmode, hba>>
  PROVE  Control'
BY DEF Control, OwnerAtWork, AtPoint, Polling, Leaving, Serving

(* Each step leaves its thread at a point where the local variables are as *)
(* the next section expects them.                                          *)
LEMMA ControlStep ==
  ASSUME IInv, Control, [Next]_vars
  PROVE  Control'
<1>. USE DEF calls, locks, timers, doneqs, device, ghosts, Goto
<1>1. ASSUME NEW t \in Threads, NEW c \in Cmds, Transport(t, c)
       PROVE  Control'
  <2>1. AtPoint(t)'
    BY <1>1, SoftThreads, GhdAssumption
    DEF Transport, IInv, TypeOK, Frames, Owners, Pointers, HbaLabels, Control,
        OwnerAtWork, AtPoint, Polling, Leaving, Serving, WaitqProc, PollOps,
        AllOps, Polled, NoFrame
  <2>2. Local(t)
    BY <1>1, LocalSteps DEF Call, Step
  <2>3. hba' \in {t, NoThread} => OwnerAtWork'
    BY <1>1, SoftThreads, GhdAssumption DEF Transport, OwnerAtWork, Control,
        IInv, TypeOK, Owners, HbaLabels, Polled
  <2>. QED
    BY <2>1, <2>2, <2>3, ControlBy
<1>2. ASSUME NEW t \in Threads, NEW c \in Cmds, Abort(t, c)
       PROVE  Control'
  <2>1. AtPoint(t)'
    BY <1>2, SoftThreads, GhdAssumption
    DEF Abort, IInv, TypeOK, Frames, Owners, Pointers, HbaLabels, Control,
        OwnerAtWork, AtPoint, Polling, Leaving, Serving, WaitqProc, PollOps,
        AllOps, Polled, NoFrame
  <2>2. Local(t)
    BY <1>2, LocalSteps DEF Call, Step
  <2>3. hba' \in {t, NoThread} => OwnerAtWork'
    BY <1>2, SoftThreads, GhdAssumption DEF Abort, OwnerAtWork, Control, IInv,
        TypeOK, Owners, HbaLabels, Polled
  <2>. QED
    BY <2>1, <2>2, <2>3, ControlBy
<1>3. ASSUME NEW t \in Threads, NEW c \in Cmds, Reset(t, c)
       PROVE  Control'
  <2>1. AtPoint(t)'
    BY <1>3, SoftThreads, GhdAssumption
    DEF Reset, IInv, TypeOK, Frames, Owners, Pointers, HbaLabels, Control,
        OwnerAtWork, AtPoint, Polling, Leaving, Serving, WaitqProc, PollOps,
        AllOps, Polled, NoFrame, FirstAction
  <2>2. Local(t)
    BY <1>3, LocalSteps DEF Call, Step
  <2>3. hba' \in {t, NoThread} => OwnerAtWork'
    BY <1>3, SoftThreads, GhdAssumption DEF Reset, OwnerAtWork, Control, IInv,
        TypeOK, Owners, HbaLabels, Polled
  <2>. QED
    BY <2>1, <2>2, <2>3, ControlBy
<1>4. ASSUME NEW t \in Threads, EnterPolled(t)
       PROVE  Control'
  <2>1. AtPoint(t)'
    BY <1>4, SoftThreads, GhdAssumption
    DEF EnterPolled, Enter, IInv, TypeOK, Frames, Owners, Pointers, HbaLabels,
        Control, OwnerAtWork, AtPoint, Polling, Leaving, Serving, WaitqProc,
        PollOps, AllOps, Polled, NoFrame
  <2>2. Local(t)
    BY <1>4, LocalSteps DEF Call, Step
  <2>3. hba' \in {t, NoThread} => OwnerAtWork'
    BY <1>4, SoftThreads, GhdAssumption DEF EnterPolled, Enter, OwnerAtWork,
        Control, IInv, TypeOK, Owners, HbaLabels, Polled
  <2>. QED
    BY <2>1, <2>2, <2>3, ControlBy
<1>5. ASSUME NEW t \in Threads, EnterAbort(t)
       PROVE  Control'
  <2>1. AtPoint(t)'
    <3>1. op'[t] = "abort" /\ op[t] = "abort" /\ pc'[t] \in {"ns", "pm_exit"} /\ pollmode'
      BY <1>5 DEF EnterAbort, Enter, IInv, TypeOK
    <3>2. frame = NoFrame
      BY <1>5 DEF EnterAbort, Enter, Control, OwnerAtWork
    <3>3. ~frame'.got /\ frame'.hold = <<>> /\ (pc'[t] = "ns" => frame'.nsret = "po_stat")
      <4>1. CASE state[cmd[t]] \in {"WAITQ", "ACTIVE"}
        BY <1>5, <3>2, <4>1 DEF EnterAbort, Enter, NoFrame
      <4>2. CASE state[cmd[t]] \notin {"WAITQ", "ACTIVE"}
        BY <1>5, <3>2, <4>2 DEF EnterAbort, Enter, IInv, TypeOK, NoFrame
      <4>. QED
        BY <4>1, <4>2
    <3>. QED
      BY <3>1, <3>3
      DEF AtPoint, Polling, Leaving, Serving, WaitqProc, PollOps, AllOps, Polled
  <2>2. Local(t)
    BY <1>5, LocalSteps DEF Call, Step
  <2>3. hba' \in {t, NoThread} => OwnerAtWork'
    BY <1>5, SoftThreads, GhdAssumption DEF EnterAbort, Enter, OwnerAtWork,
        Control, IInv, TypeOK, Owners, HbaLabels, Polled
  <2>. QED
    BY <2>1, <2>2, <2>3, ControlBy
<1>6. ASSUME NEW t \in Threads, EnterReset(t)
       PROVE  Control'
  <2>1. AtPoint(t)'
    BY <1>6, SoftThreads, GhdAssumption
    DEF EnterReset, Enter, IInv, TypeOK, Frames, Owners, Pointers, HbaLabels,
        Control, OwnerAtWork, AtPoint, Polling, Leaving, Serving, WaitqProc,
        PollOps, AllOps, Polled, NoFrame, FirstAction
  <2>2. Local(t)
    BY <1>6, LocalSteps DEF Call, Step
  <2>3. hba' \in {t, NoThread} => OwnerAtWork'
    BY <1>6, SoftThreads, GhdAssumption DEF EnterReset, Enter, OwnerAtWork,
        Control, IInv, TypeOK, Owners, HbaLabels, Polled
  <2>. QED
    BY <2>1, <2>2, <2>3, ControlBy
<1>7. ASSUME NEW t \in Threads, TransportEnqueue(t)
       PROVE  Control'
  <2>1. AtPoint(t)'
    BY <1>7, SoftThreads, GhdAssumption
    DEF TransportEnqueue, IInv, TypeOK, Frames, Owners, Pointers, HbaLabels,
        Control, OwnerAtWork, AtPoint, Polling, Leaving, Serving, WaitqProc,
        PollOps, AllOps, Polled, NoFrame
  <2>2. Local(t)
    BY <1>7, LocalSteps DEF Call, Step
  <2>3. hba' \in {t, NoThread} => OwnerAtWork'
    BY <1>7, SoftThreads, GhdAssumption DEF TransportEnqueue, OwnerAtWork,
        Control, IInv, TypeOK, Owners, HbaLabels, Polled
  <2>. QED
    BY <2>1, <2>2, <2>3, ControlBy
<1>8. ASSUME NEW t \in Threads, TransportTryFails(t)
       PROVE  Control'
  <2>1. AtPoint(t)'
    BY <1>8, SoftThreads, GhdAssumption
    DEF TransportTryFails, Return, IInv, TypeOK, Frames, Owners, Pointers,
        HbaLabels, Control, OwnerAtWork, AtPoint, Polling, Leaving, Serving,
        WaitqProc, PollOps, AllOps, Polled, NoFrame
  <2>2. Local(t)
    BY <1>8, LocalSteps DEF Call, Step
  <2>3. hba' \in {t, NoThread} => OwnerAtWork'
    BY <1>8, SoftThreads, GhdAssumption DEF TransportTryFails, Return,
        OwnerAtWork, Control, IInv, TypeOK, Owners, HbaLabels, Polled
  <2>. QED
    BY <2>1, <2>2, <2>3, ControlBy
<1>9. ASSUME NEW t \in Threads, TransportTryOk(t)
       PROVE  Control'
  <2>1. AtPoint(t)'
    BY <1>9, SoftThreads, GhdAssumption
    DEF TransportTryOk, IInv, TypeOK, Frames, Owners, Pointers, HbaLabels,
        Control, OwnerAtWork, AtPoint, Polling, Leaving, Serving, WaitqProc,
        PollOps, AllOps, Polled, NoFrame
  <2>2. Local(t)
    BY <1>9, LocalSteps DEF Call, Step
  <2>3. hba' \in {t, NoThread} => OwnerAtWork'
    BY <1>9, SoftThreads, GhdAssumption DEF TransportTryOk, OwnerAtWork,
        Control, IInv, TypeOK, Owners, HbaLabels, Polled
  <2>. QED
    BY <2>1, <2>2, <2>3, ControlBy
<1>10. ASSUME NEW t \in Threads, WaitqDone(t)
       PROVE  Control'
  <2>1. AtPoint(t)'
    BY <1>10, SoftThreads, GhdAssumption
    DEF WaitqDone, WaitqReturn, IInv, TypeOK, Frames, Owners, Pointers,
        HbaLabels, Control, OwnerAtWork, AtPoint, Polling, Leaving, Serving,
        WaitqProc, PollOps, AllOps, Polled, NoFrame
  <2>2. Local(t)
    BY <1>10, LocalSteps DEF Call, Step
  <2>3. hba' \in {t, NoThread} => OwnerAtWork'
    BY <1>10, SoftThreads, FrameFields, GhdAssumption DEF WaitqDone,
        WaitqReturn, OwnerAtWork, Control, IInv, TypeOK, Owners, HbaLabels,
        Polled
  <2>. QED
    BY <2>1, <2>2, <2>3, ControlBy
<1>11. ASSUME NEW t \in Threads, WaitqPop(t)
       PROVE  Control'
  <2>1. AtPoint(t)'
    BY <1>11, SoftThreads, GhdAssumption
    DEF WaitqPop, IInv, TypeOK, Frames, Owners, Pointers, HbaLabels, Control,
        OwnerAtWork, AtPoint, Polling, Leaving, Serving, WaitqProc, PollOps,
        AllOps, Polled, NoFrame
  <2>2. Local(t)
    BY <1>11, LocalSteps DEF Call, Step
  <2>3. hba' \in {t, NoThread} => OwnerAtWork'
    BY <1>11, SoftThreads, GhdAssumption DEF WaitqPop, OwnerAtWork, Control,
        IInv, TypeOK, Owners, HbaLabels, Polled
  <2>. QED
    BY <2>1, <2>2, <2>3, ControlBy
<1>12. ASSUME NEW t \in Threads, HbaAccepts(t)
       PROVE  Control'
  <2>1. AtPoint(t)'
    BY <1>12, SoftThreads, GhdAssumption
    DEF HbaAccepts, IInv, TypeOK, Frames, Owners, Pointers, HbaLabels,
        Control, OwnerAtWork, AtPoint, Polling, Leaving, Serving, WaitqProc,
        PollOps, AllOps, Polled, NoFrame
  <2>2. Local(t)
    BY <1>12, LocalSteps DEF Call, Step
  <2>3. hba' \in {t, NoThread} => OwnerAtWork'
    BY <1>12, SoftThreads, GhdAssumption DEF HbaAccepts, OwnerAtWork, Control,
        IInv, TypeOK, Owners, HbaLabels, Polled
  <2>. QED
    BY <2>1, <2>2, <2>3, ControlBy
<1>13. ASSUME NEW t \in Threads, HbaFinishesAtOnce(t)
       PROVE  Control'
  <2>1. AtPoint(t)'
    BY <1>13, SoftThreads, GhdAssumption
    DEF HbaFinishesAtOnce, CompleteActive, Complete, IInv, TypeOK, Frames,
        Owners, Pointers, HbaLabels, Control, OwnerAtWork, AtPoint, Polling,
        Leaving, Serving, WaitqProc, PollOps, AllOps, Polled, NoFrame
  <2>2. Local(t)
    BY <1>13, LocalSteps DEF Call, Step
  <2>3. hba' \in {t, NoThread} => OwnerAtWork'
    BY <1>13, SoftThreads, GhdAssumption DEF HbaFinishesAtOnce,
        CompleteActive, Complete, OwnerAtWork, Control, IInv, TypeOK, Owners,
        HbaLabels, Polled
  <2>. QED
    BY <2>1, <2>2, <2>3, ControlBy
<1>14. ASSUME NEW t \in Threads, HbaRefuses(t)
       PROVE  Control'
  <2>1. AtPoint(t)'
    BY <1>14, SoftThreads, GhdAssumption
    DEF HbaRefuses, IInv, TypeOK, Frames, Owners, Pointers, HbaLabels,
        Control, OwnerAtWork, AtPoint, Polling, Leaving, Serving, WaitqProc,
        PollOps, AllOps, Polled, NoFrame
  <2>2. Local(t)
    BY <1>14, LocalSteps DEF Call, Step
  <2>3. hba' \in {t, NoThread} => OwnerAtWork'
    BY <1>14, SoftThreads, GhdAssumption DEF HbaRefuses, OwnerAtWork, Control,
        IInv, TypeOK, Owners, HbaLabels, Polled
  <2>. QED
    BY <2>1, <2>2, <2>3, ControlBy
<1>15. ASSUME NEW t \in Threads, WaitqRequeue(t)
       PROVE  Control'
  <2>1. AtPoint(t)'
    BY <1>15, SoftThreads, GhdAssumption
    DEF WaitqRequeue, WaitqReturn, IInv, TypeOK, Frames, Owners, Pointers,
        HbaLabels, Control, OwnerAtWork, AtPoint, Polling, Leaving, Serving,
        WaitqProc, PollOps, AllOps, Polled, NoFrame
  <2>2. Local(t)
    BY <1>15, LocalSteps DEF Call, Step
  <2>3. hba' \in {t, NoThread} => OwnerAtWork'
    BY <1>15, SoftThreads, FrameFields, GhdAssumption DEF WaitqRequeue,
        WaitqReturn, OwnerAtWork, Control, IInv, TypeOK, Owners, HbaLabels,
        Polled
  <2>. QED
    BY <2>1, <2>2, <2>3, ControlBy
<1>16. ASSUME NEW t \in Threads, ReleaseHba(t)
       PROVE  Control'
  <2>1. AtPoint(t)'
    BY <1>16, SoftThreads, GhdAssumption
    DEF ReleaseHba, IInv, TypeOK, Frames, Owners, Pointers, HbaLabels,
        Control, OwnerAtWork, AtPoint, Polling, Leaving, Serving, WaitqProc,
        PollOps, AllOps, Polled, NoFrame
  <2>2. Local(t)
    BY <1>16, LocalSteps DEF Call, Step
  <2>3. hba' \in {t, NoThread} => OwnerAtWork'
    BY <1>16, SoftThreads, GhdAssumption DEF ReleaseHba, OwnerAtWork, Control,
        IInv, TypeOK, Owners, HbaLabels, Polled
  <2>. QED
    BY <2>1, <2>2, <2>3, ControlBy
<1>17. ASSUME NEW t \in Threads, ReleaseWaitq(t)
       PROVE  Control'
  <2>1. AtPoint(t)'
    BY <1>17, SoftThreads, GhdAssumption
    DEF ReleaseWaitq, Return, IInv, TypeOK, Frames, Owners, Pointers,
        HbaLabels, Control, OwnerAtWork, AtPoint, Polling, Leaving, Serving,
        WaitqProc, PollOps, AllOps, Polled, NoFrame
  <2>2. Local(t)
    BY <1>17, LocalSteps DEF Call, Step
  <2>3. hba' \in {t, NoThread} => OwnerAtWork'
    BY <1>17, SoftThreads, GhdAssumption DEF ReleaseWaitq, Return,
        OwnerAtWork, Control, IInv, TypeOK, Owners, HbaLabels, Polled
  <2>. QED
    BY <2>1, <2>2, <2>3, ControlBy
<1>18. ASSUME NEW t \in Threads, IntrPhase(t)
       PROVE  Control'
  <2>1. AtPoint(t)'
    BY <1>18, SoftThreads, GhdAssumption, SMTT(30)
    DEF IntrPhase, StatusProcessed, IInv, TypeOK, Frames, Owners, Pointers,
        HbaLabels, Control, OwnerAtWork, AtPoint, Polling, Leaving, Serving,
        WaitqProc, PollOps, AllOps, Polled, NoFrame
  <2>2. Local(t)
    BY <1>18, LocalSteps DEF Call, Step
  <2>3. hba' \in {t, NoThread} => OwnerAtWork'
    BY <1>18, SoftThreads, GhdAssumption DEF IntrPhase, StatusProcessed,
        OwnerAtWork, Control, IInv, TypeOK, Owners, HbaLabels, Polled
  <2>. QED
    BY <2>1, <2>2, <2>3, ControlBy
<1>19. ASSUME NEW t \in Threads, IntrComplete(t)
       PROVE  Control'
  <2>1. AtPoint(t)'
    BY <1>19, SoftThreads, GhdAssumption, ZenonT(60)
    DEF IntrComplete, StatusProcessed, CompleteActive, Complete, IInv, TypeOK,
        Frames, Owners, Pointers, HbaLabels, Control, OwnerAtWork, AtPoint,
        Polling, Leaving, Serving, WaitqProc, PollOps, AllOps, Polled, NoFrame
  <2>2. Local(t)
    BY <1>19, LocalSteps DEF Call, Step
  <2>3. hba' \in {t, NoThread} => OwnerAtWork'
    BY <1>19, SoftThreads, GhdAssumption DEF IntrComplete, StatusProcessed,
        CompleteActive, Complete, OwnerAtWork, Control, IInv, TypeOK, Owners,
        HbaLabels, Polled
  <2>. QED
    BY <2>1, <2>2, <2>3, ControlBy
<1>20. ASSUME NEW t \in Threads, IntrNone(t)
       PROVE  Control'
  <2>1. AtPoint(t)'
    BY <1>20, SoftThreads, GhdAssumption
    DEF IntrNone, IInv, TypeOK, Frames, Owners, Pointers, HbaLabels, Control,
        OwnerAtWork, AtPoint, Polling, Leaving, Serving, WaitqProc, PollOps,
        AllOps, Polled, NoFrame
  <2>2. Local(t)
    BY <1>20, LocalSteps DEF Call, Step
  <2>3. hba' \in {t, NoThread} => OwnerAtWork'
    BY <1>20, SoftThreads, GhdAssumption DEF IntrNone, OwnerAtWork, Control,
        IInv, TypeOK, Owners, HbaLabels, Polled
  <2>. QED
    BY <2>1, <2>2, <2>3, ControlBy
<1>21. ASSUME NEW t \in Threads, PollDrain(t)
       PROVE  Control'
  <2>1. AtPoint(t)'
    BY <1>21, SoftThreads, GhdAssumption
    DEF PollDrain, IInv, TypeOK, Frames, Owners, Pointers, HbaLabels, Control,
        OwnerAtWork, AtPoint, Polling, Leaving, Serving, WaitqProc, PollOps,
        AllOps, Polled, NoFrame
  <2>2. Local(t)
    BY <1>21, LocalSteps DEF Call, Step
  <2>3. hba' \in {t, NoThread} => OwnerAtWork'
    BY <1>21, SoftThreads, GhdAssumption DEF PollDrain, OwnerAtWork, Control,
        IInv, TypeOK, Owners, HbaLabels, Polled
  <2>. QED
    BY <2>1, <2>2, <2>3, ControlBy
<1>22. ASSUME NEW t \in Threads, PollGiveUp(t)
       PROVE  Control'
  <2>1. AtPoint(t)'
    BY <1>22, SoftThreads, GhdAssumption
    DEF PollGiveUp, IInv, TypeOK, Frames, Owners, Pointers, HbaLabels,
        Control, OwnerAtWork, AtPoint, Polling, Leaving, Serving, WaitqProc,
        PollOps, AllOps, Polled, NoFrame
  <2>2. Local(t)
    BY <1>22, LocalSteps DEF Call, Step
  <2>3. hba' \in {t, NoThread} => OwnerAtWork'
    BY <1>22, SoftThreads, GhdAssumption DEF PollGiveUp, OwnerAtWork, Control,
        IInv, TypeOK, Owners, HbaLabels, Polled
  <2>. QED
    BY <2>1, <2>2, <2>3, ControlBy
<1>23. ASSUME NEW t \in Threads, PollPut(t)
       PROVE  Control'
  <2>1. AtPoint(t)'
    BY <1>23, SoftThreads, GhdAssumption
    DEF PollPut, PutBack, IInv, TypeOK, Frames, Owners, Pointers, HbaLabels,
        Control, OwnerAtWork, AtPoint, Polling, Leaving, Serving, WaitqProc,
        PollOps, AllOps, Polled, NoFrame
  <2>2. Local(t)
    BY <1>23, LocalSteps DEF Call, Step
  <2>3. hba' \in {t, NoThread} => OwnerAtWork'
    BY <1>23, SoftThreads, GhdAssumption DEF PollPut, PutBack, OwnerAtWork,
        Control, IInv, TypeOK, Owners, HbaLabels, Polled
  <2>. QED
    BY <2>1, <2>2, <2>3, ControlBy
<1>24. ASSUME NEW t \in Threads, PollmodeExit(t)
       PROVE  Control'
  <2>1. AtPoint(t)'
    BY <1>24, SoftThreads, GhdAssumption
    DEF PollmodeExit, IInv, TypeOK, Frames, Owners, Pointers, HbaLabels,
        Control, OwnerAtWork, AtPoint, Polling, Leaving, Serving, WaitqProc,
        PollOps, AllOps, Polled, NoFrame
  <2>2. Local(t)
    BY <1>24, LocalSteps DEF Call, Step
  <2>3. hba' \in {t, NoThread} => OwnerAtWork'
    BY <1>24, SoftThreads, GhdAssumption DEF PollmodeExit, OwnerAtWork,
        Control, IInv, TypeOK, Owners, HbaLabels, Polled
  <2>. QED
    BY <2>1, <2>2, <2>3, ControlBy
<1>25. ASSUME NEW t \in Threads, PollmodeTrigger(t)
       PROVE  Control'
  <2>1. AtPoint(t)'
    BY <1>25, SoftThreads, GhdAssumption
    DEF PollmodeTrigger, IInv, TypeOK, Frames, Owners, Pointers, HbaLabels,
        Control, OwnerAtWork, AtPoint, Polling, Leaving, Serving, WaitqProc,
        PollOps, AllOps, Polled, NoFrame
  <2>2. Local(t)
    BY <1>25, LocalSteps DEF Call, Step
  <2>3. hba' \in {t, NoThread} => OwnerAtWork'
    BY <1>25, SoftThreads, GhdAssumption DEF PollmodeTrigger, OwnerAtWork,
        Control, IInv, TypeOK, Owners, HbaLabels, Polled
  <2>. QED
    BY <2>1, <2>2, <2>3, ControlBy
<1>26. ASSUME NEW t \in Threads, Finish(t)
       PROVE  Control'
  <2>1. AtPoint(t)'
    BY <1>26, SoftThreads, GhdAssumption
    DEF Finish, Return, IInv, TypeOK, Frames, Owners, Pointers, HbaLabels,
        Control, OwnerAtWork, AtPoint, Polling, Leaving, Serving, WaitqProc,
        PollOps, AllOps, Polled, NoFrame
  <2>2. Local(t)
    BY <1>26, LocalSteps DEF Call, Step
  <2>3. hba' \in {t, NoThread} => OwnerAtWork'
    BY <1>26, SoftThreads, GhdAssumption DEF Finish, Return, OwnerAtWork,
        Control, IInv, TypeOK, Owners, HbaLabels, Polled
  <2>. QED
    BY <2>1, <2>2, <2>3, ControlBy
<1>27. ASSUME NEW t \in Threads, TimerNone(t)
       PROVE  Control'
  <2>1. AtPoint(t)'
    BY <1>27, SoftThreads, GhdAssumption
    DEF TimerNone, IInv, TypeOK, Frames, Owners, Pointers, HbaLabels, Control,
        OwnerAtWork, AtPoint, Polling, Leaving, Serving, WaitqProc, PollOps,
        AllOps, Polled, NoFrame
  <2>2. Local(t)
    BY <1>27, LocalSteps DEF Call, Step
  <2>3. hba' \in {t, NoThread} => OwnerAtWork'
    BY <1>27, SoftThreads, GhdAssumption DEF TimerNone, OwnerAtWork, Control,
        IInv, TypeOK, Owners, HbaLabels, Polled
  <2>. QED
    BY <2>1, <2>2, <2>3, ControlBy
<1>28. ASSUME NEW t \in Threads, TimerGet(t)
       PROVE  Control'
  <2>1. AtPoint(t)'
    BY <1>28, SoftThreads, GhdAssumption
    DEF TimerGet, IInv, TypeOK, Frames, Owners, Pointers, HbaLabels, Control,
        OwnerAtWork, AtPoint, Polling, Leaving, Serving, WaitqProc, PollOps,
        AllOps, Polled, NoFrame
  <2>2. Local(t)
    BY <1>28, LocalSteps DEF Call, Step
  <2>3. hba' \in {t, NoThread} => OwnerAtWork'
    BY <1>28, SoftThreads, GhdAssumption DEF TimerGet, OwnerAtWork, Control,
        IInv, TypeOK, Owners, HbaLabels, Polled
  <2>. QED
    BY <2>1, <2>2, <2>3, ControlBy
<1>29. ASSUME NEW t \in Threads, NewstateEarly(t)
       PROVE  Control'
  <2>1. AtPoint(t)'
    BY <1>29, SoftThreads, GhdAssumption
    DEF NewstateEarly, Complete, IInv, TypeOK, Frames, Owners, Pointers,
        HbaLabels, Control, OwnerAtWork, AtPoint, Polling, Leaving, Serving,
        WaitqProc, PollOps, AllOps, Polled, NoFrame
  <2>2. Local(t)
    BY <1>29, LocalSteps DEF Call, Step
  <2>3. hba' \in {t, NoThread} => OwnerAtWork'
    BY <1>29, SoftThreads, FrameFields, GhdAssumption DEF NewstateEarly,
        Complete, OwnerAtWork, Control, IInv, TypeOK, Owners, HbaLabels,
        Polled
  <2>. QED
    BY <2>1, <2>2, <2>3, ControlBy
<1>30. ASSUME NEW t \in Threads, NewstateCannot(t)
       PROVE  Control'
  <2>1. AtPoint(t)'
    BY <1>30, SoftThreads, GhdAssumption
    DEF NewstateCannot, IInv, TypeOK, Frames, Owners, Pointers, HbaLabels,
        Control, OwnerAtWork, AtPoint, Polling, Leaving, Serving, WaitqProc,
        PollOps, AllOps, Polled, NoFrame
  <2>2. Local(t)
    BY <1>30, LocalSteps DEF Call, Step
  <2>3. hba' \in {t, NoThread} => OwnerAtWork'
    BY <1>30, SoftThreads, GhdAssumption DEF NewstateCannot, OwnerAtWork,
        Control, IInv, TypeOK, Owners, HbaLabels, Polled
  <2>. QED
    BY <2>1, <2>2, <2>3, ControlBy
<1>31. ASSUME NEW t \in Threads, NewstateReset(t)
       PROVE  Control'
  <2>1. AtPoint(t)'
    BY <1>31, SoftThreads, GhdAssumption
    DEF NewstateReset, IInv, TypeOK, Frames, Owners, Pointers, HbaLabels,
        Control, OwnerAtWork, AtPoint, Polling, Leaving, Serving, WaitqProc,
        PollOps, AllOps, Polled, NoFrame
  <2>2. Local(t)
    BY <1>31, LocalSteps DEF Call, Step
  <2>3. hba' \in {t, NoThread} => OwnerAtWork'
    BY <1>31, SoftThreads, FrameFields, GhdAssumption DEF NewstateReset,
        OwnerAtWork, Control, IInv, TypeOK, Owners, HbaLabels, Polled
  <2>. QED
    BY <2>1, <2>2, <2>3, ControlBy
<1>32. ASSUME NEW t \in Threads, NewstateHung(t)
       PROVE  Control'
  <2>1. AtPoint(t)'
    BY <1>32, SoftThreads, GhdAssumption
    DEF NewstateHung, IInv, TypeOK, Frames, Owners, Pointers, HbaLabels,
        Control, OwnerAtWork, AtPoint, Polling, Leaving, Serving, WaitqProc,
        PollOps, AllOps, Polled, NoFrame
  <2>2. Local(t)
    BY <1>32, LocalSteps DEF Call, Step
  <2>3. hba' \in {t, NoThread} => OwnerAtWork'
    BY <1>32, SoftThreads, FrameFields, GhdAssumption DEF NewstateHung,
        OwnerAtWork, Control, IInv, TypeOK, Owners, HbaLabels, Polled
  <2>. QED
    BY <2>1, <2>2, <2>3, ControlBy
<1>33. ASSUME IntrReturn
       PROVE  Control'
  <2>1. AtPoint(Intr)'
    BY <1>33, SoftThreads, GhdAssumption
    DEF IntrReturn, IInv, TypeOK, Frames, Owners, Pointers, HbaLabels,
        Control, OwnerAtWork, AtPoint, Polling, Leaving, Serving, WaitqProc,
        PollOps, AllOps, Polled, NoFrame
  <2>2. Local(Intr)
    BY <1>33, LocalSteps DEF Call, Step
  <2>3. hba' \in {Intr, NoThread} => OwnerAtWork'
    BY <1>33, SoftThreads, GhdAssumption DEF IntrReturn, OwnerAtWork, Control,
        IInv, TypeOK, Owners, HbaLabels, Polled
  <2>. QED
    BY <2>1, <2>2, <2>3, ControlBy, SoftThreads
<1>34. ASSUME DoneqBegin
       PROVE  Control'
  <2>1. AtPoint(DoneqSoft)'
    BY <1>34, SoftThreads, GhdAssumption
    DEF DoneqBegin, IInv, TypeOK, Frames, Owners, Pointers, HbaLabels,
        Control, OwnerAtWork, AtPoint, Polling, Leaving, Serving, WaitqProc,
        PollOps, AllOps, Polled, NoFrame
  <2>2. Local(DoneqSoft)
    BY <1>34, LocalSteps DEF Call, Step
  <2>3. hba' \in {DoneqSoft, NoThread} => OwnerAtWork'
    BY <1>34, SoftThreads, GhdAssumption DEF DoneqBegin, OwnerAtWork, Control,
        IInv, TypeOK, Owners, HbaLabels, Polled
  <2>. QED
    BY <2>1, <2>2, <2>3, ControlBy, SoftThreads
<1>35. ASSUME DoneqGet
       PROVE  Control'
  <2>1. AtPoint(DoneqSoft)'
    BY <1>35, SoftThreads, GhdAssumption
    DEF DoneqGet, IInv, TypeOK, Frames, Owners, Pointers, HbaLabels, Control,
        OwnerAtWork, AtPoint, Polling, Leaving, Serving, WaitqProc, PollOps,
        AllOps, Polled, NoFrame
  <2>2. Local(DoneqSoft)
    BY <1>35, LocalSteps DEF Call, Step
  <2>3. hba' \in {DoneqSoft, NoThread} => OwnerAtWork'
    BY <1>35, SoftThreads, GhdAssumption DEF DoneqGet, OwnerAtWork, Control,
        IInv, TypeOK, Owners, HbaLabels, Polled
  <2>. QED
    BY <2>1, <2>2, <2>3, ControlBy, SoftThreads
<1>36. ASSUME DoneqCall
       PROVE  Control'
  <2>1. AtPoint(DoneqSoft)'
    BY <1>36, SoftThreads, GhdAssumption
    DEF DoneqCall, IInv, TypeOK, Frames, Owners, Pointers, HbaLabels, Control,
        OwnerAtWork, AtPoint, Polling, Leaving, Serving, WaitqProc, PollOps,
        AllOps, Polled, NoFrame
  <2>2. Local(DoneqSoft)
    BY <1>36, LocalSteps DEF Call, Step
  <2>3. hba' \in {DoneqSoft, NoThread} => OwnerAtWork'
    BY <1>36, SoftThreads, GhdAssumption DEF DoneqCall, OwnerAtWork, Control,
        IInv, TypeOK, Owners, HbaLabels, Polled
  <2>. QED
    BY <2>1, <2>2, <2>3, ControlBy, SoftThreads
<1>37. ASSUME TimerBegin
       PROVE  Control'
  <2>1. AtPoint(TimerSoft)'
    BY <1>37, SoftThreads, GhdAssumption
    DEF TimerBegin, IInv, TypeOK, Frames, Owners, Pointers, HbaLabels,
        Control, OwnerAtWork, AtPoint, Polling, Leaving, Serving, WaitqProc,
        PollOps, AllOps, Polled, NoFrame
  <2>2. Local(TimerSoft)
    BY <1>37, LocalSteps DEF Call, Step
  <2>3. hba' \in {TimerSoft, NoThread} => OwnerAtWork'
    BY <1>37, SoftThreads, GhdAssumption DEF TimerBegin, OwnerAtWork, Control,
        IInv, TypeOK, Owners, HbaLabels, Polled
  <2>. QED
    BY <2>1, <2>2, <2>3, ControlBy, SoftThreads
<1>38. ASSUME TimerEnter
       PROVE  Control'
  <2>1. AtPoint(TimerSoft)'
    BY <1>38, SoftThreads, GhdAssumption
    DEF TimerEnter, IInv, TypeOK, Frames, Owners, Pointers, HbaLabels,
        Control, OwnerAtWork, AtPoint, Polling, Leaving, Serving, WaitqProc,
        PollOps, AllOps, Polled, NoFrame
  <2>2. Local(TimerSoft)
    BY <1>38, LocalSteps DEF Call, Step
  <2>3. hba' \in {TimerSoft, NoThread} => OwnerAtWork'
    BY <1>38, SoftThreads, GhdAssumption DEF TimerEnter, OwnerAtWork, Control,
        IInv, TypeOK, Owners, HbaLabels, Polled
  <2>. QED
    BY <2>1, <2>2, <2>3, ControlBy, SoftThreads
<1>39. ASSUME IntrEnter
       PROVE  Control'
  <2>1. AtPoint(Intr)'
    BY <1>39, SoftThreads, GhdAssumption
    DEF IntrEnter, IInv, TypeOK, Frames, Owners, Pointers, HbaLabels, Control,
        OwnerAtWork, AtPoint, Polling, Leaving, Serving, WaitqProc, PollOps,
        AllOps, Polled, NoFrame
  <2>2. Local(Intr)
    BY <1>39, LocalSteps DEF Call, Step
  <2>3. hba' \in {Intr, NoThread} => OwnerAtWork'
    BY <1>39, SoftThreads, GhdAssumption DEF IntrEnter, OwnerAtWork, Control,
        IInv, TypeOK, Owners, HbaLabels, Polled
  <2>. QED
    BY <2>1, <2>2, <2>3, ControlBy, SoftThreads
<1>40. ASSUME GhdTimeout
       PROVE  Control'
  BY <1>40, SameControl DEF GhdTimeout
<1>41. ASSUME DeviceInterrupt
       PROVE  Control'
  BY <1>41, SameControl DEF DeviceInterrupt
<1>42. ASSUME NEW c \in Cmds, Expire(c)
       PROVE  Control'
  BY <1>42, SameControl DEF Expire
<1>43. ASSUME UNCHANGED vars
       PROVE  Control'
  BY <1>43, SameControl DEF vars
<1>. QED
  BY <1>1, <1>2, <1>3, <1>4, <1>5, <1>6, <1>7, <1>8, <1>9, <1>10, <1>11,
      <1>12, <1>13, <1>14, <1>15, <1>16, <1>17, <1>18, <1>19, <1>20, <1>21,
      <1>22, <1>23, <1>24, <1>25, <1>26, <1>27, <1>28, <1>29, <1>30, <1>31,
      <1>32, <1>33, <1>34, <1>35, <1>36, <1>37, <1>38, <1>39, <1>40, <1>41,
      <1>42, <1>43
  DEF Next, Call, Step, SoftStep

-----------------------------------------------------------------------------
(* Where requests are.                                                     *)

PopsIt(t, c) == pc[t] \in {"wq_start", "wq_reject"} /\ frame.run = c
HandlesIt(t, c) == pc[t] = "ns" /\ frame.run = c

(* The popped request and the one a recovery step is for belong to the     *)
(* owner of the HBA mutex.                                                 *)
OwnerHas ==
  \A c \in Cmds : /\ IsPopped(c) <=> \E u \in Threads : PopsIt(u, c)
                  /\ Handled(c) <=> \E u \in Threads : HandlesIt(u, c)

(* This follows from who may hold the mutex.                               *)
LEMMA OwnerHasThem ==
  IInv => OwnerHas
<1>. SUFFICES ASSUME IInv, NEW c \in Cmds
              PROVE  /\ IsPopped(c) <=> \E u \in Threads : PopsIt(u, c)
                     /\ Handled(c) <=> \E u \in Threads : HandlesIt(u, c)
  BY DEF OwnerHas
<1>1. \A u \in Threads : pc[u] \in HbaLabels => hba = u /\ u # NoThread
  BY GhdAssumption DEF IInv, Owners
<1>2. hba # NoThread => hba \in Threads
  BY DEF IInv, TypeOK
<1>3. IsPopped(c) <=> hba # NoThread /\ PopsIt(hba, c)
  BY DEF IsPopped, Popped, PopsIt
<1>4. \A u \in Threads : PopsIt(u, c) \/ HandlesIt(u, c) => pc[u] \in HbaLabels
  BY DEF PopsIt, HandlesIt, HbaLabels
<1>5. Handled(c) <=> hba # NoThread /\ HandlesIt(hba, c)
  BY DEF Handled, HandlesIt
<1>. QED
  BY <1>1, <1>2, <1>3, <1>4, <1>5

(* A thread's step leaves alone what the others have,                      *)
LEMMA OthersKeep ==
  ASSUME IInv, NEW t \in Threads, Local(t), NEW u \in Threads, u # t, NEW c \in Cmds
  PROVE  /\ PopsIt(u, c)' <=> PopsIt(u, c)
         /\ HandlesIt(u, c)' <=> HandlesIt(u, c)
         /\ HasInHand(u, c)' <=> HasInHand(u, c)
<1>1. pc'[u] = pc[u] /\ op'[u] = op[u] /\ cmd'[u] = cmd[u]
  BY DEF Local
<1>2. hba' = u <=> hba = u
  BY GhdAssumption DEF Local
<1>3. hba = u => frame' = frame
  BY GhdAssumption DEF Local
<1>4. pc[u] \in {"wq_start", "wq_reject", "ns", "po_put"} => hba = u
  BY DEF IInv, Owners, HbaLabels
<1>5. (PopsIt(u, c)' <=> PopsIt(u, c)) /\ (HandlesIt(u, c)' <=> HandlesIt(u, c))
  BY <1>1, <1>3, <1>4 DEF PopsIt, HandlesIt
<1>6. HasInHand(u, c)' <=> HasInHand(u, c)
  BY <1>1, <1>2, <1>3, <1>4 DEF HasInHand
<1>. QED
  BY <1>5, <1>6

(* so what it takes and what it gives away tells where the requests are    *)
(* after it.                                                               *)
LEMMA Updates ==
  ASSUME IInv, IInv', OneHand, NEW t \in Threads, Local(t), NEW c \in Cmds
  PROVE  /\ IsPopped(c)' <=> PopsIt(t, c)' \/ (IsPopped(c) /\ ~PopsIt(t, c))
         /\ Handled(c)' <=> HandlesIt(t, c)' \/ (Handled(c) /\ ~HandlesIt(t, c))
         /\ InHand(c)' <=> HasInHand(t, c)' \/ (InHand(c) /\ ~HasInHand(t, c))
<1>1. /\ IsPopped(c) <=> \E u \in Threads : PopsIt(u, c)
      /\ Handled(c) <=> \E u \in Threads : HandlesIt(u, c)
  BY OwnerHasThem DEF OwnerHas
<1>2. /\ IsPopped(c)' <=> \E u \in Threads : PopsIt(u, c)'
      /\ Handled(c)' <=> \E u \in Threads : HandlesIt(u, c)'
  <2>1. OwnerHas'
    BY OwnerHasThem, PTL
  <2>. QED
    BY <2>1 DEF OwnerHas
<1>3. \A u \in Threads : u # t =>
        /\ PopsIt(u, c)' <=> PopsIt(u, c)
        /\ HandlesIt(u, c)' <=> HandlesIt(u, c)
        /\ HasInHand(u, c)' <=> HasInHand(u, c)
  BY OthersKeep
<1>4. \A u \in Threads : PopsIt(u, c) \/ HandlesIt(u, c) => hba = u
  BY DEF IInv, Owners, HbaLabels, PopsIt, HandlesIt
<1>5. \A u \in Threads : HasInHand(u, c) /\ HasInHand(t, c) => u = t
  BY DEF OneHand
<1>6. InHand(c) <=> \E u \in Threads : HasInHand(u, c)
  BY DEF InHand
<1>7. InHand(c)' <=> \E u \in Threads : HasInHand(u, c)'
  BY DEF InHand
<1>. QED
  BY <1>1, <1>2, <1>3, <1>4, <1>5, <1>6, <1>7

(* Nobody takes a request another has in its hands.                        *)
LEMMA StillOneHand ==
  ASSUME IInv, OneHand, NEW t \in Threads, Local(t),
         \A c \in Cmds : HasInHand(t, c)' => HasInHand(t, c) \/ ~InHand(c)
  PROVE  OneHand'
<1>. SUFFICES ASSUME NEW c \in Cmds, NEW u \in Threads, NEW v \in Threads,
                     HasInHand(u, c)', HasInHand(v, c)'
              PROVE  u = v
  BY DEF OneHand
<1>1. \A w \in Threads : w # t => (HasInHand(w, c)' <=> HasInHand(w, c))
  BY OthersKeep
<1>2. \A w \in Threads : HasInHand(w, c) => InHand(c)
  BY DEF InHand
<1>3. \A w, x \in Threads : HasInHand(w, c) /\ HasInHand(x, c) => w = x
  BY DEF OneHand
<1>. QED
  BY <1>1, <1>2, <1>3

(* A request nothing happens to stays tracked.                             *)
LEMMA StaysTracked ==
  ASSUME NEW c \in Cmds, Tracked(c),
         IsWaiting(c)' <=> IsWaiting(c), IsPopped(c)' <=> IsPopped(c),
         IsActive(c)' <=> IsActive(c), OnDoneq(c)' <=> OnDoneq(c),
         OnHold(c)' <=> OnHold(c), InHand(c)' <=> InHand(c),
         Handled(c)' <=> Handled(c), c \in owned' <=> c \in owned,
         state'[c] = state[c], timer'[c] # "off" <=> timer[c] # "off",
         IsWaiting(c) \/ wq'.level[c] = wq.level[c]
  PROVE  Tracked(c)'
<1>1. OnePlace(c)'
  BY DEF Tracked, OnePlace
<1>2. StateTells(c)'
  BY DEF Tracked, OnePlace, StateTells
<1>3. TimerTells(c)'
  BY DEF Tracked, TimerTells
<1>. QED
  BY <1>1, <1>2, <1>3 DEF Tracked

(* A step that moves no request.                                           *)
LEMMA QuietStep ==
  ASSUME IInv, IInv', AllTracked, NEW t \in Threads, Local(t),
         UNCHANGED <<wq, state, active, doneq, owned>>, frame'.hold = frame.hold,
         \A c \in Cmds : timer'[c] # "off" <=> timer[c] # "off",
         \A c \in Cmds : /\ PopsIt(t, c)' <=> PopsIt(t, c)
                         /\ HandlesIt(t, c)' <=> HandlesIt(t, c)
                         /\ HasInHand(t, c)' <=> HasInHand(t, c)
  PROVE  AllTracked'
<1>1. Orderly'
  BY DEF AllTracked, Orderly
<1>2. OneHand'
  BY StillOneHand DEF AllTracked
<1>3. ASSUME NEW c \in Cmds PROVE Tracked(c)'
  <2>1. /\ IsPopped(c)' <=> PopsIt(t, c)' \/ (IsPopped(c) /\ ~PopsIt(t, c))
        /\ Handled(c)' <=> HandlesIt(t, c)' \/ (Handled(c) /\ ~HandlesIt(t, c))
        /\ InHand(c)' <=> HasInHand(t, c)' \/ (InHand(c) /\ ~HasInHand(t, c))
    BY Updates DEF AllTracked
  <2>2. /\ PopsIt(t, c) => IsPopped(c)
        /\ HandlesIt(t, c) => Handled(c)
        /\ HasInHand(t, c) => InHand(c)
    BY OwnerHasThem DEF OwnerHas, InHand
  <2>3. /\ IsWaiting(c)' <=> IsWaiting(c)
        /\ IsActive(c)' <=> IsActive(c)
        /\ OnDoneq(c)' <=> OnDoneq(c)
        /\ OnHold(c)' <=> OnHold(c)
    BY DEF IsWaiting, Waits, IsActive, OnDoneq, OnHold
  <2>. QED
    BY <2>1, <2>2, <2>3, StaysTracked DEF AllTracked
<1>. QED
  BY <1>1, <1>2, <1>3 DEF AllTracked

(* A step of no thread.                                                    *)
LEMMA OutsideStep ==
  ASSUME AllTracked,
         UNCHANGED <<pc, op, cmd, hba, frame, wq, state, active, doneq, owned>>,
         \A c \in Cmds : timer'[c] # "off" <=> timer[c] # "off"
  PROVE  AllTracked'
<1>1. Orderly' /\ OneHand'
  BY DEF AllTracked, Orderly, OneHand, HasInHand
<1>2. ASSUME NEW c \in Cmds PROVE Tracked(c)'
  <2>1. /\ IsPopped(c)' <=> IsPopped(c)
        /\ Handled(c)' <=> Handled(c)
        /\ InHand(c)' <=> InHand(c)
    BY DEF IsPopped, Popped, Handled, InHand, HasInHand
  <2>2. /\ IsWaiting(c)' <=> IsWaiting(c)
        /\ IsActive(c)' <=> IsActive(c)
        /\ OnDoneq(c)' <=> OnDoneq(c)
        /\ OnHold(c)' <=> OnHold(c)
    BY DEF IsWaiting, Waits, IsActive, OnDoneq, OnHold
  <2>. QED
    BY <2>1, <2>2, StaysTracked DEF AllTracked
<1>. QED
  BY <1>1, <1>2 DEF AllTracked

(* Most of the steps do not: they take or release a mutex, look at the     *)
(* hardware, leave or enter poll mode.                                     *)
LEMMA QuietSteps ==
  ASSUME IInv, IInv', Control, AllTracked
  PROVE  /\ \A t \in Threads, c \in Cmds : Abort(t, c) \/ Reset(t, c) => AllTracked'
         /\ \A t \in Threads :
              EnterPolled(t) \/ EnterReset(t) \/ TransportTryFails(t) \/ TransportTryOk(t)
                \/ WaitqDone(t) \/ ReleaseHba(t) \/ ReleaseWaitq(t) \/ IntrPhase(t)
                \/ IntrNone(t) \/ PollGiveUp(t) \/ PollmodeExit(t) \/ PollmodeTrigger(t)
                \/ TimerNone(t)
              => AllTracked'
         /\ IntrReturn \/ DoneqBegin \/ TimerBegin \/ TimerEnter \/ IntrEnter
              => AllTracked'
<1>. USE DEF calls, locks, timers, doneqs, device, ghosts, Goto
<1>1. ASSUME NEW t \in Threads, NEW c \in Cmds, Abort(t, c)
       PROVE  AllTracked'
  <2>1. Local(t) /\ t \in Threads
    BY <1>1, LocalSteps, SoftThreads DEF Call, Step
  <2>2. UNCHANGED <<wq, state, timer, active, doneq, owned>> /\ frame'.hold = frame.hold
    BY <1>1 DEF Abort, IInv, TypeOK, Frames, Control, OwnerAtWork, AtPoint,
        Leaving, Serving, NoFrame
  <2>3. ASSUME NEW x \in Cmds
        PROVE  /\ PopsIt(t, x)' <=> PopsIt(t, x)
               /\ HandlesIt(t, x)' <=> HandlesIt(t, x)
               /\ HasInHand(t, x)' <=> HasInHand(t, x)
    BY <1>1, SoftThreads, FrameFields, GhdAssumption DEF Abort, IInv, TypeOK,
        Frames, Owners, Pointers, HbaLabels, Control, OwnerAtWork, AtPoint,
        Polling, Leaving, Serving, WaitqProc, PollOps, AllOps, Polled,
        FirstAction, NoFrame, PopsIt, HandlesIt, HasInHand
  <2>. QED
    BY <2>1, <2>2, <2>3, QuietStep
<1>2. ASSUME NEW t \in Threads, NEW c \in Cmds, Reset(t, c)
       PROVE  AllTracked'
  <2>1. Local(t) /\ t \in Threads
    BY <1>2, LocalSteps, SoftThreads DEF Call, Step
  <2>2. UNCHANGED <<wq, state, timer, active, doneq, owned>> /\ frame'.hold = frame.hold
    BY <1>2 DEF Reset, IInv, TypeOK, Frames, Control, OwnerAtWork, AtPoint,
        Leaving, Serving, NoFrame
  <2>3. ASSUME NEW x \in Cmds
        PROVE  /\ PopsIt(t, x)' <=> PopsIt(t, x)
               /\ HandlesIt(t, x)' <=> HandlesIt(t, x)
               /\ HasInHand(t, x)' <=> HasInHand(t, x)
    BY <1>2, SoftThreads, FrameFields, GhdAssumption DEF Reset, IInv, TypeOK,
        Frames, Owners, Pointers, HbaLabels, Control, OwnerAtWork, AtPoint,
        Polling, Leaving, Serving, WaitqProc, PollOps, AllOps, Polled,
        FirstAction, NoFrame, PopsIt, HandlesIt, HasInHand
  <2>. QED
    BY <2>1, <2>2, <2>3, QuietStep
<1>3. ASSUME NEW t \in Threads, EnterPolled(t)
       PROVE  AllTracked'
  <2>1. Local(t) /\ t \in Threads
    BY <1>3, LocalSteps, SoftThreads DEF Call, Step
  <2>2. UNCHANGED <<wq, state, timer, active, doneq, owned>> /\ frame'.hold = frame.hold
    BY <1>3 DEF EnterPolled, Enter, IInv, TypeOK, Frames, Control,
        OwnerAtWork, AtPoint, Leaving, Serving, NoFrame
  <2>3. ASSUME NEW x \in Cmds
        PROVE  /\ PopsIt(t, x)' <=> PopsIt(t, x)
               /\ HandlesIt(t, x)' <=> HandlesIt(t, x)
               /\ HasInHand(t, x)' <=> HasInHand(t, x)
    BY <1>3, SoftThreads, FrameFields, GhdAssumption DEF EnterPolled, Enter,
        IInv, TypeOK, Frames, Owners, Pointers, HbaLabels, Control,
        OwnerAtWork, AtPoint, Polling, Leaving, Serving, WaitqProc, PollOps,
        AllOps, Polled, FirstAction, NoFrame, PopsIt, HandlesIt, HasInHand
  <2>. QED
    BY <2>1, <2>2, <2>3, QuietStep
<1>4. ASSUME NEW t \in Threads, EnterReset(t)
       PROVE  AllTracked'
  <2>1. Local(t) /\ t \in Threads
    BY <1>4, LocalSteps, SoftThreads DEF Call, Step
  <2>2. UNCHANGED <<wq, state, timer, active, doneq, owned>> /\ frame'.hold = frame.hold
    BY <1>4 DEF EnterReset, Enter, IInv, TypeOK, Frames, Control, OwnerAtWork,
        AtPoint, Leaving, Serving, NoFrame
  <2>3. ASSUME NEW x \in Cmds
        PROVE  /\ PopsIt(t, x)' <=> PopsIt(t, x)
               /\ HandlesIt(t, x)' <=> HandlesIt(t, x)
               /\ HasInHand(t, x)' <=> HasInHand(t, x)
    BY <1>4, SoftThreads, FrameFields, GhdAssumption DEF EnterReset, Enter,
        IInv, TypeOK, Frames, Owners, Pointers, HbaLabels, Control,
        OwnerAtWork, AtPoint, Polling, Leaving, Serving, WaitqProc, PollOps,
        AllOps, Polled, FirstAction, NoFrame, PopsIt, HandlesIt, HasInHand
  <2>. QED
    BY <2>1, <2>2, <2>3, QuietStep
<1>5. ASSUME NEW t \in Threads, TransportTryFails(t)
       PROVE  AllTracked'
  <2>1. Local(t) /\ t \in Threads
    BY <1>5, LocalSteps, SoftThreads DEF Call, Step
  <2>2. UNCHANGED <<wq, state, timer, active, doneq, owned>> /\ frame'.hold = frame.hold
    BY <1>5 DEF TransportTryFails, Return, IInv, TypeOK, Frames, Control,
        OwnerAtWork, AtPoint, Leaving, Serving, NoFrame
  <2>3. ASSUME NEW x \in Cmds
        PROVE  /\ PopsIt(t, x)' <=> PopsIt(t, x)
               /\ HandlesIt(t, x)' <=> HandlesIt(t, x)
               /\ HasInHand(t, x)' <=> HasInHand(t, x)
    BY <1>5, SoftThreads, FrameFields, GhdAssumption DEF TransportTryFails,
        Return, IInv, TypeOK, Frames, Owners, Pointers, HbaLabels, Control,
        OwnerAtWork, AtPoint, Polling, Leaving, Serving, WaitqProc, PollOps,
        AllOps, Polled, FirstAction, NoFrame, PopsIt, HandlesIt, HasInHand
  <2>. QED
    BY <2>1, <2>2, <2>3, QuietStep
<1>6. ASSUME NEW t \in Threads, TransportTryOk(t)
       PROVE  AllTracked'
  <2>1. Local(t) /\ t \in Threads
    BY <1>6, LocalSteps, SoftThreads DEF Call, Step
  <2>2. UNCHANGED <<wq, state, timer, active, doneq, owned>> /\ frame'.hold = frame.hold
    BY <1>6 DEF TransportTryOk, IInv, TypeOK, Frames, Control, OwnerAtWork,
        AtPoint, Leaving, Serving, NoFrame
  <2>3. ASSUME NEW x \in Cmds
        PROVE  /\ PopsIt(t, x)' <=> PopsIt(t, x)
               /\ HandlesIt(t, x)' <=> HandlesIt(t, x)
               /\ HasInHand(t, x)' <=> HasInHand(t, x)
    BY <1>6, SoftThreads, FrameFields, GhdAssumption DEF TransportTryOk, IInv,
        TypeOK, Frames, Owners, Pointers, HbaLabels, Control, OwnerAtWork,
        AtPoint, Polling, Leaving, Serving, WaitqProc, PollOps, AllOps,
        Polled, FirstAction, NoFrame, PopsIt, HandlesIt, HasInHand
  <2>. QED
    BY <2>1, <2>2, <2>3, QuietStep
<1>7. ASSUME NEW t \in Threads, WaitqDone(t)
       PROVE  AllTracked'
  <2>1. Local(t) /\ t \in Threads
    BY <1>7, LocalSteps, SoftThreads DEF Call, Step
  <2>2. UNCHANGED <<wq, state, timer, active, doneq, owned>> /\ frame'.hold = frame.hold
    BY <1>7 DEF WaitqDone, WaitqReturn, IInv, TypeOK, Frames, Control,
        OwnerAtWork, AtPoint, Leaving, Serving, NoFrame
  <2>3. ASSUME NEW x \in Cmds
        PROVE  /\ PopsIt(t, x)' <=> PopsIt(t, x)
               /\ HandlesIt(t, x)' <=> HandlesIt(t, x)
               /\ HasInHand(t, x)' <=> HasInHand(t, x)
    BY <1>7, SoftThreads, FrameFields, GhdAssumption DEF WaitqDone,
        WaitqReturn, IInv, TypeOK, Frames, Owners, Pointers, HbaLabels,
        Control, OwnerAtWork, AtPoint, Polling, Leaving, Serving, WaitqProc,
        PollOps, AllOps, Polled, FirstAction, NoFrame, PopsIt, HandlesIt,
        HasInHand
  <2>. QED
    BY <2>1, <2>2, <2>3, QuietStep
<1>8. ASSUME NEW t \in Threads, ReleaseHba(t)
       PROVE  AllTracked'
  <2>1. Local(t) /\ t \in Threads
    BY <1>8, LocalSteps, SoftThreads DEF Call, Step
  <2>2. UNCHANGED <<wq, state, timer, active, doneq, owned>> /\ frame'.hold = frame.hold
    BY <1>8 DEF ReleaseHba, IInv, TypeOK, Frames, Control, OwnerAtWork,
        AtPoint, Leaving, Serving, NoFrame, Owners, HbaLabels
  <2>3. ASSUME NEW x \in Cmds
        PROVE  /\ PopsIt(t, x)' <=> PopsIt(t, x)
               /\ HandlesIt(t, x)' <=> HandlesIt(t, x)
               /\ HasInHand(t, x)' <=> HasInHand(t, x)
    BY <1>8, SoftThreads, FrameFields, GhdAssumption DEF ReleaseHba, IInv,
        TypeOK, Frames, Owners, Pointers, HbaLabels, Control, OwnerAtWork,
        AtPoint, Polling, Leaving, Serving, WaitqProc, PollOps, AllOps,
        Polled, FirstAction, NoFrame, PopsIt, HandlesIt, HasInHand
  <2>. QED
    BY <2>1, <2>2, <2>3, QuietStep
<1>9. ASSUME NEW t \in Threads, ReleaseWaitq(t)
       PROVE  AllTracked'
  <2>1. Local(t) /\ t \in Threads
    BY <1>9, LocalSteps, SoftThreads DEF Call, Step
  <2>2. UNCHANGED <<wq, state, timer, active, doneq, owned>> /\ frame'.hold = frame.hold
    BY <1>9 DEF ReleaseWaitq, Return, IInv, TypeOK, Frames, Control,
        OwnerAtWork, AtPoint, Leaving, Serving, NoFrame
  <2>3. ASSUME NEW x \in Cmds
        PROVE  /\ PopsIt(t, x)' <=> PopsIt(t, x)
               /\ HandlesIt(t, x)' <=> HandlesIt(t, x)
               /\ HasInHand(t, x)' <=> HasInHand(t, x)
    BY <1>9, SoftThreads, FrameFields, GhdAssumption DEF ReleaseWaitq, Return,
        IInv, TypeOK, Frames, Owners, Pointers, HbaLabels, Control,
        OwnerAtWork, AtPoint, Polling, Leaving, Serving, WaitqProc, PollOps,
        AllOps, Polled, FirstAction, NoFrame, PopsIt, HandlesIt, HasInHand
  <2>. QED
    BY <2>1, <2>2, <2>3, QuietStep
<1>10. ASSUME NEW t \in Threads, IntrPhase(t)
       PROVE  AllTracked'
  <2>1. Local(t) /\ t \in Threads
    BY <1>10, LocalSteps, SoftThreads DEF Call, Step
  <2>2. UNCHANGED <<wq, state, timer, active, doneq, owned>> /\ frame'.hold = frame.hold
    BY <1>10 DEF IntrPhase, StatusProcessed, IInv, TypeOK, Frames, Control,
        OwnerAtWork, AtPoint, Leaving, Serving, NoFrame
  <2>3. ASSUME NEW x \in Cmds
        PROVE  /\ PopsIt(t, x)' <=> PopsIt(t, x)
               /\ HandlesIt(t, x)' <=> HandlesIt(t, x)
               /\ HasInHand(t, x)' <=> HasInHand(t, x)
    BY <1>10, SoftThreads, FrameFields, GhdAssumption DEF IntrPhase,
        StatusProcessed, IInv, TypeOK, Frames, Owners, Pointers, HbaLabels,
        Control, OwnerAtWork, AtPoint, Polling, Leaving, Serving, WaitqProc,
        PollOps, AllOps, Polled, FirstAction, NoFrame, PopsIt, HandlesIt,
        HasInHand
  <2>. QED
    BY <2>1, <2>2, <2>3, QuietStep
<1>11. ASSUME NEW t \in Threads, IntrNone(t)
       PROVE  AllTracked'
  <2>1. Local(t) /\ t \in Threads
    BY <1>11, LocalSteps, SoftThreads DEF Call, Step
  <2>2. UNCHANGED <<wq, state, timer, active, doneq, owned>> /\ frame'.hold = frame.hold
    BY <1>11 DEF IntrNone, IInv, TypeOK, Frames, Control, OwnerAtWork,
        AtPoint, Leaving, Serving, NoFrame
  <2>3. ASSUME NEW x \in Cmds
        PROVE  /\ PopsIt(t, x)' <=> PopsIt(t, x)
               /\ HandlesIt(t, x)' <=> HandlesIt(t, x)
               /\ HasInHand(t, x)' <=> HasInHand(t, x)
    BY <1>11, SoftThreads, FrameFields, GhdAssumption DEF IntrNone, IInv,
        TypeOK, Frames, Owners, Pointers, HbaLabels, Control, OwnerAtWork,
        AtPoint, Polling, Leaving, Serving, WaitqProc, PollOps, AllOps,
        Polled, FirstAction, NoFrame, PopsIt, HandlesIt, HasInHand
  <2>. QED
    BY <2>1, <2>2, <2>3, QuietStep
<1>12. ASSUME NEW t \in Threads, PollGiveUp(t)
       PROVE  AllTracked'
  <2>1. Local(t) /\ t \in Threads
    BY <1>12, LocalSteps, SoftThreads DEF Call, Step
  <2>2. UNCHANGED <<wq, state, timer, active, doneq, owned>> /\ frame'.hold = frame.hold
    BY <1>12 DEF PollGiveUp, IInv, TypeOK, Frames, Control, OwnerAtWork,
        AtPoint, Leaving, Serving, NoFrame
  <2>3. ASSUME NEW x \in Cmds
        PROVE  /\ PopsIt(t, x)' <=> PopsIt(t, x)
               /\ HandlesIt(t, x)' <=> HandlesIt(t, x)
               /\ HasInHand(t, x)' <=> HasInHand(t, x)
    BY <1>12, SoftThreads, FrameFields, GhdAssumption DEF PollGiveUp, IInv,
        TypeOK, Frames, Owners, Pointers, HbaLabels, Control, OwnerAtWork,
        AtPoint, Polling, Leaving, Serving, WaitqProc, PollOps, AllOps,
        Polled, FirstAction, NoFrame, PopsIt, HandlesIt, HasInHand
  <2>. QED
    BY <2>1, <2>2, <2>3, QuietStep
<1>13. ASSUME NEW t \in Threads, PollmodeExit(t)
       PROVE  AllTracked'
  <2>1. Local(t) /\ t \in Threads
    BY <1>13, LocalSteps, SoftThreads DEF Call, Step
  <2>2. UNCHANGED <<wq, state, timer, active, doneq, owned>> /\ frame'.hold = frame.hold
    BY <1>13 DEF PollmodeExit, IInv, TypeOK, Frames, Control, OwnerAtWork,
        AtPoint, Leaving, Serving, NoFrame
  <2>3. ASSUME NEW x \in Cmds
        PROVE  /\ PopsIt(t, x)' <=> PopsIt(t, x)
               /\ HandlesIt(t, x)' <=> HandlesIt(t, x)
               /\ HasInHand(t, x)' <=> HasInHand(t, x)
    BY <1>13, SoftThreads, FrameFields, GhdAssumption DEF PollmodeExit, IInv,
        TypeOK, Frames, Owners, Pointers, HbaLabels, Control, OwnerAtWork,
        AtPoint, Polling, Leaving, Serving, WaitqProc, PollOps, AllOps,
        Polled, FirstAction, NoFrame, PopsIt, HandlesIt, HasInHand
  <2>. QED
    BY <2>1, <2>2, <2>3, QuietStep
<1>14. ASSUME NEW t \in Threads, PollmodeTrigger(t)
       PROVE  AllTracked'
  <2>1. Local(t) /\ t \in Threads
    BY <1>14, LocalSteps, SoftThreads DEF Call, Step
  <2>2. UNCHANGED <<wq, state, timer, active, doneq, owned>> /\ frame'.hold = frame.hold
    BY <1>14 DEF PollmodeTrigger, IInv, TypeOK, Frames, Control, OwnerAtWork,
        AtPoint, Leaving, Serving, NoFrame
  <2>3. ASSUME NEW x \in Cmds
        PROVE  /\ PopsIt(t, x)' <=> PopsIt(t, x)
               /\ HandlesIt(t, x)' <=> HandlesIt(t, x)
               /\ HasInHand(t, x)' <=> HasInHand(t, x)
    BY <1>14, SoftThreads, FrameFields, GhdAssumption DEF PollmodeTrigger,
        IInv, TypeOK, Frames, Owners, Pointers, HbaLabels, Control,
        OwnerAtWork, AtPoint, Polling, Leaving, Serving, WaitqProc, PollOps,
        AllOps, Polled, FirstAction, NoFrame, PopsIt, HandlesIt, HasInHand
  <2>. QED
    BY <2>1, <2>2, <2>3, QuietStep
<1>15. ASSUME NEW t \in Threads, TimerNone(t)
       PROVE  AllTracked'
  <2>1. Local(t) /\ t \in Threads
    BY <1>15, LocalSteps, SoftThreads DEF Call, Step
  <2>2. UNCHANGED <<wq, state, timer, active, doneq, owned>> /\ frame'.hold = frame.hold
    BY <1>15 DEF TimerNone, IInv, TypeOK, Frames, Control, OwnerAtWork,
        AtPoint, Leaving, Serving, NoFrame
  <2>3. ASSUME NEW x \in Cmds
        PROVE  /\ PopsIt(t, x)' <=> PopsIt(t, x)
               /\ HandlesIt(t, x)' <=> HandlesIt(t, x)
               /\ HasInHand(t, x)' <=> HasInHand(t, x)
    BY <1>15, SoftThreads, FrameFields, GhdAssumption DEF TimerNone, IInv,
        TypeOK, Frames, Owners, Pointers, HbaLabels, Control, OwnerAtWork,
        AtPoint, Polling, Leaving, Serving, WaitqProc, PollOps, AllOps,
        Polled, FirstAction, NoFrame, PopsIt, HandlesIt, HasInHand
  <2>. QED
    BY <2>1, <2>2, <2>3, QuietStep
<1>16. ASSUME IntrReturn
       PROVE  AllTracked'
  <2>1. Local(Intr) /\ Intr \in Threads
    BY <1>16, LocalSteps, SoftThreads DEF Call, Step
  <2>2. UNCHANGED <<wq, state, timer, active, doneq, owned>> /\ frame'.hold = frame.hold
    BY <1>16 DEF IntrReturn, IInv, TypeOK, Frames, Control, OwnerAtWork,
        AtPoint, Leaving, Serving, NoFrame, Owners, HbaLabels
  <2>3. ASSUME NEW x \in Cmds
        PROVE  /\ PopsIt(Intr, x)' <=> PopsIt(Intr, x)
               /\ HandlesIt(Intr, x)' <=> HandlesIt(Intr, x)
               /\ HasInHand(Intr, x)' <=> HasInHand(Intr, x)
    BY <1>16, SoftThreads, FrameFields, GhdAssumption DEF IntrReturn, IInv,
        TypeOK, Frames, Owners, Pointers, HbaLabels, Control, OwnerAtWork,
        AtPoint, Polling, Leaving, Serving, WaitqProc, PollOps, AllOps,
        Polled, FirstAction, NoFrame, PopsIt, HandlesIt, HasInHand
  <2>. QED
    BY <2>1, <2>2, <2>3, QuietStep
<1>17. ASSUME DoneqBegin
       PROVE  AllTracked'
  <2>1. Local(DoneqSoft) /\ DoneqSoft \in Threads
    BY <1>17, LocalSteps, SoftThreads DEF Call, Step
  <2>2. UNCHANGED <<wq, state, timer, active, doneq, owned>> /\ frame'.hold = frame.hold
    BY <1>17 DEF DoneqBegin, IInv, TypeOK, Frames, Control, OwnerAtWork,
        AtPoint, Leaving, Serving, NoFrame
  <2>3. ASSUME NEW x \in Cmds
        PROVE  /\ PopsIt(DoneqSoft, x)' <=> PopsIt(DoneqSoft, x)
               /\ HandlesIt(DoneqSoft, x)' <=> HandlesIt(DoneqSoft, x)
               /\ HasInHand(DoneqSoft, x)' <=> HasInHand(DoneqSoft, x)
    BY <1>17, SoftThreads, FrameFields, GhdAssumption DEF DoneqBegin, IInv,
        TypeOK, Frames, Owners, Pointers, HbaLabels, Control, OwnerAtWork,
        AtPoint, Polling, Leaving, Serving, WaitqProc, PollOps, AllOps,
        Polled, FirstAction, NoFrame, PopsIt, HandlesIt, HasInHand
  <2>. QED
    BY <2>1, <2>2, <2>3, QuietStep
<1>18. ASSUME TimerBegin
       PROVE  AllTracked'
  <2>1. Local(TimerSoft) /\ TimerSoft \in Threads
    BY <1>18, LocalSteps, SoftThreads DEF Call, Step
  <2>2. UNCHANGED <<wq, state, timer, active, doneq, owned>> /\ frame'.hold = frame.hold
    BY <1>18 DEF TimerBegin, IInv, TypeOK, Frames, Control, OwnerAtWork,
        AtPoint, Leaving, Serving, NoFrame
  <2>3. ASSUME NEW x \in Cmds
        PROVE  /\ PopsIt(TimerSoft, x)' <=> PopsIt(TimerSoft, x)
               /\ HandlesIt(TimerSoft, x)' <=> HandlesIt(TimerSoft, x)
               /\ HasInHand(TimerSoft, x)' <=> HasInHand(TimerSoft, x)
    BY <1>18, SoftThreads, FrameFields, GhdAssumption DEF TimerBegin, IInv,
        TypeOK, Frames, Owners, Pointers, HbaLabels, Control, OwnerAtWork,
        AtPoint, Polling, Leaving, Serving, WaitqProc, PollOps, AllOps,
        Polled, FirstAction, NoFrame, PopsIt, HandlesIt, HasInHand
  <2>. QED
    BY <2>1, <2>2, <2>3, QuietStep
<1>19. ASSUME TimerEnter
       PROVE  AllTracked'
  <2>1. Local(TimerSoft) /\ TimerSoft \in Threads
    BY <1>19, LocalSteps, SoftThreads DEF Call, Step
  <2>2. UNCHANGED <<wq, state, timer, active, doneq, owned>> /\ frame'.hold = frame.hold
    BY <1>19 DEF TimerEnter, IInv, TypeOK, Frames, Control, OwnerAtWork,
        AtPoint, Leaving, Serving, NoFrame
  <2>3. ASSUME NEW x \in Cmds
        PROVE  /\ PopsIt(TimerSoft, x)' <=> PopsIt(TimerSoft, x)
               /\ HandlesIt(TimerSoft, x)' <=> HandlesIt(TimerSoft, x)
               /\ HasInHand(TimerSoft, x)' <=> HasInHand(TimerSoft, x)
    BY <1>19, SoftThreads, FrameFields, GhdAssumption DEF TimerEnter, IInv,
        TypeOK, Frames, Owners, Pointers, HbaLabels, Control, OwnerAtWork,
        AtPoint, Polling, Leaving, Serving, WaitqProc, PollOps, AllOps,
        Polled, FirstAction, NoFrame, PopsIt, HandlesIt, HasInHand
  <2>. QED
    BY <2>1, <2>2, <2>3, QuietStep
<1>20. ASSUME IntrEnter
       PROVE  AllTracked'
  <2>1. Local(Intr) /\ Intr \in Threads
    BY <1>20, LocalSteps, SoftThreads DEF Call, Step
  <2>2. UNCHANGED <<wq, state, timer, active, doneq, owned>> /\ frame'.hold = frame.hold
    BY <1>20 DEF IntrEnter, IInv, TypeOK, Frames, Control, OwnerAtWork,
        AtPoint, Leaving, Serving, NoFrame
  <2>3. ASSUME NEW x \in Cmds
        PROVE  /\ PopsIt(Intr, x)' <=> PopsIt(Intr, x)
               /\ HandlesIt(Intr, x)' <=> HandlesIt(Intr, x)
               /\ HasInHand(Intr, x)' <=> HasInHand(Intr, x)
    BY <1>20, SoftThreads, FrameFields, GhdAssumption DEF IntrEnter, IInv,
        TypeOK, Frames, Owners, Pointers, HbaLabels, Control, OwnerAtWork,
        AtPoint, Polling, Leaving, Serving, WaitqProc, PollOps, AllOps,
        Polled, FirstAction, NoFrame, PopsIt, HandlesIt, HasInHand
  <2>. QED
    BY <2>1, <2>2, <2>3, QuietStep
<1>. QED
  BY <1>1, <1>2, <1>3, <1>4, <1>5, <1>6, <1>7, <1>8, <1>9, <1>10, <1>11,
      <1>12, <1>13, <1>14, <1>15, <1>16, <1>17, <1>18, <1>19, <1>20

(* A step that leaves a request where it is; from the doneq to a poll's    *)
(* hold queue and back is no move.                                         *)
Unmoved(t, x) ==
  /\ IsWaiting(x)' <=> IsWaiting(x)
  /\ IsActive(x)' <=> IsActive(x)
  /\ \/ (OnDoneq(x)' <=> OnDoneq(x)) /\ (OnHold(x)' <=> OnHold(x))
     \/ ~OnDoneq(x)' /\ (OnHold(x)' <=> OnDoneq(x) \/ OnHold(x))
     \/ ~OnHold(x)' /\ (OnDoneq(x)' <=> OnDoneq(x) \/ OnHold(x))
  /\ PopsIt(t, x)' <=> PopsIt(t, x)
  /\ HandlesIt(t, x)' <=> HandlesIt(t, x)
  /\ HasInHand(t, x)' <=> HasInHand(t, x)
  /\ x \in owned' <=> x \in owned
  /\ state'[x] = state[x]
  /\ timer'[x] # "off" <=> timer[x] # "off"
  /\ IsWaiting(x) \/ wq'.level[x] = wq.level[x]

(* Such a request stays tracked.                                           *)
LEMMA UnmovedTracked ==
  ASSUME IInv, IInv', AllTracked, NEW t \in Threads, Local(t),
         NEW x \in Cmds, Unmoved(t, x)
  PROVE  Tracked(x)'
<1>1. /\ IsPopped(x)' <=> PopsIt(t, x)' \/ (IsPopped(x) /\ ~PopsIt(t, x))
      /\ Handled(x)' <=> HandlesIt(t, x)' \/ (Handled(x) /\ ~HandlesIt(t, x))
      /\ InHand(x)' <=> HasInHand(t, x)' \/ (InHand(x) /\ ~HasInHand(t, x))
  BY Updates DEF AllTracked
<1>2. /\ PopsIt(t, x) => IsPopped(x)
      /\ HandlesIt(t, x) => Handled(x)
      /\ HasInHand(t, x) => InHand(x)
  BY OwnerHasThem DEF OwnerHas, InHand
<1>3. /\ IsPopped(x)' <=> IsPopped(x)
      /\ Handled(x)' <=> Handled(x)
      /\ InHand(x)' <=> InHand(x)
  BY <1>1, <1>2 DEF Unmoved
<1>4. Tracked(x)
  BY DEF AllTracked
<1>5. OnePlace(x)'
  BY <1>3, <1>4 DEF Unmoved, Tracked, OnePlace
<1>6. StateTells(x)'
  BY <1>3, <1>4 DEF Unmoved, Tracked, OnePlace, StateTells
<1>7. TimerTells(x)'
  BY <1>3, <1>4 DEF Unmoved, Tracked, TimerTells
<1>. QED
  BY <1>5, <1>6, <1>7 DEF Tracked

(* A step that moves one request.                                          *)
LEMMA OneMoves ==
  ASSUME IInv, IInv', AllTracked, NEW t \in Threads, Local(t), Orderly',
         NEW c \in Cmds, Tracked(c)', HasInHand(t, c)' => HasInHand(t, c) \/ ~InHand(c),
         \A x \in Cmds \ {c} : Unmoved(t, x)
  PROVE  AllTracked'
<1>1. ASSUME NEW x \in Cmds, x # c PROVE Tracked(x)'
  BY <1>1, UnmovedTracked
<1>2. ASSUME NEW x \in Cmds, HasInHand(t, x)' PROVE HasInHand(t, x) \/ ~InHand(x)
  BY <1>2 DEF Unmoved
<1>3. OneHand'
  BY <1>2, StillOneHand DEF AllTracked
<1>. QED
  BY <1>1, <1>3 DEF AllTracked

(* The step's own request: where it was, and what the others have of it.   *)
LEMMA Before ==
  ASSUME QueueInv, NEW t \in Threads, NEW c \in Cmds
  PROVE  /\ PopsIt(t, c) => IsPopped(c)
         /\ HandlesIt(t, c) => Handled(c)
         /\ HasInHand(t, c) => InHand(c)
         /\ OnePlace(c) /\ StateTells(c) /\ TimerTells(c)
         /\ Handled(c) => IsWaiting(c) \/ IsActive(c)
<1>1. /\ PopsIt(t, c) => IsPopped(c)
      /\ HandlesIt(t, c) => Handled(c)
      /\ HasInHand(t, c) => InHand(c)
  BY OwnerHasThem DEF QueueInv, OwnerHas, InHand
<1>2. Handled(c) => IsWaiting(c) \/ IsActive(c)
  <2>1. c # NoCmd
    BY GhdAssumption
  <2>2. hba # NoThread => hba \in Threads
    BY DEF QueueInv, IInv, TypeOK
  <2>. QED
    BY <2>1, <2>2 DEF QueueInv, Stepping, Handled
<1>. QED
  BY <1>1, <1>2 DEF QueueInv, AllTracked, Tracked

(* A request is queued nowhere else than in its place.                     *)
LEMMA TransportTracked ==
  ASSUME QueueInv, IInv', NEW t \in Threads, NEW c \in Cmds, Transport(t, c)
  PROVE  AllTracked'
<1>. USE DEF calls, locks, timers, doneqs, device, ghosts, Goto
<1>1. Local(t)
  BY LocalSteps DEF Call, QueueInv
<1>2. /\ UNCHANGED <<wq, state, timer, active, doneq, frame, hba>>
      /\ owned' = owned \cup {c} /\ c \notin owned
      /\ pc[t] = "idle" /\ op[t] = "none" /\ cmd'[t] = c
      /\ pc'[t] \in {"tr_enq", "enter"} /\ op'[t] \in {"transport"} \cup Polled
  BY DEF Transport, QueueInv, IInv, TypeOK, Control, AtPoint
<1>3. Orderly'
  BY <1>2 DEF QueueInv, AllTracked, Orderly
<1>4. HasInHand(t, c)'
  BY <1>2 DEF HasInHand
<1>5. ASSUME NEW x \in Cmds
      PROVE  ~PopsIt(t, x) /\ ~HandlesIt(t, x) /\ ~HasInHand(t, x)
             /\ ~PopsIt(t, x)' /\ ~HandlesIt(t, x)' /\ (x # c => ~HasInHand(t, x)')
  BY <1>2 DEF PopsIt, HandlesIt, HasInHand, Polled
<1>6. \A x \in Cmds \ {c} : Unmoved(t, x)
  BY <1>2, <1>5 DEF Unmoved, IsWaiting, Waits, IsActive, OnDoneq, OnHold
<1>7. Tracked(c)'
  <2>1. /\ IsWaiting(c)' <=> IsWaiting(c)
        /\ IsActive(c)' <=> IsActive(c)
        /\ OnDoneq(c)' <=> OnDoneq(c)
        /\ OnHold(c)' <=> OnHold(c)
    BY <1>2 DEF IsWaiting, Waits, IsActive, OnDoneq, OnHold
  <2>2. /\ IsPopped(c)' <=> IsPopped(c)
        /\ Handled(c)' <=> Handled(c)
        /\ InHand(c)'
    BY <1>1, <1>4, <1>5, Updates DEF QueueInv, AllTracked
  <2>. QED
    BY <1>2, <2>1, <2>2, Before DEF Tracked, OnePlace, StateTells, TimerTells
<1>8. ~InHand(c)
  BY <1>2, Before DEF OnePlace
<1>. QED
  BY <1>1, <1>3, <1>6, <1>7, <1>8, OneMoves DEF QueueInv

(* sol11ghd_transport queues the request it has been handed,               *)
LEMMA EnqueueTracked ==
  ASSUME QueueInv, IInv', NEW t \in Threads, NEW c \in Cmds, c = cmd[t],
         TransportEnqueue(t)
  PROVE  AllTracked'
<1>. USE DEF calls, locks, timers, doneqs, device, ghosts, Goto
<1>1. Local(t)
  BY LocalSteps DEF Step, QueueInv
<1>2. /\ pc[t] = "tr_enq" /\ c \in Cmds
      /\ op[t] \in {"transport"} \cup Polled
      /\ op[t] \in Polled => frame = NoFrame
  BY DEF TransportEnqueue, QueueInv, IInv, Pointers, Control, AtPoint
<1>3. /\ wq' = Enqueue(wq, c)
      /\ state' = [state EXCEPT ![c] = "WAITQ"]
      /\ timer' = [timer EXCEPT ![c] = IF op[t] = "internal" THEN "untimed" ELSE "running"]
      /\ UNCHANGED <<op, cmd, hba, frame, doneq, active, owned>>
      /\ pc'[t] \in {"po_stat", "tr_try"} /\ (op[t] \notin Polled => pc'[t] = "tr_try")
  BY DEF TransportEnqueue, QueueInv, IInv, TypeOK
<1>4. HasInHand(t, c)
  BY <1>2 DEF HasInHand
<1>5. OnePlace(c) /\ StateTells(c) /\ TimerTells(c) /\ InHand(c)
      /\ (Handled(c) => IsWaiting(c) \/ IsActive(c))
  BY <1>2, <1>4, Before
<1>6. ~Waits(wq, c)
  BY <1>5 DEF OnePlace, IsWaiting
<1>7. /\ WaitqInv(wq')
      /\ \A x \in Cmds : Waits(wq', x) <=> Waits(wq, x) \/ x = c
      /\ \A x \in Cmds : ~Waits(wq, x) /\ x # c => wq'.level[x] = wq.level[x]
  <2>1. wq \in WaitqStates /\ WaitqInv(wq)
    BY DEF QueueInv, IInv, TypeOK, AllTracked, Orderly
  <2>. QED
    BY <1>2, <1>3, <1>6, <2>1, EnqueueWaits
<1>8. Orderly'
  BY <1>3, <1>7 DEF QueueInv, AllTracked, Orderly
<1>9. ASSUME NEW x \in Cmds
      PROVE  /\ ~PopsIt(t, x) /\ ~HandlesIt(t, x) /\ (x # c => ~HasInHand(t, x))
             /\ ~PopsIt(t, x)' /\ ~HandlesIt(t, x)' /\ ~HasInHand(t, x)'
  BY <1>2, <1>3 DEF PopsIt, HandlesIt, HasInHand, Polled, NoFrame
<1>10. /\ \A x \in Cmds : x # c => state'[x] = state[x] /\ timer'[x] = timer[x]
       /\ state'[c] = "WAITQ" /\ timer'[c] # "off"
  BY <1>2, <1>3 DEF QueueInv, IInv, TypeOK
<1>11. \A x \in Cmds \ {c} : Unmoved(t, x)
  BY <1>3, <1>7, <1>9, <1>10 DEF Unmoved, IsWaiting, IsActive, OnDoneq, OnHold
<1>12. Tracked(c)'
  <2>1. /\ IsWaiting(c)'
        /\ IsActive(c)' <=> IsActive(c)
        /\ OnDoneq(c)' <=> OnDoneq(c)
        /\ OnHold(c)' <=> OnHold(c)
    BY <1>2, <1>3, <1>7 DEF IsWaiting, IsActive, OnDoneq, OnHold
  <2>2. /\ IsPopped(c)' <=> IsPopped(c)
        /\ Handled(c)' <=> Handled(c)
        /\ ~InHand(c)'
    BY <1>1, <1>2, <1>4, <1>9, Updates DEF QueueInv, AllTracked
  <2>. QED
    BY <1>3, <1>5, <1>10, <2>1, <2>2 DEF Tracked, OnePlace, StateTells, TimerTells
<1>. QED
  BY <1>1, <1>2, <1>4, <1>8, <1>11, <1>12, OneMoves DEF QueueInv

(* an abort stops the timer of one that has not come to its end,           *)
LEMMA AbortTracked ==
  ASSUME QueueInv, IInv', NEW t \in Threads, NEW c \in Cmds, c = cmd[t],
         EnterAbort(t)
  PROVE  AllTracked'
<1>. USE DEF calls, locks, timers, doneqs, device, ghosts, Goto
<1>1. Local(t)
  BY LocalSteps DEF Step, QueueInv
<1>2. /\ pc[t] = "enter" /\ hba = NoThread /\ hba' = t /\ op[t] = "abort" /\ c \in Cmds
      /\ UNCHANGED <<op, cmd, wq, state, doneq, active, owned>>
      /\ frame = NoFrame /\ frame \in Frames
  BY DEF EnterAbort, Enter, QueueInv, IInv, TypeOK, Pointers, Control, OwnerAtWork
<1>3. /\ frame'.hold = frame.hold /\ frame'.got = FALSE
      /\ state[c] \in {"WAITQ", "ACTIVE"} =>
           pc'[t] = "ns" /\ frame'.run = c /\ timer' = [timer EXCEPT ![c] = "off"]
      /\ state[c] \notin {"WAITQ", "ACTIVE"} => pc'[t] = "pm_exit" /\ timer' = timer
  BY <1>2, ZenonT(60) DEF EnterAbort, Enter, Frames, NoFrame, QueueInv, IInv, TypeOK
<1>4. ASSUME NEW x \in Cmds
      PROVE  /\ ~PopsIt(t, x) /\ ~HandlesIt(t, x) /\ ~HasInHand(t, x)
             /\ ~PopsIt(t, x)' /\ ~HasInHand(t, x)'
             /\ ~Handled(x) /\ ~IsPopped(x)
             /\ x # c => ~HandlesIt(t, x)'
             /\ (state[c] \notin {"WAITQ", "ACTIVE"}) => ~HandlesIt(t, x)'
  BY <1>2, <1>3 DEF PopsIt, HandlesIt, HasInHand, Polled, Handled, IsPopped, Popped
<1>5. Orderly'
  BY <1>2, <1>3 DEF QueueInv, AllTracked, Orderly
<1>6. \A x \in Cmds : x # c => timer'[x] = timer[x]
  BY <1>2, <1>3 DEF QueueInv, IInv, TypeOK
<1>7. \A x \in Cmds \ {c} : Unmoved(t, x)
  BY <1>2, <1>3, <1>4, <1>6 DEF Unmoved, IsWaiting, Waits, IsActive, OnDoneq, OnHold
<1>8. CASE state[c] \in {"WAITQ", "ACTIVE"}
  <2>1. OnePlace(c) /\ StateTells(c) /\ TimerTells(c) /\ ~Handled(c) /\ ~IsPopped(c)
    BY <1>2, <1>4, Before
  <2>2. /\ IsWaiting(c)' <=> IsWaiting(c)
        /\ IsActive(c)' <=> IsActive(c)
        /\ OnDoneq(c)' <=> OnDoneq(c)
        /\ OnHold(c)' <=> OnHold(c)
    BY <1>2, <1>3 DEF IsWaiting, Waits, IsActive, OnDoneq, OnHold
  <2>3. HandlesIt(t, c)'
    BY <1>3, <1>8 DEF HandlesIt
  <2>4. /\ IsPopped(c)' <=> IsPopped(c)
        /\ Handled(c)'
        /\ InHand(c)' <=> InHand(c)
    BY <1>1, <1>2, <1>4, <2>3, Updates DEF QueueInv, AllTracked
  <2>5. timer'[c] = "off" /\ (IsWaiting(c) \/ IsActive(c))
    BY <1>2, <1>3, <1>8, <2>1 DEF QueueInv, IInv, TypeOK, StateTells
  <2>6. Tracked(c)'
    BY <1>2, <1>3, <1>8, <2>1, <2>2, <2>4, <2>5
    DEF Tracked, OnePlace, StateTells, TimerTells, QueueInv, IInv, TypeOK
  <2>. QED
    BY <1>1, <1>2, <1>4, <1>5, <1>7, <2>6, OneMoves DEF QueueInv
<1>9. CASE state[c] \notin {"WAITQ", "ACTIVE"}
  BY <1>1, <1>2, <1>3, <1>4, <1>9, QuietStep DEF QueueInv
<1>. QED
  BY <1>8, <1>9

(* the wait queue processing pops the head of the adapter's queue, ...     *)
LEMMA PopTracked ==
  ASSUME QueueInv, IInv', NEW t \in Threads, NEW c \in Cmds, c = Head(wq.hbaq),
         WaitqPop(t)
  PROVE  AllTracked'
<1>. USE DEF calls, locks, timers, doneqs, device, ghosts, Goto
<1>1. Local(t)
  BY LocalSteps DEF Step, QueueInv
<1>2. /\ pc[t] = "wq_loop" /\ pc'[t] = "wq_start" /\ CanStart(wq)
      /\ frame' = [frame EXCEPT !.run = c] /\ wq' = PopHba(wq)
      /\ UNCHANGED <<op, cmd, hba, state, timer, doneq, active, owned>>
  BY DEF WaitqPop, QueueInv, IInv, TypeOK
<1>3. /\ WaitqInv(wq') /\ c \in Cmds /\ Waits(wq, c)
      /\ \A x \in Cmds : Waits(wq', x) <=> Waits(wq, x) /\ x # c
      /\ wq'.level[c] = 3
      /\ \A x \in Cmds : x # c => wq'.level[x] = wq.level[x]
  <2>1. wq \in WaitqStates /\ WaitqInv(wq)
    BY DEF QueueInv, IInv, TypeOK, AllTracked, Orderly
  <2>. QED
    BY <1>2, <2>1, PopHbaWaits
<1>4. frame'.run = c /\ frame'.hold = frame.hold /\ frame'.got = frame.got
  <2>1. frame \in Frames
    BY DEF QueueInv, IInv, TypeOK
  <2>. QED
    BY <1>2, <2>1 DEF Frames
<1>5. OnePlace(c) /\ StateTells(c) /\ TimerTells(c)
  BY <1>3, Before
<1>6. ASSUME NEW x \in Cmds
      PROVE  /\ ~PopsIt(t, x) /\ ~HandlesIt(t, x) /\ ~HandlesIt(t, x)'
             /\ PopsIt(t, x)' <=> x = c
             /\ HasInHand(t, x)' <=> HasInHand(t, x)
  BY <1>2, <1>4 DEF PopsIt, HandlesIt, HasInHand
<1>7. Orderly'
  BY <1>2, <1>3, <1>4 DEF QueueInv, AllTracked, Orderly
<1>8. \A x \in Cmds \ {c} : Unmoved(t, x)
  BY <1>2, <1>3, <1>4, <1>6 DEF Unmoved, IsWaiting, IsActive, OnDoneq, OnHold
<1>9. Tracked(c)'
  <2>1. /\ ~IsWaiting(c)' /\ IsWaiting(c)
        /\ IsActive(c)' <=> IsActive(c)
        /\ OnDoneq(c)' <=> OnDoneq(c)
        /\ OnHold(c)' <=> OnHold(c)
    BY <1>2, <1>3, <1>4 DEF IsWaiting, IsActive, OnDoneq, OnHold
  <2>2. /\ IsPopped(c)'
        /\ Handled(c)' <=> Handled(c)
        /\ InHand(c)' <=> InHand(c)
    <3>1. HasInHand(t, c) => InHand(c)
      BY <1>3, Before
    <3>. QED
      BY <1>1, <1>3, <1>6, <3>1, Updates DEF QueueInv, AllTracked
  <2>. QED
    BY <1>2, <1>3, <1>5, <2>1, <2>2 DEF Tracked, OnePlace, StateTells, TimerTells
<1>. QED
  BY <1>1, <1>3, <1>6, <1>7, <1>8, <1>9, OneMoves DEF QueueInv

(* hba_start makes it the active one                                       *)
LEMMA AcceptTracked ==
  ASSUME QueueInv, IInv', NEW t \in Threads, NEW c \in Cmds, c = frame.run,
         HbaAccepts(t)
  PROVE  AllTracked'
<1>. USE DEF calls, locks, timers, doneqs, device, ghosts, Goto
<1>1. Local(t)
  BY LocalSteps DEF Step, QueueInv
<1>2. /\ pc[t] = "wq_start" /\ pc'[t] \in {"wq_loop", "wq_fini"} /\ hba = t
      /\ active = NoCmd /\ active' = c
      /\ state' = [state EXCEPT ![c] = "ACTIVE"]
      /\ frame' = [frame EXCEPT !.more = TRUE]
      /\ UNCHANGED <<op, cmd, hba, wq, timer, doneq, owned>>
  BY DEF HbaAccepts, QueueInv, IInv, TypeOK, Owners, HbaLabels
<1>3. frame'.hold = frame.hold /\ frame'.got = frame.got
  <2>1. frame \in Frames
    BY DEF QueueInv, IInv, TypeOK
  <2>. QED
    BY <1>2, <2>1 DEF Frames
<1>4. /\ PopsIt(t, c)
      /\ \A x \in Cmds : /\ PopsIt(t, x) => x = c
                         /\ ~PopsIt(t, x)' /\ ~HandlesIt(t, x) /\ ~HandlesIt(t, x)'
                         /\ HasInHand(t, x)' <=> HasInHand(t, x)
  BY <1>2, <1>3 DEF PopsIt, HandlesIt, HasInHand
<1>5. OnePlace(c) /\ StateTells(c) /\ TimerTells(c) /\ IsPopped(c)
  BY <1>4, Before
<1>6. Orderly'
  BY <1>2, <1>3 DEF QueueInv, AllTracked, Orderly
<1>7. /\ state'[c] = "ACTIVE" /\ \A x \in Cmds : x # c => state'[x] = state[x]
      /\ c # NoCmd
  BY <1>2, GhdAssumption DEF QueueInv, IInv, TypeOK
<1>8. \A x \in Cmds \ {c} : Unmoved(t, x)
  BY <1>2, <1>3, <1>4, <1>7, GhdAssumption
  DEF Unmoved, IsWaiting, Waits, IsActive, OnDoneq, OnHold
<1>9. Tracked(c)'
  <2>1. /\ IsWaiting(c)' <=> IsWaiting(c)
        /\ IsActive(c)'
        /\ OnDoneq(c)' <=> OnDoneq(c)
        /\ OnHold(c)' <=> OnHold(c)
    BY <1>2, <1>3 DEF IsWaiting, Waits, IsActive, OnDoneq, OnHold
  <2>2. /\ ~IsPopped(c)'
        /\ Handled(c)' <=> Handled(c)
        /\ InHand(c)' <=> InHand(c)
    <3>1. HasInHand(t, c) => InHand(c)
      BY Before
    <3>. QED
      BY <1>1, <1>4, <3>1, Updates DEF QueueInv, AllTracked
  <2>. QED
    BY <1>2, <1>5, <1>7, <2>1, <2>2 DEF Tracked, OnePlace, StateTells, TimerTells, Started
<1>. QED
  BY <1>1, <1>4, <1>6, <1>8, <1>9, OneMoves DEF QueueInv

(* or refuses it,                                                          *)
LEMMA RefuseTracked ==
  ASSUME QueueInv, IInv', NEW t \in Threads, HbaRefuses(t)
  PROVE  AllTracked'
<1>. USE DEF calls, locks, timers, doneqs, device, ghosts, Goto
<1>1. Local(t)
  BY LocalSteps DEF Step, QueueInv
<1>2. /\ pc[t] = "wq_start" /\ pc'[t] = "wq_reject" /\ hba = t /\ frame.run \in Cmds
      /\ UNCHANGED <<op, cmd, hba, frame, wq, timer, active, doneq, owned>>
  BY DEF HbaRefuses, QueueInv, IInv, TypeOK, Owners, HbaLabels, Pointers
<1>3. state[frame.run] = "WAITQ"
  <2>1. PopsIt(t, frame.run)
    BY <1>2 DEF PopsIt
  <2>. QED
    BY <1>2, <2>1, Before DEF StateTells
<1>4. state' = state
  BY <1>2, <1>3 DEF HbaRefuses, QueueInv, IInv, TypeOK
<1>5. ASSUME NEW x \in Cmds
      PROVE  /\ PopsIt(t, x)' <=> PopsIt(t, x)
             /\ HandlesIt(t, x)' <=> HandlesIt(t, x)
             /\ HasInHand(t, x)' <=> HasInHand(t, x)
  BY <1>2 DEF PopsIt, HandlesIt, HasInHand
<1>. QED
  BY <1>1, <1>2, <1>4, <1>5, QuietStep DEF QueueInv

(* and then it waits again.                                                *)
LEMMA RequeueTracked ==
  ASSUME QueueInv, IInv', NEW t \in Threads, NEW c \in Cmds, c = frame.run,
         WaitqRequeue(t)
  PROVE  AllTracked'
<1>. USE DEF calls, locks, timers, doneqs, device, ghosts, Goto
<1>1. Local(t)
  BY LocalSteps DEF Step, QueueInv
<1>2. /\ pc[t] = "wq_reject" /\ hba = t
      /\ wq' = Requeue(wq, c)
      /\ UNCHANGED <<op, cmd, hba, frame, state, timer, active, doneq, owned>>
  BY DEF WaitqRequeue, WaitqReturn, QueueInv, IInv, TypeOK, Owners, HbaLabels
<1>3. pc'[t] \in {"ex_hba", "in_ret", "po_timer"}
  BY FrameFields DEF WaitqRequeue, WaitqReturn, QueueInv, IInv, TypeOK
<1>4. /\ PopsIt(t, c)
      /\ \A x \in Cmds : /\ PopsIt(t, x) => x = c
                         /\ ~PopsIt(t, x)' /\ ~HandlesIt(t, x) /\ ~HandlesIt(t, x)'
                         /\ HasInHand(t, x)' <=> HasInHand(t, x)
  BY <1>2, <1>3 DEF PopsIt, HandlesIt, HasInHand
<1>5. OnePlace(c) /\ StateTells(c) /\ TimerTells(c) /\ IsPopped(c)
  BY <1>4, Before
<1>6. ~Waits(wq, c) /\ wq.level[c] = 3
  BY <1>5 DEF OnePlace, StateTells, IsWaiting
<1>7. /\ WaitqInv(wq')
      /\ \A x \in Cmds : Waits(wq', x) <=> Waits(wq, x) \/ x = c
      /\ \A x \in Cmds : x # c => wq'.level[x] = wq.level[x]
  <2>1. wq \in WaitqStates /\ WaitqInv(wq)
    BY DEF QueueInv, IInv, TypeOK, AllTracked, Orderly
  <2>. QED
    BY <1>2, <1>6, <2>1, RequeueWaits
<1>8. Orderly'
  BY <1>2, <1>7 DEF QueueInv, AllTracked, Orderly
<1>9. \A x \in Cmds \ {c} : Unmoved(t, x)
  BY <1>2, <1>4, <1>7 DEF Unmoved, IsWaiting, IsActive, OnDoneq, OnHold
<1>10. Tracked(c)'
  <2>1. /\ IsWaiting(c)'
        /\ IsActive(c)' <=> IsActive(c)
        /\ OnDoneq(c)' <=> OnDoneq(c)
        /\ OnHold(c)' <=> OnHold(c)
    BY <1>2, <1>7 DEF IsWaiting, IsActive, OnDoneq, OnHold
  <2>2. /\ ~IsPopped(c)'
        /\ Handled(c)' <=> Handled(c)
        /\ InHand(c)' <=> InHand(c)
    <3>1. HasInHand(t, c) => InHand(c)
      BY Before
    <3>. QED
      BY <1>1, <1>4, <3>1, Updates DEF QueueInv, AllTracked
  <2>. QED
    BY <1>2, <1>5, <2>1, <2>2 DEF Tracked, OnePlace, StateTells, TimerTells
<1>. QED
  BY <1>1, <1>4, <1>8, <1>9, <1>10, OneMoves DEF QueueInv

(* GHD_COMPLETE of a request that waits or is active.                      *)
LEMMA CompleteTracked ==
  ASSUME QueueInv, IInv', NEW t \in Threads, Local(t), NEW c \in Cmds, Complete(c),
         IsWaiting(c) \/ IsActive(c),
         active' = IF active = c THEN NoCmd ELSE active, frame'.hold = frame.hold,
         \A x \in Cmds : /\ ~PopsIt(t, x) /\ ~PopsIt(t, x)'
                         /\ (HandlesIt(t, x) => x = c) /\ ~HandlesIt(t, x)'
                         /\ HasInHand(t, x)' <=> HasInHand(t, x)
  PROVE  AllTracked'
<1>1. /\ wq' = WaitqDelete(wq, c)
      /\ state' = [state EXCEPT ![c] = "DONEQ"]
      /\ timer' = [timer EXCEPT ![c] = "off"]
      /\ doneq' = Append(doneq, c)
      /\ owned' = owned
  BY DEF Complete
<1>2. /\ OnePlace(c) /\ StateTells(c) /\ TimerTells(c)
      /\ HasInHand(t, c) => InHand(c)
  BY Before
<1>3. Waits(wq, c) \/ wq.level[c] = 3
  BY <1>2 DEF StateTells, IsWaiting
<1>4. /\ WaitqInv(wq')
      /\ \A x \in Cmds : Waits(wq', x) <=> Waits(wq, x) /\ x # c
      /\ \A x \in Cmds : ~Waits(wq, x) => wq'.level[x] = wq.level[x]
  <2>1. wq \in WaitqStates /\ WaitqInv(wq)
    BY DEF QueueInv, IInv, TypeOK, AllTracked, Orderly
  <2>. QED
    BY <1>1, <1>3, <2>1, WaitqDeleteWaits
<1>5. Elems(doneq') = Elems(doneq) \cup {c} /\ NoRepeat(doneq')
  <2>1. doneq \in Seq(Cmds) /\ NoRepeat(doneq)
    BY DEF QueueInv, IInv, TypeOK, AllTracked, Orderly
  <2>2. c \notin Elems(doneq)
    BY <1>2 DEF OnePlace, OnDoneq
  <2>. QED
    BY <1>1, <2>1, <2>2, AppendElems
<1>6. Orderly'
  BY <1>4, <1>5 DEF QueueInv, AllTracked, Orderly
<1>7. /\ \A x \in Cmds : x # c => state'[x] = state[x] /\ timer'[x] = timer[x]
      /\ state'[c] = "DONEQ" /\ timer'[c] = "off" /\ c # NoCmd
  BY <1>1, GhdAssumption DEF QueueInv, IInv, TypeOK
<1>8. ASSUME NEW x \in Cmds
      PROVE  /\ IsWaiting(x)' <=> IsWaiting(x) /\ x # c
             /\ IsActive(x)' <=> IsActive(x) /\ x # c
             /\ OnDoneq(x)' <=> OnDoneq(x) \/ x = c
             /\ OnHold(x)' <=> OnHold(x)
  BY <1>4, <1>5, GhdAssumption DEF IsWaiting, IsActive, OnDoneq, OnHold
<1>9. \A x \in Cmds \ {c} : Unmoved(t, x)
  BY <1>1, <1>4, <1>7, <1>8 DEF Unmoved, IsWaiting
<1>10. Tracked(c)'
  <2>1. /\ IsPopped(c)' <=> IsPopped(c)
        /\ InHand(c)' <=> InHand(c)
    BY <1>2, Updates DEF QueueInv, AllTracked
  <2>. QED
    BY <1>1, <1>2, <1>7, <1>8, <2>1 DEF Tracked, OnePlace, StateTells, TimerTells
<1>. QED
  BY <1>6, <1>9, <1>10, OneMoves DEF QueueInv

(* The active request is completed when hba_start finishes it at once      *)
(* or an interrupt ends it,                                                *)
LEMMA ActiveDoneTracked ==
  ASSUME QueueInv, IInv', NEW t \in Threads, HbaFinishesAtOnce(t) \/ IntrComplete(t)
  PROVE  AllTracked'
<1>. USE DEF calls, locks, timers, doneqs, device, ghosts, Goto
<1>1. Local(t)
  BY LocalSteps DEF Step, QueueInv
<1>2. /\ pc[t] \in {"wq_fini", "in_stat", "po_stat"} /\ pc'[t] \in {"wq_loop", "in_stat"}
      /\ active \in Cmds /\ active' = NoCmd /\ Complete(active)
      /\ UNCHANGED <<op, cmd, hba>>
  BY DEF HbaFinishesAtOnce, IntrComplete, StatusProcessed, CompleteActive,
         QueueInv, IInv, TypeOK, Pointers
<1>3. frame'.hold = frame.hold /\ frame'.got = frame.got
  BY DEF HbaFinishesAtOnce, IntrComplete, StatusProcessed, QueueInv, IInv, TypeOK, Frames
<1>4. PICK c \in Cmds : c = active
  BY <1>2
<1>5. ASSUME NEW x \in Cmds
      PROVE  /\ ~PopsIt(t, x) /\ ~PopsIt(t, x)'
             /\ ~HandlesIt(t, x) /\ ~HandlesIt(t, x)'
             /\ HasInHand(t, x)' <=> HasInHand(t, x)
  BY <1>2, <1>3 DEF PopsIt, HandlesIt, HasInHand
<1>6. Complete(c) /\ IsActive(c) /\ active' = IF active = c THEN NoCmd ELSE active
  BY <1>2, <1>4 DEF IsActive
<1>. QED
  BY <1>1, <1>3, <1>5, <1>6, CompleteTracked

(* and one that waits when it is aborted or its time is up.                *)
LEMMA EarlyTracked ==
  ASSUME QueueInv, IInv', NEW t \in Threads, NewstateEarly(t)
  PROVE  AllTracked'
<1>. USE DEF calls, locks, timers, doneqs, device, ghosts, Goto
<1>1. Local(t)
  BY LocalSteps DEF Step, QueueInv
<1>2. /\ pc[t] = "ns" /\ frame.act \in EarlyActions /\ frame.run \in Cmds
      /\ Complete(frame.run)
      /\ UNCHANGED <<op, cmd, hba, frame, active>>
  BY DEF NewstateEarly, EarlyActions, QueueInv, IInv, TypeOK, Pointers
<1>3. pc'[t] \in {"ts_poll", "po_stat", "po_drain"}
  BY FrameFields DEF NewstateEarly, QueueInv, IInv, TypeOK
<1>4. PICK c \in Cmds : c = frame.run
  BY <1>2
<1>5. IsWaiting(c)
  BY <1>2, <1>4, GhdAssumption DEF QueueInv, Stepping
<1>6. active # c
  BY <1>5, Before DEF OnePlace, IsActive
<1>7. Complete(c) /\ active' = IF active = c THEN NoCmd ELSE active
  BY <1>2, <1>4, <1>6
<1>8. ASSUME NEW x \in Cmds
      PROVE  /\ ~PopsIt(t, x) /\ ~PopsIt(t, x)'
             /\ (HandlesIt(t, x) => x = c) /\ ~HandlesIt(t, x)'
             /\ HasInHand(t, x)' <=> HasInHand(t, x)
  BY <1>2, <1>3, <1>4 DEF PopsIt, HandlesIt, HasInHand
<1>. QED
  BY <1>1, <1>2, <1>5, <1>7, <1>8, CompleteTracked

(* The places of the states in the enumeration.                            *)
LEMMA RankIs ==
  /\ Rank("IDLE") = 1 /\ Rank("WAITQ") = 2 /\ Rank("ACTIVE") = 3 /\ Rank("DONEQ") = 4
  /\ Rank("ABORTING_CMD") = 5 /\ Rank("ABORTING_DEV") = 6 /\ Rank("RESETTING_DEV") = 7
  /\ Rank("RESETTING_BUS") = 8 /\ Rank("HUNG") = 9
<1>1. DOMAIN CmdStates = 1 .. 9
  BY DEF CmdStates
<1>2. \A i \in 1 .. 9 :
         i = 1 \/ i = 2 \/ i = 3 \/ i = 4 \/ i = 5 \/ i = 6 \/ i = 7 \/ i = 8 \/ i = 9
  OBVIOUS
<1>3. /\ CmdStates[1] = "IDLE" /\ CmdStates[2] = "WAITQ" /\ CmdStates[3] = "ACTIVE"
      /\ CmdStates[4] = "DONEQ" /\ CmdStates[5] = "ABORTING_CMD"
      /\ CmdStates[6] = "ABORTING_DEV" /\ CmdStates[7] = "RESETTING_DEV"
      /\ CmdStates[8] = "RESETTING_BUS" /\ CmdStates[9] = "HUNG"
  BY DEF CmdStates
<1>4. ASSUME NEW i \in 1 .. 9, NEW j \in 1 .. 9, CmdStates[i] = CmdStates[j]
      PROVE  i = j
  BY <1>2, <1>3, <1>4
<1>5. \A i \in 1 .. 9 : Rank(CmdStates[i]) = i
  BY <1>1, <1>4 DEF Rank
<1>. QED
  BY <1>3, <1>5

(* A bus reset raises nobody's state: a request that is neither waiting    *)
(* nor active is not on the timer list, and the active one is the one      *)
(* that is reset; so it completes that one and does nothing else.          *)
LEMMA ResetCompletes ==
  ASSUME QueueInv, NEW t \in Threads, NewstateReset(t)
  PROVE  /\ active \in Cmds /\ frame.run = active /\ active' = NoCmd
         /\ Complete(active)
<1>. USE DEF calls, locks, timers, doneqs, device, ghosts, Goto
<1>1. /\ pc[t] = "ns" /\ frame.act = "RESET_BUS" /\ frame.run # NoCmd /\ active # NoCmd
      /\ active \in Cmds /\ active' = NoCmd
  BY DEF NewstateReset, QueueInv, IInv, TypeOK
<1>2. frame.run = active
  BY <1>1 DEF QueueInv, Stepping, EarlyActions, IsActive
<1>. DEFINE s == [state EXCEPT ![active] = "DONEQ"]
            tm == [timer EXCEPT ![active] = "off"]
<1>3. /\ [state EXCEPT ![frame.run] = NextState[frame.act], ![active] = "DONEQ"] = s
      /\ [timer EXCEPT ![frame.run] = "running", ![active] = "off"] = tm
  BY <1>1, <1>2 DEF QueueInv, IInv, TypeOK
<1>4. timer' = tm /\ state' = RaiseStates(s, tm, NextState[frame.act])
  BY <1>3 DEF NewstateReset
<1>. HIDE DEF s, tm
<1>5. ASSUME NEW c \in Cmds, tm[c] # "off"
      PROVE  ~(Rank("WAITQ") < Rank(s[c]))
  <2>1. c # active /\ timer[c] # "off" /\ s[c] = state[c]
    BY <1>1, <1>5 DEF s, tm, QueueInv, IInv, TypeOK
  <2>2. IsWaiting(c) \/ IsPopped(c) \/ IsActive(c)
    BY <2>1, Before DEF TimerTells
  <2>3. state[c] = "WAITQ"
    BY <2>1, <2>2, Before DEF StateTells, IsActive
  <2>. QED
    BY <2>1, <2>3, RankIs
<1>6. s \in [Cmds -> Elems(CmdStates)]
  BY <1>1, StateNames DEF s, QueueInv, IInv, TypeOK
<1>7. RaiseStates(s, tm, NextState[frame.act]) = s
  BY <1>5, <1>6 DEF RaiseStates
<1>8. Complete(active)
  BY <1>4, <1>7 DEF Complete, NewstateReset, s, tm
<1>. QED
  BY <1>1, <1>2, <1>8

(* So a bus reset keeps every request tracked.                             *)
LEMMA ResetTracked ==
  ASSUME QueueInv, IInv', NEW t \in Threads, NewstateReset(t)
  PROVE  AllTracked'
<1>. USE DEF calls, locks, timers, doneqs, device, ghosts, Goto
<1>1. Local(t)
  BY LocalSteps DEF Step, QueueInv
<1>2. /\ pc[t] = "ns" /\ UNCHANGED <<op, cmd, hba, frame>>
  BY DEF NewstateReset
<1>3. pc'[t] \in {"ts_poll", "po_stat", "po_drain"}
  BY FrameFields DEF NewstateReset, QueueInv, IInv, TypeOK
<1>4. PICK c \in Cmds : c = active
  BY ResetCompletes
<1>5. /\ Complete(c) /\ active' = IF active = c THEN NoCmd ELSE active
      /\ IsActive(c) /\ c = frame.run
  BY <1>4, ResetCompletes DEF IsActive
<1>6. ASSUME NEW x \in Cmds
      PROVE  /\ ~PopsIt(t, x) /\ ~PopsIt(t, x)'
             /\ (HandlesIt(t, x) => x = c) /\ ~HandlesIt(t, x)'
             /\ HasInHand(t, x)' <=> HasInHand(t, x)
  BY <1>2, <1>3, <1>5 DEF PopsIt, HandlesIt, HasInHand
<1>. QED
  BY <1>1, <1>2, <1>5, <1>6, CompleteTracked

(* The other steps of sol11ghd_timer_newstate move no request: they climb  *)
(* the ladder or leave the request hung.                                   *)
LEMMA ClimbTracked ==
  ASSUME QueueInv, IInv', NEW t \in Threads, NewstateCannot(t) \/ NewstateHung(t)
  PROVE  AllTracked'
<1>. USE DEF calls, locks, timers, doneqs, device, ghosts, Goto
<1>1. Local(t)
  BY LocalSteps DEF Step, QueueInv
<1>2. /\ pc[t] = "ns" /\ hba = t /\ hba # NoThread
      /\ UNCHANGED <<op, cmd, hba, wq, active, doneq, owned>>
      /\ frame.act \notin EarlyActions /\ frame.act \in Actions
      /\ frame.run \in Cmds \cup {NoCmd}
  BY FrameFields, GhdAssumption
  DEF NewstateCannot, NewstateHung, QueueInv, IInv, TypeOK, Owners, HbaLabels, EarlyActions
<1>3. frame'.hold = frame.hold /\ frame'.got = frame.got /\ frame'.run = frame.run
  BY DEF NewstateCannot, NewstateHung, QueueInv, IInv, TypeOK, Frames
<1>4. pc'[t] \in {"ns", "ts_poll", "po_stat", "po_drain"}
  BY <1>2, FrameFields DEF NewstateCannot, NewstateHung, QueueInv, IInv, TypeOK
<1>5. pc'[t] = "ns" => timer' = timer
  BY <1>2, FrameFields DEF NewstateCannot, NewstateHung, QueueInv, IInv, TypeOK
<1>6. ASSUME NEW x \in Cmds
      PROVE  /\ ~PopsIt(t, x) /\ ~PopsIt(t, x)'
             /\ HandlesIt(t, x) <=> x = frame.run
             /\ HandlesIt(t, x)' <=> pc'[t] = "ns" /\ x = frame.run
             /\ HasInHand(t, x)' <=> HasInHand(t, x)
  BY <1>2, <1>3, <1>4 DEF PopsIt, HandlesIt, HasInHand
<1>7. Orderly'
  BY <1>2, <1>3 DEF QueueInv, AllTracked, Orderly
<1>8. CASE frame.run = NoCmd
  <2>1. state' = state /\ timer' = timer
    BY <1>8 DEF NewstateCannot, NewstateHung
  <2>2. \A x \in Cmds : ~HandlesIt(t, x) /\ ~HandlesIt(t, x)'
    BY <1>6, <1>8, GhdAssumption
  <2>. QED
    BY <1>1, <1>2, <1>3, <1>6, <2>1, <2>2, QuietStep DEF QueueInv
<1>9. CASE frame.run \in Cmds
  <2>1. PICK c \in Cmds : c = frame.run
    BY <1>9
  <2>2. IsActive(c) /\ OnePlace(c) /\ StateTells(c) /\ TimerTells(c) /\ Handled(c)
    BY <1>2, <2>1, Before, GhdAssumption DEF QueueInv, Stepping, Handled
  <2>3. /\ state'[c] \in Started /\ \A x \in Cmds : x # c => state'[x] = state[x]
        /\ \A x \in Cmds : x # c => timer'[x] = timer[x]
    <3>1. state' = [state EXCEPT ![c] = NextState[frame.act]] /\ c # NoCmd
      BY <1>2, <2>1, GhdAssumption DEF NewstateCannot, NewstateHung
    <3>2. NextState[frame.act] \in Started
      BY <1>2 DEF NextState, Started, EarlyActions, Actions
    <3>3. timer' = timer \/ timer' = [timer EXCEPT ![c] = "running"]
      BY <2>1, <3>1 DEF NewstateCannot, NewstateHung
    <3>. QED
      BY <3>1, <3>2, <3>3 DEF QueueInv, IInv, TypeOK
  <2>4. ASSUME NEW x \in Cmds
        PROVE  /\ IsWaiting(x)' <=> IsWaiting(x)
               /\ IsActive(x)' <=> IsActive(x)
               /\ OnDoneq(x)' <=> OnDoneq(x)
               /\ OnHold(x)' <=> OnHold(x)
    BY <1>2, <1>3 DEF IsWaiting, Waits, IsActive, OnDoneq, OnHold
  <2>5. \A x \in Cmds \ {c} : Unmoved(t, x)
    BY <1>2, <1>6, <2>1, <2>3, <2>4 DEF Unmoved
  <2>6. pc'[t] # "ns" => timer'[c] # "off"
    BY <1>2, <2>1, GhdAssumption DEF NewstateCannot, NewstateHung, QueueInv, IInv, TypeOK
  <2>7. Tracked(c)'
    <3>1. /\ IsPopped(c)' <=> IsPopped(c)
          /\ Handled(c)' <=> pc'[t] = "ns"
          /\ InHand(c)' <=> InHand(c)
      <4>1. HasInHand(t, c) => InHand(c)
        BY Before
      <4>. QED
        BY <1>1, <1>6, <2>1, <2>2, <4>1, Updates DEF QueueInv, AllTracked
    <3>2. OnePlace(c)'
      BY <1>2, <2>2, <2>4, <3>1 DEF OnePlace
    <3>3. StateTells(c)'
      BY <1>2, <2>2, <2>3, <2>4, <3>1 DEF OnePlace, StateTells
    <3>4. TimerTells(c)'
      BY <1>5, <2>2, <2>4, <2>6, <3>1 DEF TimerTells
    <3>. QED
      BY <3>2, <3>3, <3>4 DEF Tracked
  <2>. QED
    BY <1>1, <1>6, <1>7, <2>5, <2>7, OneMoves DEF QueueInv
<1>. QED
  BY <1>2, <1>8, <1>9

(* A step that moves requests, if any, only between the doneq and a hold   *)
(* queue.                                                                  *)
LEMMA NoneMoves ==
  ASSUME IInv, IInv', AllTracked, NEW t \in Threads, Local(t), Orderly',
         \A x \in Cmds : Unmoved(t, x)
  PROVE  AllTracked'
<1>1. ASSUME NEW x \in Cmds PROVE Tracked(x)'
  BY UnmovedTracked
<1>2. ASSUME NEW x \in Cmds, HasInHand(t, x)' PROVE HasInHand(t, x) \/ ~InHand(x)
  BY <1>2 DEF Unmoved
<1>3. OneHand'
  BY <1>2, StillOneHand DEF AllTracked
<1>. QED
  BY <1>1, <1>3 DEF AllTracked

(* An expired request leaves the timer list as its recovery step begins.   *)
LEMMA ExpiredTracked ==
  ASSUME QueueInv, IInv', NEW t \in Threads, TimerGet(t)
  PROVE  AllTracked'
<1>. USE DEF calls, locks, timers, doneqs, device, ghosts, Goto
<1>1. Local(t)
  BY LocalSteps DEF Step, QueueInv
<1>2. PICK c \in Cmds :
        /\ timer[c] = "expired" /\ state[c] \in DOMAIN TimeoutAction
        /\ timer' = [timer EXCEPT ![c] = "off"]
        /\ frame' = [frame EXCEPT !.run = c, !.act = TimeoutAction[state[c]],
                       !.nsret = IF pc[t] = "ts_poll" THEN "ts_poll" ELSE "po_drain"]
  BY DEF TimerGet
<1>3. /\ pc[t] \in {"ts_poll", "po_timer"} /\ pc'[t] = "ns"
      /\ UNCHANGED <<op, cmd, hba, wq, state, doneq, active, owned>>
  BY DEF TimerGet, QueueInv, IInv, TypeOK
<1>4. frame'.hold = frame.hold /\ frame'.got = frame.got /\ frame'.run = c
  BY <1>2 DEF QueueInv, IInv, TypeOK, Frames
<1>5. ASSUME NEW x \in Cmds
      PROVE  /\ ~PopsIt(t, x) /\ ~PopsIt(t, x)'
             /\ ~HandlesIt(t, x) /\ (HandlesIt(t, x)' <=> x = c)
             /\ HasInHand(t, x)' <=> HasInHand(t, x)
  BY <1>3, <1>4 DEF PopsIt, HandlesIt, HasInHand
<1>6. OnePlace(c) /\ StateTells(c) /\ TimerTells(c)
      /\ (HasInHand(t, c) => InHand(c))
  BY Before
<1>7. /\ timer'[c] = "off" /\ \A x \in Cmds : x # c => timer'[x] = timer[x]
  BY <1>2 DEF QueueInv, IInv, TypeOK
<1>8. Orderly'
  BY <1>3, <1>4 DEF QueueInv, AllTracked, Orderly
<1>9. ASSUME NEW x \in Cmds
      PROVE  /\ IsWaiting(x)' <=> IsWaiting(x)
             /\ IsActive(x)' <=> IsActive(x)
             /\ OnDoneq(x)' <=> OnDoneq(x)
             /\ OnHold(x)' <=> OnHold(x)
  BY <1>3, <1>4 DEF IsWaiting, Waits, IsActive, OnDoneq, OnHold
<1>10. \A x \in Cmds \ {c} : Unmoved(t, x)
  BY <1>3, <1>5, <1>7, <1>9 DEF Unmoved
<1>11. Tracked(c)'
  <2>1. /\ IsPopped(c)' <=> IsPopped(c)
        /\ Handled(c)'
        /\ InHand(c)' <=> InHand(c)
    BY <1>1, <1>5, <1>6, Updates DEF QueueInv, AllTracked
  <2>. QED
    BY <1>2, <1>3, <1>6, <1>7, <1>9, <2>1 DEF Tracked, OnePlace, StateTells, TimerTells
<1>. QED
  BY <1>1, <1>5, <1>8, <1>10, <1>11, OneMoves DEF QueueInv

(* A poll takes its own request off the doneq and holds the others back,   *)
LEMMA DrainTracked ==
  ASSUME QueueInv, IInv', NEW t \in Threads, PollDrain(t)
  PROVE  AllTracked'
<1>. USE DEF calls, locks, timers, doneqs, device, ghosts, Goto
<1>. DEFINE mine == op[t] \in Polled \cup {"abort"} /\ cmd[t] \in Elems(doneq)
            quiet == \/ /\ op[t] \in {"lun", "target"}
                        /\ wq.devActive[Dev[cmd[t]]] = 0
                     \/ op[t] = "bus" /\ wq.hbaActive = 0
            moved == IF mine THEN Unlink(doneq, cmd[t]) ELSE doneq
<1>1. Local(t)
  BY LocalSteps DEF Step, QueueInv
<1>2. /\ pc[t] = "po_drain" /\ hba = t /\ op[t] # "none" /\ cmd[t] \in Cmds /\ ~frame.got
      /\ UNCHANGED <<op, cmd, hba, wq, timer, active, owned>> /\ doneq' = <<>>
      /\ pc'[t] = IF mine \/ quiet THEN "po_put" ELSE "po_stat"
      /\ frame' = [frame EXCEPT !.hold = @ \o moved, !.got = mine \/ quiet]
      /\ state' = IF mine THEN [state EXCEPT ![cmd[t]] = "IDLE"] ELSE state
  <2>1. hba = t /\ op[t] # "none" /\ cmd[t] \in Cmds /\ ~frame.got
    BY DEF PollDrain, QueueInv, IInv, Owners, HbaLabels, Pointers, Control, AtPoint,
           Polling, PollOps, AllOps, Polled, FirstAction
  <2>. QED
    BY <2>1 DEF PollDrain, QueueInv, IInv, TypeOK
<1>3. /\ doneq \in Seq(Cmds) /\ NoRepeat(doneq)
      /\ frame.hold \in Seq(Cmds) /\ NoRepeat(frame.hold)
      /\ \A x \in Cmds : x \in Elems(doneq) => x \notin Elems(frame.hold)
      /\ Elems(doneq) \subseteq Cmds
  <2>1. doneq \in Seq(Cmds) /\ frame.hold \in Seq(Cmds)
    BY FrameFields DEF QueueInv, IInv, TypeOK
  <2>. QED
    BY <2>1, ElemsIs DEF QueueInv, AllTracked, Orderly, Tracked, OnePlace, OnDoneq, OnHold
<1>4. /\ moved \in Seq(Cmds) /\ NoRepeat(moved)
      /\ Elems(moved) = IF mine THEN Elems(doneq) \ {cmd[t]} ELSE Elems(doneq)
  BY <1>3, UnlinkElems
<1>. HIDE DEF moved, mine
<1>5. frame'.hold = frame.hold \o moved /\ (frame'.got <=> mine \/ quiet)
  BY <1>2 DEF QueueInv, IInv, TypeOK, Frames
<1>. HIDE DEF quiet
<1>6. Elems(frame'.hold) = Elems(frame.hold) \cup Elems(moved) /\ NoRepeat(frame'.hold)
  <2>1. Elems(frame.hold) \cap Elems(moved) = {}
    <3>1. Elems(moved) \subseteq Elems(doneq)
      BY <1>4
    <3>. QED
      BY <1>3, <3>1, Zenon
  <2>2. /\ Elems(frame.hold \o moved) = Elems(frame.hold) \cup Elems(moved)
        /\ NoRepeat(frame.hold \o moved)
    BY <1>3, <1>4, <2>1, ConcatElems
  <2>. QED
    BY <1>5, <2>2
<1>7. Orderly' /\ Elems(doneq') = {}
  BY <1>2, <1>6, NothingRepeats DEF QueueInv, AllTracked, Orderly
<1>8. ASSUME NEW x \in Cmds
      PROVE  /\ ~PopsIt(t, x) /\ ~PopsIt(t, x)'
             /\ ~HandlesIt(t, x) /\ ~HandlesIt(t, x)'
             /\ ~HasInHand(t, x)
             /\ HasInHand(t, x)' <=> mine /\ x = cmd[t]
             /\ IsWaiting(x)' <=> IsWaiting(x)
             /\ IsActive(x)' <=> IsActive(x)
  <2>1. mine => op[t] \in Polled \cup {"abort"}
    BY DEF mine
  <2>2. op[t] \in Polled \cup {"abort"} => ~quiet
    BY DEF quiet, Polled
  <2>3. HasInHand(t, x)' <=> mine /\ x = cmd[t]
    BY <1>2, <1>5, <2>1, <2>2 DEF HasInHand, Polled
  <2>. QED
    BY <1>2, <2>3 DEF PopsIt, HandlesIt, HasInHand, IsWaiting, Waits, IsActive
<1>9. ASSUME NEW x \in Cmds, ~(mine /\ x = cmd[t])
      PROVE  Unmoved(t, x)
  <2>1. state'[x] = state[x]
    BY <1>2, <1>9 DEF QueueInv, IInv, TypeOK
  <2>2. ~OnDoneq(x)' /\ (OnHold(x)' <=> OnDoneq(x) \/ OnHold(x))
    BY <1>4, <1>6, <1>7, <1>9 DEF OnDoneq, OnHold
  <2>. QED
    BY <1>2, <1>8, <1>9, <2>1, <2>2 DEF Unmoved
<1>10. CASE ~mine
  BY <1>1, <1>7, <1>9, <1>10, NoneMoves DEF QueueInv
<1>11. CASE mine
  <2>1. PICK c \in Cmds : c = cmd[t]
    BY <1>2
  <2>2. OnDoneq(c)
    BY <1>11, <2>1 DEF mine, OnDoneq
  <2>3. OnePlace(c) /\ StateTells(c) /\ TimerTells(c)
        /\ (Handled(c) => IsWaiting(c) \/ IsActive(c))
    BY Before
  <2>4. ~OnDoneq(c)' /\ ~OnHold(c)'
    BY <1>4, <1>6, <1>7, <1>11, <2>1, <2>2, <2>3 DEF OnePlace, OnDoneq, OnHold
  <2>5. /\ IsPopped(c)' <=> IsPopped(c)
        /\ Handled(c)' <=> Handled(c)
        /\ InHand(c)'
    BY <1>1, <1>8, <1>11, <2>1, Updates DEF QueueInv, AllTracked
  <2>6. state'[c] = "IDLE"
    BY <1>2, <1>11, <2>1 DEF QueueInv, IInv, TypeOK
  <2>7. Tracked(c)'
    BY <1>2, <1>8, <2>2, <2>3, <2>4, <2>5, <2>6 DEF Tracked, OnePlace, StateTells, TimerTells
  <2>8. ~InHand(c)
    BY <2>2, <2>3 DEF OnePlace
  <2>. QED
    BY <1>1, <1>7, <1>9, <2>1, <2>7, <2>8, OneMoves DEF QueueInv
<1>. QED
  BY <1>10, <1>11

(* and puts them back, with its own if that was aborted.                   *)
LEMMA PutTracked ==
  ASSUME QueueInv, IInv', NEW t \in Threads, PollPut(t)
  PROVE  AllTracked'
<1>. USE DEF calls, locks, timers, doneqs, device, ghosts, Goto
<1>. DEFINE aborted == op[t] = "abort" /\ frame.got
            own == IF aborted THEN <<cmd[t]>> ELSE <<>>
            back == frame.hold \o own
<1>1. Local(t)
  BY LocalSteps DEF Step, QueueInv
<1>2. /\ pc[t] = "po_put" /\ hba = t /\ op[t] # "none" /\ cmd[t] \in Cmds
      /\ UNCHANGED <<op, cmd, hba, wq, timer, active, owned>> /\ doneq' = doneq \o back
      /\ pc'[t] = "pm_exit"
      /\ frame' = [frame EXCEPT !.hold = <<>>]
      /\ state' = IF aborted THEN [state EXCEPT ![cmd[t]] = "DONEQ"] ELSE state
  <2>1. hba = t /\ op[t] # "none" /\ cmd[t] \in Cmds
    BY DEF PollPut, QueueInv, IInv, Owners, HbaLabels, Pointers, Control, AtPoint,
           PollOps, AllOps, Polled, FirstAction
  <2>. QED
    BY <2>1 DEF PollPut, PutBack, QueueInv, IInv, TypeOK
<1>3. frame'.hold = <<>> /\ frame'.got = frame.got
  BY <1>2 DEF QueueInv, IInv, TypeOK, Frames
<1>4. ASSUME NEW x \in Cmds
      PROVE  /\ ~PopsIt(t, x) /\ ~PopsIt(t, x)'
             /\ ~HandlesIt(t, x) /\ ~HandlesIt(t, x)'
             /\ aborted /\ x = cmd[t] => HasInHand(t, x) /\ ~HasInHand(t, x)'
             /\ ~(aborted /\ x = cmd[t]) => (HasInHand(t, x)' <=> HasInHand(t, x))
             /\ IsWaiting(x)' <=> IsWaiting(x)
             /\ IsActive(x)' <=> IsActive(x)
  BY <1>2, <1>3 DEF PopsIt, HandlesIt, HasInHand, Polled, IsWaiting, Waits, IsActive
<1>5. OnePlace(cmd[t]) /\ (aborted => InHand(cmd[t]))
  BY <1>2, <1>4, Before
<1>6. own \in Seq(Cmds) /\ NoRepeat(own) /\ Elems(own) = IF aborted THEN {cmd[t]} ELSE {}
  <2>1. CASE aborted
    <3>. DEFINE c == cmd[t]
                one == <<c>>
    <3>1. own = one
      BY <2>1
    <3>. HIDE DEF own, aborted, c
    <3>2. one \in Seq(Cmds) /\ NoRepeat(one) /\ Elems(one) = {c}
      <4>1. c \in Cmds
        BY <1>2 DEF c
      <4>. QED
        BY <4>1, SingleElem
    <3>. QED
      BY <2>1, <3>1, <3>2 DEF c
  <2>2. CASE ~aborted
    <3>1. own = <<>>
      BY <2>2
    <3>. HIDE DEF own, aborted
    <3>. QED
      BY <2>2, <3>1, NothingRepeats
  <2>. QED
    BY <2>1, <2>2
<1>7. /\ doneq \in Seq(Cmds) /\ NoRepeat(doneq)
      /\ frame.hold \in Seq(Cmds) /\ NoRepeat(frame.hold)
      /\ \A x \in Cmds : x \in Elems(doneq) => x \notin Elems(frame.hold)
      /\ Elems(doneq) \subseteq Cmds /\ Elems(frame.hold) \subseteq Cmds
  <2>1. doneq \in Seq(Cmds) /\ frame.hold \in Seq(Cmds)
    BY FrameFields DEF QueueInv, IInv, TypeOK
  <2>. QED
    BY <2>1, ElemsIs DEF QueueInv, AllTracked, Orderly, Tracked, OnePlace, OnDoneq, OnHold
<1>8. aborted => cmd[t] \notin Elems(doneq) /\ cmd[t] \notin Elems(frame.hold)
  BY <1>5 DEF OnePlace, OnDoneq, OnHold
<1>. HIDE DEF own, aborted
<1>9. back \in Seq(Cmds) /\ NoRepeat(back) /\ Elems(back) = Elems(frame.hold) \cup Elems(own)
  BY <1>6, <1>7, <1>8, ConcatElems
<1>. HIDE DEF back
<1>10. NoRepeat(doneq') /\ Elems(doneq') = Elems(doneq) \cup Elems(back)
  <2>1. Elems(doneq) \cap Elems(back) = {}
    <3>1. Elems(doneq) \cap Elems(own) = {}
      BY <1>6, <1>8
    <3>2. Elems(doneq) \cap Elems(frame.hold) = {}
      BY <1>7, Zenon
    <3>. QED
      BY <1>9, <3>1, <3>2
  <2>2. Elems(doneq \o back) = Elems(doneq) \cup Elems(back) /\ NoRepeat(doneq \o back)
    BY <1>7, <1>9, <2>1, ConcatElems
  <2>. QED
    BY <1>2, <2>2
<1>11. Orderly' /\ Elems(frame'.hold) = {}
  BY <1>2, <1>3, <1>10, NothingRepeats DEF QueueInv, AllTracked, Orderly
<1>12. ASSUME NEW x \in Cmds, ~(aborted /\ x = cmd[t])
       PROVE  Unmoved(t, x)
  <2>1. state'[x] = state[x]
    BY <1>2, <1>12 DEF QueueInv, IInv, TypeOK
  <2>2. ~OnHold(x)' /\ (OnDoneq(x)' <=> OnDoneq(x) \/ OnHold(x))
    BY <1>6, <1>9, <1>10, <1>11, <1>12 DEF OnDoneq, OnHold
  <2>. QED
    BY <1>2, <1>4, <1>12, <2>1, <2>2 DEF Unmoved
<1>13. CASE ~aborted
  BY <1>1, <1>11, <1>12, <1>13, NoneMoves DEF QueueInv
<1>14. CASE aborted
  <2>1. PICK c \in Cmds : c = cmd[t]
    BY <1>2
  <2>2. HasInHand(t, c) /\ InHand(c)
    BY <1>4, <1>5, <1>14, <2>1
  <2>3. OnePlace(c) /\ StateTells(c) /\ TimerTells(c)
        /\ (Handled(c) => IsWaiting(c) \/ IsActive(c))
    BY Before
  <2>4. OnDoneq(c)' /\ ~OnHold(c)'
    BY <1>6, <1>9, <1>10, <1>11, <1>14, <2>1 DEF OnDoneq, OnHold
  <2>5. /\ IsPopped(c)' <=> IsPopped(c)
        /\ Handled(c)' <=> Handled(c)
        /\ ~InHand(c)'
    BY <1>1, <1>4, <1>14, <2>1, <2>2, Updates DEF QueueInv, AllTracked
  <2>6. state'[c] = "DONEQ"
    BY <1>2, <1>14, <2>1 DEF QueueInv, IInv, TypeOK
  <2>7. Tracked(c)'
    BY <1>2, <1>4, <2>2, <2>3, <2>4, <2>5, <2>6 DEF Tracked, OnePlace, StateTells, TimerTells
  <2>. QED
    BY <1>1, <1>11, <1>12, <2>1, <2>2, <2>7, OneMoves DEF QueueInv
<1>. QED
  BY <1>13, <1>14

(* The request is given back: by a polled transport when it ends,          *)
LEMMA FinishTracked ==
  ASSUME QueueInv, IInv', NEW t \in Threads, NEW c \in Cmds, c = cmd[t], Finish(t)
  PROVE  AllTracked'
<1>. USE DEF calls, locks, timers, doneqs, device, ghosts, Goto
<1>1. Local(t)
  BY LocalSteps DEF Step, QueueInv
<1>2. /\ pc[t] = "finish" /\ op[t] \in Polled /\ pc'[t] = "idle" /\ op'[t] = "none"
      /\ owned' = owned \ {c}
      /\ UNCHANGED <<hba, frame, wq, state, timer, doneq, active>>
  BY DEF Finish, Return, QueueInv, IInv, TypeOK, Control, AtPoint
<1>3. ASSUME NEW x \in Cmds
      PROVE  /\ ~PopsIt(t, x) /\ ~HandlesIt(t, x) /\ (HasInHand(t, x) <=> x = c)
             /\ ~PopsIt(t, x)' /\ ~HandlesIt(t, x)' /\ ~HasInHand(t, x)'
             /\ IsWaiting(x)' <=> IsWaiting(x)
             /\ IsActive(x)' <=> IsActive(x)
             /\ OnDoneq(x)' <=> OnDoneq(x)
             /\ OnHold(x)' <=> OnHold(x)
  BY <1>2 DEF PopsIt, HandlesIt, HasInHand, Polled, IsWaiting, Waits, IsActive, OnDoneq, OnHold
<1>4. Orderly'
  BY <1>2 DEF QueueInv, AllTracked, Orderly
<1>5. \A x \in Cmds \ {c} : Unmoved(t, x)
  BY <1>2, <1>3 DEF Unmoved
<1>6. OnePlace(c) /\ StateTells(c) /\ TimerTells(c) /\ InHand(c)
  BY <1>3, Before
<1>7. /\ IsPopped(c)' <=> IsPopped(c)
      /\ Handled(c)' <=> Handled(c)
      /\ ~InHand(c)'
  BY <1>1, <1>3, Updates DEF QueueInv, AllTracked
<1>8. Tracked(c)'
  BY <1>2, <1>3, <1>6, <1>7 DEF Tracked, OnePlace, StateTells, TimerTells
<1>. QED
  BY <1>1, <1>3, <1>4, <1>5, <1>8, OneMoves DEF QueueInv

(* by the callback,                                                        *)
LEMMA CallbackTracked ==
  ASSUME QueueInv, IInv', NEW c \in Cmds, c = cmd[DoneqSoft], DoneqCall
  PROVE  AllTracked'
<1>. USE DEF calls, locks, timers, doneqs, device, ghosts, Goto
<1>. DEFINE t == DoneqSoft
<1>1. Local(t) /\ t \in Threads
  BY LocalSteps, SoftThreads DEF QueueInv
<1>2. /\ pc[t] = "dq_call" /\ op[t] = "none" /\ pc'[t] = "dq_get" /\ op' = op
      /\ owned' = owned \ {c} /\ state' = [state EXCEPT ![c] = "IDLE"]
      /\ UNCHANGED <<hba, frame, wq, timer, doneq, active>>
  BY <1>1 DEF DoneqCall, QueueInv, IInv, TypeOK, Control, AtPoint
<1>. HIDE DEF t
<1>3. ASSUME NEW x \in Cmds
      PROVE  /\ ~PopsIt(t, x) /\ ~HandlesIt(t, x) /\ (HasInHand(t, x) <=> x = c)
             /\ ~PopsIt(t, x)' /\ ~HandlesIt(t, x)' /\ ~HasInHand(t, x)'
             /\ IsWaiting(x)' <=> IsWaiting(x)
             /\ IsActive(x)' <=> IsActive(x)
             /\ OnDoneq(x)' <=> OnDoneq(x)
             /\ OnHold(x)' <=> OnHold(x)
  BY <1>2 DEF PopsIt, HandlesIt, HasInHand, Polled, IsWaiting, Waits, IsActive, OnDoneq,
              OnHold, t
<1>4. Orderly'
  BY <1>2 DEF QueueInv, AllTracked, Orderly
<1>5. state'[c] = "IDLE" /\ \A x \in Cmds : x # c => state'[x] = state[x]
  BY <1>2 DEF QueueInv, IInv, TypeOK
<1>6. \A x \in Cmds \ {c} : Unmoved(t, x)
  BY <1>2, <1>3, <1>5 DEF Unmoved
<1>7. OnePlace(c) /\ StateTells(c) /\ TimerTells(c) /\ InHand(c)
  BY <1>1, <1>3, Before
<1>8. /\ IsPopped(c)' <=> IsPopped(c)
      /\ Handled(c)' <=> Handled(c)
      /\ ~InHand(c)'
  BY <1>1, <1>3, Updates DEF QueueInv, AllTracked
<1>9. Tracked(c)'
  BY <1>2, <1>3, <1>5, <1>7, <1>8 DEF Tracked, OnePlace, StateTells, TimerTells
<1>. QED
  BY <1>1, <1>3, <1>4, <1>6, <1>9, OneMoves DEF QueueInv

(* which ghd_doneq_process makes for the head of the doneq.                *)
LEMMA DoneqGetTracked ==
  ASSUME QueueInv, IInv', DoneqGet
  PROVE  AllTracked'
<1>. USE DEF calls, locks, timers, doneqs, device, ghosts, Goto
<1>. DEFINE t == DoneqSoft
<1>1. Local(t) /\ t \in Threads
  BY LocalSteps, SoftThreads DEF QueueInv
<1>2. /\ pc[t] = "dq_get" /\ op[t] = "none" /\ op' = op
      /\ UNCHANGED <<hba, frame, wq, state, timer, active, owned>>
  BY <1>1 DEF DoneqGet, QueueInv, IInv, TypeOK, Control, AtPoint
<1>3. CASE pollmode \/ doneq = <<>>
  <2>1. pc'[t] = "idle" /\ UNCHANGED <<doneq, cmd>>
    BY <1>1, <1>3 DEF DoneqGet, QueueInv, IInv, TypeOK
  <2>. HIDE DEF t
  <2>2. ASSUME NEW x \in Cmds
        PROVE  /\ PopsIt(t, x)' <=> PopsIt(t, x)
               /\ HandlesIt(t, x)' <=> HandlesIt(t, x)
               /\ HasInHand(t, x)' <=> HasInHand(t, x)
    BY <1>2, <2>1 DEF PopsIt, HandlesIt, HasInHand, Polled
  <2>. QED
    BY <1>1, <1>2, <2>1, <2>2, QuietStep DEF QueueInv
<1>4. CASE ~pollmode /\ doneq # <<>>
  <2>1. /\ doneq' = Tail(doneq) /\ pc'[t] = "dq_call"
        /\ cmd' = [cmd EXCEPT ![t] = Head(doneq)]
    BY <1>1, <1>4 DEF DoneqGet, QueueInv, IInv, TypeOK
  <2>. HIDE DEF t
  <2>2. /\ doneq \in Seq(Cmds) /\ NoRepeat(doneq)
        /\ Head(doneq) \in Elems(doneq) /\ Elems(doneq) \subseteq Cmds
        /\ NoRepeat(doneq') /\ Elems(doneq') = Elems(doneq) \ {Head(doneq)}
    <3>1. doneq \in Seq(Cmds) /\ NoRepeat(doneq)
      BY DEF QueueInv, IInv, TypeOK, AllTracked, Orderly
    <3>. QED
      BY <1>4, <2>1, <3>1, TailElems, ElemsIs
  <2>3. PICK c \in Cmds : c = Head(doneq)
    BY <2>2
  <2>4. ASSUME NEW x \in Cmds
        PROVE  /\ ~PopsIt(t, x) /\ ~HandlesIt(t, x) /\ ~HasInHand(t, x)
               /\ ~PopsIt(t, x)' /\ ~HandlesIt(t, x)' /\ (HasInHand(t, x)' <=> x = c)
               /\ IsWaiting(x)' <=> IsWaiting(x)
               /\ IsActive(x)' <=> IsActive(x)
               /\ OnDoneq(x)' <=> OnDoneq(x) /\ x # c
               /\ OnHold(x)' <=> OnHold(x)
    <3>1. cmd'[t] = c
      BY <1>1, <2>1, <2>3 DEF QueueInv, IInv, TypeOK
    <3>2. OnDoneq(x)' <=> OnDoneq(x) /\ x # c
      BY <2>2, <2>3 DEF OnDoneq
    <3>. QED
      BY <1>2, <2>1, <3>1, <3>2
      DEF PopsIt, HandlesIt, HasInHand, Polled, IsWaiting, Waits, IsActive, OnHold
  <2>5. Orderly'
    BY <1>2, <2>2 DEF QueueInv, AllTracked, Orderly
  <2>6. \A x \in Cmds \ {c} : Unmoved(t, x)
    BY <1>2, <2>4 DEF Unmoved
  <2>7. OnePlace(c) /\ StateTells(c) /\ TimerTells(c) /\ OnDoneq(c)
    BY <1>1, <2>2, <2>3, Before DEF OnDoneq
  <2>8. /\ IsPopped(c)' <=> IsPopped(c)
        /\ Handled(c)' <=> Handled(c)
        /\ InHand(c)'
    BY <1>1, <2>4, Updates DEF QueueInv, AllTracked
  <2>9. Tracked(c)'
    BY <1>2, <2>4, <2>7, <2>8 DEF Tracked, OnePlace, StateTells, TimerTells
  <2>10. ~InHand(c)
    BY <2>7 DEF OnePlace
  <2>. QED
    BY <1>1, <2>5, <2>6, <2>9, <2>10, OneMoves DEF QueueInv
<1>. QED
  BY <1>3, <1>4

(* Time and the device move no request.                                    *)
LEMMA OutsideSteps ==
  ASSUME QueueInv, GhdTimeout \/ DeviceInterrupt \/ (\E c \in Cmds : Expire(c)) \/ UNCHANGED vars
  PROVE  AllTracked'
<1>. USE DEF calls, locks, timers, doneqs, device, ghosts, vars
<1>1. UNCHANGED <<pc, op, cmd, hba, frame, wq, state, active, doneq, owned>>
  BY DEF GhdTimeout, DeviceInterrupt, Expire
<1>2. \A c \in Cmds : timer'[c] # "off" <=> timer[c] # "off"
  BY DEF GhdTimeout, DeviceInterrupt, Expire, QueueInv, IInv, TypeOK
<1>. QED
  BY <1>1, <1>2, OutsideStep DEF QueueInv

(* Every step keeps every request tracked.                                 *)
LEMMA TrackedStep ==
  ASSUME QueueInv, IInv', [Next]_vars
  PROVE  AllTracked'
<1>1. ASSUME NEW t \in Threads, NEW c \in Cmds, Transport(t, c) \/ Abort(t, c) \/ Reset(t, c)
      PROVE  AllTracked'
  BY <1>1, TransportTracked, QuietSteps DEF QueueInv
<1>2. ASSUME NEW t \in Threads, EnterPolled(t) \/ EnterAbort(t) \/ EnterReset(t)
                                  \/ TransportEnqueue(t)
      PROVE  AllTracked'
  <2>1. EnterAbort(t) \/ TransportEnqueue(t) => cmd[t] \in Cmds
    BY DEF EnterAbort, Enter, TransportEnqueue, QueueInv, IInv, Pointers
  <2>. QED
    BY <1>2, <2>1, QuietSteps, AbortTracked, EnqueueTracked DEF QueueInv
<1>3. ASSUME NEW t \in Threads,
             TransportTryFails(t) \/ TransportTryOk(t) \/ WaitqDone(t) \/ ReleaseHba(t)
               \/ ReleaseWaitq(t) \/ IntrPhase(t) \/ IntrNone(t) \/ PollGiveUp(t)
               \/ PollmodeExit(t) \/ PollmodeTrigger(t) \/ TimerNone(t)
      PROVE  AllTracked'
  BY <1>3, QuietSteps DEF QueueInv
<1>4. ASSUME NEW t \in Threads,
             WaitqPop(t) \/ HbaAccepts(t) \/ HbaRefuses(t) \/ WaitqRequeue(t)
      PROVE  AllTracked'
  <2>1. WaitqPop(t) => Head(wq.hbaq) \in Cmds
    BY PopHbaType DEF WaitqPop, QueueInv, IInv, TypeOK
  <2>2. HbaAccepts(t) \/ WaitqRequeue(t) => frame.run \in Cmds
    BY DEF HbaAccepts, WaitqRequeue, QueueInv, IInv, Pointers
  <2>. QED
    BY <1>4, <2>1, <2>2, PopTracked, AcceptTracked, RefuseTracked, RequeueTracked
<1>5. ASSUME NEW t \in Threads,
             HbaFinishesAtOnce(t) \/ IntrComplete(t) \/ NewstateEarly(t)
               \/ NewstateReset(t) \/ NewstateCannot(t) \/ NewstateHung(t) \/ TimerGet(t)
      PROVE  AllTracked'
  BY <1>5, ActiveDoneTracked, EarlyTracked, ResetTracked, ClimbTracked, ExpiredTracked
<1>6. ASSUME NEW t \in Threads, PollDrain(t) \/ PollPut(t) \/ Finish(t)
      PROVE  AllTracked'
  <2>1. Finish(t) => cmd[t] \in Cmds
    BY DEF Finish, QueueInv, IInv, Pointers, Control, AtPoint, Polled
  <2>. QED
    BY <1>6, <2>1, DrainTracked, PutTracked, FinishTracked
<1>7. ASSUME DoneqGet \/ DoneqCall
      PROVE  AllTracked'
  <2>1. DoneqCall => cmd[DoneqSoft] \in Cmds
    BY DEF DoneqCall, QueueInv, IInv, Pointers
  <2>. QED
    BY <1>7, <2>1, DoneqGetTracked, CallbackTracked
<1>8. ASSUME IntrReturn \/ DoneqBegin \/ TimerBegin \/ TimerEnter \/ IntrEnter
      PROVE  AllTracked'
  BY <1>8, QuietSteps DEF QueueInv
<1>. QED
  BY <1>1, <1>2, <1>3, <1>4, <1>5, <1>6, <1>7, <1>8, OutsideSteps
  DEF Next, Call, Step, SoftStep

-----------------------------------------------------------------------------
(* The request of a recovery step.                                         *)

Spared ==
  /\ active' = active
  /\ \A c \in Cmds : /\ IsWaiting(c) => IsWaiting(c)'
                     /\ IsActive(c) => state'[c] = state[c]

(* While a thread owns the HBA mutex the others only queue requests, and   *)
(* give back finished ones: none leaves the queues, and the active one is  *)
(* left alone.                                                             *)
LEMMA OthersSpare ==
  ASSUME QueueInv, NEW t \in Threads, Call(t) \/ Step(t), hba \notin {t, NoThread}
  PROVE  Spared
<1>. USE DEF calls, locks, timers, doneqs, device, ghosts, Goto
<1>1. pc[t] \notin HbaLabels
  BY DEF QueueInv, IInv, Owners
<1>2. /\ pc[t] \notin {"wq_loop", "wq_start", "wq_fini", "wq_reject", "ex_hba", "in_stat"}
      /\ pc[t] \notin {"in_ret", "po_stat", "po_timer", "po_drain", "po_put", "pm_exit"}
      /\ pc[t] \notin {"pm_trig", "ts_poll", "ns"}
  BY <1>1 DEF HbaLabels
<1>3. ~(WaitqDone(t) \/ WaitqPop(t) \/ HbaAccepts(t) \/ HbaFinishesAtOnce(t)
          \/ HbaRefuses(t) \/ WaitqRequeue(t) \/ ReleaseHba(t))
  BY <1>2 DEF WaitqDone, WaitqPop, HbaAccepts, HbaFinishesAtOnce, HbaRefuses,
              WaitqRequeue, ReleaseHba
<1>4. ~(IntrPhase(t) \/ IntrComplete(t) \/ IntrNone(t) \/ PollDrain(t) \/ PollGiveUp(t)
          \/ PollPut(t) \/ PollmodeExit(t) \/ PollmodeTrigger(t))
  BY <1>2 DEF IntrPhase, IntrComplete, StatusProcessed, IntrNone, PollDrain, PollGiveUp,
              PollPut, PollmodeExit, PollmodeTrigger
<1>5. ~(TimerNone(t) \/ TimerGet(t) \/ NewstateEarly(t) \/ NewstateCannot(t)
          \/ NewstateReset(t) \/ NewstateHung(t))
  BY <1>2 DEF TimerNone, TimerGet, NewstateEarly, NewstateCannot, NewstateReset,
              NewstateHung
<1>6. ~(EnterPolled(t) \/ EnterAbort(t) \/ EnterReset(t) \/ TransportTryOk(t))
  BY DEF EnterPolled, EnterAbort, EnterReset, Enter, TransportTryOk
<1>7. CASE Call(t) \/ TransportTryFails(t) \/ ReleaseWaitq(t) \/ Finish(t)
  <2>1. UNCHANGED <<wq, active, state>>
    BY <1>7 DEF Call, Transport, Abort, Reset, TransportTryFails, ReleaseWaitq, Finish
  <2>. QED
    BY <2>1 DEF Spared, IsWaiting, Waits
<1>8. CASE TransportEnqueue(t)
  <2>1. /\ cmd[t] \in Cmds /\ HasInHand(t, cmd[t])
        /\ wq' = Enqueue(wq, cmd[t]) /\ active' = active
        /\ state' = [state EXCEPT ![cmd[t]] = "WAITQ"]
    BY <1>8 DEF TransportEnqueue, QueueInv, IInv, Pointers, Control, AtPoint, HasInHand
  <2>2. OnePlace(cmd[t]) /\ InHand(cmd[t])
    BY <2>1, Before
  <2>3. \A c \in Cmds : Waits(wq, c) => Waits(wq', c)
    <3>1. wq \in WaitqStates /\ WaitqInv(wq) /\ ~Waits(wq, cmd[t])
      BY <2>2 DEF QueueInv, IInv, TypeOK, AllTracked, Orderly, OnePlace, IsWaiting
    <3>. QED
      BY <2>1, <3>1, EnqueueWaits
  <2>4. ASSUME NEW c \in Cmds, IsActive(c) PROVE state'[c] = state[c]
    BY <2>1, <2>2, <2>4 DEF QueueInv, IInv, TypeOK, OnePlace
  <2>. QED
    BY <2>1, <2>3, <2>4 DEF Spared, IsWaiting
<1>. QED
  BY <1>3, <1>4, <1>5, <1>6, <1>7, <1>8 DEF Step

(* The software interrupts spare it too.                                   *)
LEMMA SoftSpares ==
  ASSUME QueueInv, SoftStep \/ IntrEnter \/ GhdTimeout \/ DeviceInterrupt
                     \/ (\E c \in Cmds : Expire(c)) \/ UNCHANGED vars
  PROVE  Spared
<1>. USE DEF calls, locks, timers, doneqs, device, ghosts, Goto, vars
<1>1. CASE DoneqCall
  <2>1. /\ cmd[DoneqSoft] \in Cmds /\ HasInHand(DoneqSoft, cmd[DoneqSoft])
        /\ UNCHANGED <<wq, active>> /\ state' = [state EXCEPT ![cmd[DoneqSoft]] = "IDLE"]
    BY <1>1 DEF DoneqCall, QueueInv, IInv, Pointers, HasInHand
  <2>2. OnePlace(cmd[DoneqSoft]) /\ InHand(cmd[DoneqSoft])
    BY <2>1, Before, SoftThreads
  <2>3. ASSUME NEW c \in Cmds, IsActive(c) PROVE state'[c] = state[c]
    BY <2>1, <2>2, <2>3 DEF QueueInv, IInv, TypeOK, OnePlace
  <2>. QED
    BY <2>1, <2>3 DEF Spared, IsWaiting, Waits
<1>2. CASE ~DoneqCall
  <2>1. UNCHANGED <<wq, active, state>>
    BY <1>2 DEF SoftStep, IntrReturn, DoneqBegin, DoneqGet, TimerBegin, TimerEnter,
                IntrEnter, GhdTimeout, DeviceInterrupt, Expire
  <2>. QED
    BY <2>1 DEF Spared, IsWaiting, Waits
<1>. QED
  BY <1>1, <1>2

(* So a thread in sol11ghd_timer_newstate finds its request where it was.  *)
LEMMA SparedStepping ==
  ASSUME QueueInv, NEW u \in Threads, Spared, pc'[u] = pc[u], hba = u => frame' = frame
  PROVE  Stepping(u)'
<1>. SUFFICES ASSUME pc[u] = "ns", frame'.run # NoCmd
              PROVE  IF frame'.act \in EarlyActions
                     THEN IsWaiting(frame.run)'
                     ELSE /\ IsActive(frame.run)'
                          /\ Rank(state'[frame.run]) <= Rank(NextState[frame'.act])
  <2>1. pc[u] = "ns" => frame' = frame
    BY DEF QueueInv, IInv, Owners, HbaLabels
  <2>. QED
    BY <2>1 DEF Stepping, IsActive, IsWaiting
<1>1. frame' = frame /\ frame.run \in Cmds
  BY FrameFields DEF QueueInv, IInv, Owners, HbaLabels
<1>2. PICK c \in Cmds : c = frame.run
  BY <1>1
<1>3. IF frame.act \in EarlyActions
      THEN IsWaiting(c)
      ELSE IsActive(c) /\ Rank(state[c]) <= Rank(NextState[frame.act])
  BY <1>1, <1>2 DEF QueueInv, Stepping
<1>. QED
  BY <1>1, <1>2, <1>3 DEF Spared, IsActive

(* The next rung of the ladder is higher.                                  *)
LEMMA LadderClimbs ==
  /\ \A a \in {"ABORT_CMD", "ABORT_DEV", "RESET_TARGET", "RESET_BUS"} :
       /\ NextAction[a] \in Actions \ EarlyActions
       /\ Rank(NextState[a]) <= Rank(NextState[NextAction[a]])
  /\ \A s \in Started : /\ s # "WAITQ" /\ s \in DOMAIN TimeoutAction
                        /\ TimeoutAction[s] \in Actions \ EarlyActions
                        /\ Rank(s) <= Rank(NextState[TimeoutAction[s]])
  /\ TimeoutAction["WAITQ"] = "EARLY_TIMEOUT"
  /\ Rank("ACTIVE") <= Rank(NextState["ABORT_CMD"])
<1>1. ASSUME NEW a \in {"ABORT_CMD", "ABORT_DEV", "RESET_TARGET", "RESET_BUS"}
      PROVE  /\ NextAction[a] \in Actions \ EarlyActions
             /\ Rank(NextState[a]) <= Rank(NextState[NextAction[a]])
  <2>1. CASE a = "ABORT_CMD"
    BY <2>1, RankIs DEF NextAction, NextState, Actions, EarlyActions
  <2>2. CASE a = "ABORT_DEV"
    BY <2>2, RankIs DEF NextAction, NextState, Actions, EarlyActions
  <2>3. CASE a = "RESET_TARGET"
    BY <2>3, RankIs DEF NextAction, NextState, Actions, EarlyActions
  <2>4. CASE a = "RESET_BUS"
    BY <2>4, RankIs DEF NextAction, NextState, Actions, EarlyActions
  <2>. QED
    BY <2>1, <2>2, <2>3, <2>4
<1>2. ASSUME NEW s \in Started
      PROVE  /\ s # "WAITQ" /\ s \in DOMAIN TimeoutAction
             /\ TimeoutAction[s] \in Actions \ EarlyActions
             /\ Rank(s) <= Rank(NextState[TimeoutAction[s]])
  <2>1. CASE s = "ACTIVE"
    BY <2>1, RankIs DEF TimeoutAction, NextState, Actions, EarlyActions
  <2>2. CASE s = "ABORTING_CMD"
    BY <2>2, RankIs DEF TimeoutAction, NextState, Actions, EarlyActions
  <2>3. CASE s = "ABORTING_DEV"
    BY <2>3, RankIs DEF TimeoutAction, NextState, Actions, EarlyActions
  <2>4. CASE s = "RESETTING_DEV"
    BY <2>4, RankIs DEF TimeoutAction, NextState, Actions, EarlyActions
  <2>5. CASE s = "RESETTING_BUS"
    BY <2>5, RankIs DEF TimeoutAction, NextState, Actions, EarlyActions
  <2>6. CASE s = "HUNG"
    BY <2>6, RankIs DEF TimeoutAction, NextState, Actions, EarlyActions
  <2>. QED
    BY <2>1, <2>2, <2>3, <2>4, <2>5, <2>6 DEF Started
<1>3. TimeoutAction["WAITQ"] = "EARLY_TIMEOUT"
  BY DEF TimeoutAction
<1>4. Rank("ACTIVE") <= Rank(NextState["ABORT_CMD"])
  BY RankIs DEF NextState
<1>. QED
  BY <1>1, <1>2, <1>3, <1>4

(* A thread that begins or goes on stepping a request has the right one.   *)
LEMMA OwnStepping ==
  ASSUME QueueInv, NEW t \in Threads, Call(t) \/ Step(t)
  PROVE  Stepping(t)'
<1>. USE DEF calls, locks, timers, doneqs, device, ghosts, Goto
<1>1. CASE EnterAbort(t)
  <2>1. /\ hba = NoThread /\ cmd[t] \in Cmds /\ UNCHANGED <<wq, state, active>>
        /\ frame \in Frames
    BY <1>1 DEF EnterAbort, Enter, QueueInv, IInv, TypeOK, Pointers
  <2>2. CASE state[cmd[t]] = "WAITQ"
    <3>1. frame'.run = cmd[t] /\ frame'.act = "EARLY_ABORT"
      BY <1>1, <2>1, <2>2 DEF EnterAbort, Frames
    <3>2. IsWaiting(cmd[t])
      BY <2>1, <2>2, Before DEF StateTells, Started, IsPopped, Popped
    <3>. QED
      BY <2>1, <3>1, <3>2 DEF Stepping, EarlyActions, IsWaiting
  <2>3. CASE state[cmd[t]] = "ACTIVE"
    <3>1. frame'.run = cmd[t] /\ frame'.act = "ABORT_CMD"
      BY <1>1, <2>1, <2>3 DEF EnterAbort, Frames
    <3>2. IsActive(cmd[t])
      BY <2>1, <2>3, Before DEF StateTells
    <3>. QED
      BY <2>1, <2>3, <3>1, <3>2, LadderClimbs DEF Stepping, EarlyActions, IsActive
  <2>4. CASE state[cmd[t]] \notin {"WAITQ", "ACTIVE"}
    BY <1>1, <2>4 DEF EnterAbort, Stepping, QueueInv, IInv, TypeOK
  <2>. QED
    BY <2>2, <2>3, <2>4
<1>2. CASE EnterReset(t)
  <2>1. frame = NoFrame /\ frame'.run = frame.run
    BY <1>2 DEF EnterReset, Enter, QueueInv, Control, OwnerAtWork, IInv, TypeOK, Frames
  <2>. QED
    BY <2>1 DEF Stepping, NoFrame
<1>3. CASE TimerGet(t)
  <2>1. PICK c \in Cmds :
          /\ timer[c] = "expired" /\ state[c] \in DOMAIN TimeoutAction
          /\ frame' = [frame EXCEPT !.run = c, !.act = TimeoutAction[state[c]],
                         !.nsret = IF pc[t] = "ts_poll" THEN "ts_poll" ELSE "po_drain"]
    BY <1>3 DEF TimerGet
  <2>2. frame'.run = c /\ frame'.act = TimeoutAction[state[c]]
    BY <2>1 DEF QueueInv, IInv, TypeOK, Frames
  <2>3. pc[t] \in {"ts_poll", "po_timer"} /\ hba = t /\ UNCHANGED <<wq, state, active>>
    BY <1>3 DEF TimerGet, QueueInv, IInv, Owners, HbaLabels
  <2>4. IsWaiting(c) \/ IsActive(c)
    BY <2>1, <2>3, Before DEF TimerTells, IsPopped, Popped
  <2>5. CASE IsWaiting(c)
    <3>1. state[c] = "WAITQ"
      BY <2>5, Before DEF StateTells
    <3>. QED
      BY <2>2, <2>3, <2>5, <3>1, LadderClimbs DEF Stepping, EarlyActions, IsWaiting
  <2>6. CASE IsActive(c)
    <3>1. state[c] \in Started
      BY <2>6, Before DEF StateTells
    <3>. QED
      BY <2>2, <2>3, <2>6, <3>1, LadderClimbs DEF Stepping, IsActive
  <2>. QED
    BY <2>4, <2>5, <2>6
<1>4. CASE NewstateCannot(t)
  <2>1. /\ pc[t] = "ns"
        /\ frame.act \in {"ABORT_CMD", "ABORT_DEV", "RESET_TARGET", "RESET_BUS"}
        /\ frame' = [frame EXCEPT !.act = NextAction[@]]
        /\ state' = IF frame.run = NoCmd THEN state
                    ELSE [state EXCEPT ![frame.run] = NextState[frame.act]]
        /\ active' = active
    BY <1>4 DEF NewstateCannot
  <2>2. /\ frame'.run = frame.run /\ frame'.act = NextAction[frame.act]
        /\ frame.run \in Cmds \cup {NoCmd}
    BY <2>1, FrameFields DEF QueueInv, IInv, TypeOK, Frames
  <2>3. CASE frame.run # NoCmd
    <3>1. IsActive(frame.run)
      BY <2>1, <2>3 DEF QueueInv, Stepping, EarlyActions
    <3>2. state'[frame.run] = NextState[frame.act]
      BY <2>1, <2>2, <2>3 DEF QueueInv, IInv, TypeOK
    <3>3. frame'.act \notin EarlyActions
          /\ Rank(state'[frame.run]) <= Rank(NextState[frame'.act])
      BY <2>1, <2>2, <3>2, LadderClimbs
    <3>. QED
      BY <2>1, <2>2, <3>1, <3>3 DEF Stepping, IsActive
  <2>. QED
    BY <2>2, <2>3 DEF Stepping
<1>5. CASE ~(EnterAbort(t) \/ EnterReset(t) \/ TimerGet(t) \/ NewstateCannot(t))
  <2>1. CASE Call(t) \/ EnterPolled(t) \/ TransportEnqueue(t) \/ TransportTryFails(t)
               \/ TransportTryOk(t) \/ ReleaseHba(t) \/ ReleaseWaitq(t)
    <3>1. pc'[t] # "ns"
      BY <2>1 DEF Call, Transport, Abort, Reset, EnterPolled, Enter, TransportEnqueue,
         TransportTryFails, Return, TransportTryOk, ReleaseHba, ReleaseWaitq,
         QueueInv, IInv, TypeOK
    <3>. QED
      BY <3>1 DEF Stepping
  <2>2. CASE WaitqDone(t) \/ WaitqPop(t) \/ HbaAccepts(t) \/ HbaFinishesAtOnce(t)
               \/ HbaRefuses(t) \/ WaitqRequeue(t)
    <3>1. pc'[t] # "ns"
      BY <2>2, FrameFields DEF WaitqDone, WaitqReturn, WaitqPop, HbaAccepts,
         HbaFinishesAtOnce, HbaRefuses, WaitqRequeue, QueueInv, IInv, TypeOK
    <3>. QED
      BY <3>1 DEF Stepping
  <2>3. CASE IntrPhase(t) \/ IntrComplete(t) \/ IntrNone(t) \/ PollDrain(t) \/ PollGiveUp(t)
               \/ PollPut(t) \/ PollmodeExit(t) \/ PollmodeTrigger(t)
    <3>1. pc'[t] # "ns"
      BY <2>3 DEF IntrPhase, IntrComplete, StatusProcessed, IntrNone, PollDrain,
         PollGiveUp, PollPut, PollmodeExit, PollmodeTrigger, QueueInv, IInv, TypeOK
    <3>. QED
      BY <3>1 DEF Stepping
  <2>4. CASE Finish(t) \/ TimerNone(t) \/ NewstateEarly(t) \/ NewstateReset(t)
               \/ NewstateHung(t)
    <3>1. pc'[t] # "ns"
      BY <2>4, FrameFields DEF Finish, Return, TimerNone, NewstateEarly, NewstateReset,
         NewstateHung, QueueInv, IInv, TypeOK
    <3>. QED
      BY <3>1 DEF Stepping
  <2>. QED
    BY <1>5, <2>1, <2>2, <2>3, <2>4 DEF Step
<1>. QED
  BY <1>1, <1>2, <1>3, <1>4, <1>5

(* Whoever steps, the request of a recovery step stays the right one.      *)
LEMMA SteppingStep ==
  ASSUME QueueInv, [Next]_vars, NEW u \in Threads
  PROVE  Stepping(u)'
<1>. USE DEF calls, locks, timers, doneqs, device, ghosts, Goto
<1>1. ASSUME NEW t \in Threads, Call(t) \/ Step(t)
      PROVE  Stepping(u)'
  <2>1. CASE u = t
    BY <1>1, <2>1, OwnStepping
  <2>2. CASE u # t
    <3>1. Local(t)
      BY <1>1, LocalSteps DEF QueueInv
    <3>2. pc'[u] = pc[u] /\ (hba = u => frame' = frame)
      BY <2>2, <3>1, GhdAssumption DEF Local
    <3>3. CASE hba \notin {t, NoThread}
      BY <1>1, <3>2, <3>3, OthersSpare, SparedStepping
    <3>4. CASE hba \in {t, NoThread}
      <4>1. pc[u] # "ns"
        BY <2>2, <3>4, GhdAssumption DEF QueueInv, IInv, Owners, HbaLabels
      <4>. QED
        BY <3>2, <4>1 DEF Stepping
    <3>. QED
      BY <3>3, <3>4
  <2>. QED
    BY <2>1, <2>2
<1>2. CASE SoftStep \/ IntrEnter
  <2>1. pc'[u] = "ns" => pc[u] = "ns"
    BY <1>2, SoftThreads DEF SoftStep, IntrReturn, DoneqBegin, DoneqGet, DoneqCall,
                TimerBegin, TimerEnter, IntrEnter, QueueInv, IInv, TypeOK
  <2>2. CASE pc[u] = "ns"
    <3>1. hba = u
      BY <2>2 DEF QueueInv, IInv, Owners, HbaLabels
    <3>2. pc'[u] = pc[u] /\ frame' = frame
      BY <1>2, <2>2, <3>1, SoftThreads, GhdAssumption
      DEF SoftStep, IntrReturn, DoneqBegin, DoneqGet, DoneqCall, TimerBegin, TimerEnter,
          IntrEnter, QueueInv, IInv, TypeOK, Owners, HbaLabels
    <3>. QED
      BY <1>2, <3>2, SoftSpares, SparedStepping
  <2>. QED
    BY <2>1, <2>2 DEF Stepping
<1>3. CASE GhdTimeout \/ DeviceInterrupt \/ (\E c \in Cmds : Expire(c)) \/ UNCHANGED vars
  <2>1. pc' = pc /\ frame' = frame
    BY <1>3 DEF GhdTimeout, DeviceInterrupt, Expire, vars
  <2>. QED
    BY <1>3, <2>1, SoftSpares, SparedStepping
<1>. QED
  BY <1>1, <1>2, <1>3 DEF Next

-----------------------------------------------------------------------------
(* GHD has no request at first.                                            *)
LEMMA InitQueueInv ==
  Init => QueueInv
<1>. SUFFICES ASSUME Init PROVE QueueInv
  OBVIOUS
<1>1. IInv
  BY InitIInv
<1>2. Control
  BY GhdAssumption
  DEF Init, Control, OwnerAtWork, AtPoint, Polling, Leaving, Serving, WaitqProc
<1>3. Orderly
  BY NothingRepeats DEF Init, Orderly, WaitqInv, EmptyWaitq, NoFrame
<1>4. \A t \in Threads, c \in Cmds : ~HasInHand(t, c)
  BY DEF Init, HasInHand, Polled
<1>5. ASSUME NEW c \in Cmds PROVE Tracked(c)
  <2>1. /\ ~IsWaiting(c) /\ ~IsPopped(c) /\ ~IsActive(c) /\ ~OnDoneq(c) /\ ~OnHold(c)
        /\ ~InHand(c) /\ ~Handled(c)
    <3>1. Dev[c] \in Devs
      BY WaitqAssumption
    <3>. QED
      BY <1>4, <3>1, NothingRepeats, GhdAssumption
      DEF Init, IsWaiting, Waits, IsPopped, Popped, IsActive, OnDoneq, OnHold, InHand,
          Handled, EmptyWaitq, NoFrame
  <2>. QED
    BY <2>1 DEF Tracked, OnePlace, StateTells, TimerTells, Init
<1>6. \A t \in Threads : Stepping(t)
  BY DEF Init, Stepping
<1>. QED
  BY <1>1, <1>2, <1>3, <1>4, <1>5, <1>6 DEF QueueInv, AllTracked, OneHand

(* Which program points go together, where each request is, and what its   *)
(* state, its level and its timer tell of that, in every state.            *)
THEOREM QueueInvAlways ==
  Spec => []QueueInv
<1>1. Init => QueueInv
  BY InitQueueInv
<1>2. QueueInv /\ [Next]_vars /\ IInv' => QueueInv'
  <2>. SUFFICES ASSUME QueueInv, [Next]_vars, IInv' PROVE QueueInv'
    OBVIOUS
  <2>1. Control'
    BY ControlStep DEF QueueInv
  <2>2. AllTracked'
    BY TrackedStep
  <2>3. \A t \in Threads : Stepping(t)'
    BY SteppingStep
  <2>. QED
    BY <2>1, <2>2, <2>3 DEF QueueInv
<1>. QED
  BY <1>1, <1>2, IInvAlways, PTL DEF Spec

-----------------------------------------------------------------------------
(* What follows for the properties of module Ghd.                          *)

(* The wait queues hold the requests that wait, nobody else.               *)
LEMMA PendingIs ==
  ASSUME QueueInv, NEW c \in Cmds
  PROVE  /\ c \in Waiting <=> IsWaiting(c)
         /\ c \in InFlight <=> IsPopped(c) \/ IsActive(c)
         /\ c \in Pending <=> IsWaiting(c) \/ IsPopped(c) \/ IsActive(c)
<1>1. c \in Waiting <=> IsWaiting(c)
  <2>1. Dev[c] \in Devs
    BY WaitqAssumption
  <2>2. \A d \in Devs : c \in Elems(wq.devq[d]) => Dev[c] = d
    BY DEF QueueInv, AllTracked, Orderly, WaitqInv
  <2>. QED
    BY <2>1, <2>2 DEF Waiting, IsWaiting, Waits
<1>2. c \in InFlight <=> IsPopped(c) \/ IsActive(c)
  BY GhdAssumption DEF InFlight, IsPopped, IsActive
<1>. QED
  BY <1>1, <1>2 DEF Pending

(* A request is watched by the timer from its queueing to its completion,  *)
(* and not after (GHD_TIMER_START, GHD_TIMER_STOP, ghd_timer_newstate).    *)
THEOREM TimersAlwaysExact ==
  Spec => []TimersExact
<1>1. QueueInv => TimersExact
  <2>. SUFFICES ASSUME QueueInv, NEW c \in Cmds
                PROVE  timer[c] # "off" <=>
                         /\ c \in Pending
                         /\ ~(hba # NoThread /\ pc[hba] = "ns" /\ frame.run = c)
    BY DEF TimersExact
  <2>1. TimerTells(c)
    BY DEF QueueInv, AllTracked, Tracked
  <2>. QED
    BY <2>1, PendingIs DEF TimerTells, Handled
<1>. QED
  BY <1>1, QueueInvAlways, PTL

(* A bus reset that is tried for a request finds it active, and completes  *)
(* it and no other.                                                        *)
THEOREM ResetAlwaysHits ==
  Spec => []ResetHitsItsRequest
<1>1. QueueInv => ResetHitsItsRequest
  BY DEF QueueInv, Stepping, EarlyActions, ResetHitsItsRequest, IsActive
<1>. QED
  BY <1>1, QueueInvAlways, PTL

(* How often a request is in a queue without repetitions.                  *)
LEMMA CountOf ==
  ASSUME NEW s \in Seq(Cmds), NoRepeat(s), NEW c \in Cmds
  PROVE  Count(s, c) = IF c \in Elems(s) THEN 1 ELSE 0
<1>. DEFINE at == {i \in DOMAIN s : s[i] = c}
<1>1. CASE c \in Elems(s)
  <2>1. PICK k \in DOMAIN s : s[k] = c
    BY <1>1 DEF Elems
  <2>2. at = {k}
    BY <2>1 DEF NoRepeat
  <2>. QED
    BY <1>1, <2>2, FS_Singleton DEF Count
<1>2. CASE c \notin Elems(s)
  <2>1. at = {}
    BY <1>2 DEF Elems
  <2>. QED
    BY <1>2, <2>1, FS_EmptySet DEF Count
<1>. QED
  BY <1>1, <1>2

(* GHD neither loses a request nor completes it twice: one handed to it is *)
(* in exactly one place until it is given back.                            *)
THEOREM AlwaysExactlyOnce ==
  Spec => []ExactlyOnce
<1>1. QueueInv => ExactlyOnce
  <2>. SUFFICES ASSUME QueueInv, NEW c \in Cmds
                PROVE  Places(c) = IF c \in owned THEN 1 ELSE 0
    BY DEF ExactlyOnce
  <2>1. OnePlace(c) /\ Dev[c] \in Devs
    BY WaitqAssumption DEF QueueInv, AllTracked, Tracked
  <2>2. /\ wq.hbaq \in Seq(Cmds) /\ NoRepeat(wq.hbaq)
        /\ wq.devq[Dev[c]] \in Seq(Cmds) /\ NoRepeat(wq.devq[Dev[c]])
        /\ doneq \in Seq(Cmds) /\ NoRepeat(doneq)
        /\ frame.hold \in Seq(Cmds) /\ NoRepeat(frame.hold)
    BY <2>1, FrameFields
    DEF QueueInv, IInv, TypeOK, WaitqStates, AllTracked, Orderly, WaitqInv
  <2>3. ~(c \in Elems(wq.hbaq) /\ c \in Elems(wq.devq[Dev[c]]))
    BY <2>1 DEF QueueInv, AllTracked, Orderly, WaitqInv
  <2>4. /\ Count(wq.hbaq, c) = IF c \in Elems(wq.hbaq) THEN 1 ELSE 0
        /\ Count(wq.devq[Dev[c]], c) = IF c \in Elems(wq.devq[Dev[c]]) THEN 1 ELSE 0
        /\ Count(doneq, c) = IF OnDoneq(c) THEN 1 ELSE 0
        /\ Count(frame.hold, c) = IF OnHold(c) THEN 1 ELSE 0
    BY <2>2, CountOf DEF OnDoneq, OnHold
  <2>5. Count(wq.hbaq, c) + Count(wq.devq[Dev[c]], c) = IF IsWaiting(c) THEN 1 ELSE 0
    BY <2>3, <2>4 DEF IsWaiting, Waits
  <2>6. Cardinality({x \in InFlight : x = c}) = IF IsPopped(c) \/ IsActive(c) THEN 1 ELSE 0
    <3>1. CASE c \in InFlight
      <4>1. {x \in InFlight : x = c} = {c}
        BY <3>1
      <4>. QED
        BY <3>1, <4>1, PendingIs, FS_Singleton
    <3>2. CASE c \notin InFlight
      <4>1. {x \in InFlight : x = c} = {}
        BY <3>2
      <4>. QED
        BY <3>2, <4>1, PendingIs, FS_EmptySet
    <3>. QED
      BY <3>1, <3>2
  <2>7. Cardinality({t \in Threads : HasInHand(t, c)}) = IF InHand(c) THEN 1 ELSE 0
    <3>1. CASE InHand(c)
      <4>1. PICK t \in Threads : HasInHand(t, c)
        BY <3>1 DEF InHand
      <4>2. {u \in Threads : HasInHand(u, c)} = {t}
        BY <4>1 DEF QueueInv, AllTracked, OneHand
      <4>. QED
        BY <3>1, <4>2, FS_Singleton
    <3>2. CASE ~InHand(c)
      <4>1. {u \in Threads : HasInHand(u, c)} = {}
        BY <3>2 DEF InHand
      <4>. QED
        BY <3>2, <4>1, FS_EmptySet
    <3>. QED
      BY <3>1, <3>2
  <2>8. Places(c) = (IF IsWaiting(c) THEN 1 ELSE 0) + (IF OnDoneq(c) THEN 1 ELSE 0)
                      + (IF OnHold(c) THEN 1 ELSE 0)
                      + (IF IsPopped(c) \/ IsActive(c) THEN 1 ELSE 0)
                      + (IF InHand(c) THEN 1 ELSE 0)
    BY <2>4, <2>5, <2>6, <2>7 DEF Places
  <2>. QED
    BY <2>1, <2>8 DEF OnePlace
<1>. QED
  BY <1>1, QueueInvAlways, PTL

(* Every state has its place in the ladder's order, and those of requests  *)
(* that are not started come before all of its rungs.                      *)
LEMMA RankType ==
  /\ \A s \in Elems(CmdStates) : Rank(s) \in Nat
  /\ \A s \in {"IDLE", "WAITQ", "DONEQ"} : Rank(s) < Rank("ABORTING_CMD")
<1>1. DOMAIN CmdStates = 1 .. 9
  BY DEF CmdStates
<1>2. \A i \in 1 .. 9 :
         i = 1 \/ i = 2 \/ i = 3 \/ i = 4 \/ i = 5 \/ i = 6 \/ i = 7 \/ i = 8 \/ i = 9
  OBVIOUS
<1>3. /\ CmdStates[1] = "IDLE" /\ CmdStates[2] = "WAITQ" /\ CmdStates[3] = "ACTIVE"
      /\ CmdStates[4] = "DONEQ" /\ CmdStates[5] = "ABORTING_CMD"
      /\ CmdStates[6] = "ABORTING_DEV" /\ CmdStates[7] = "RESETTING_DEV"
      /\ CmdStates[8] = "RESETTING_BUS" /\ CmdStates[9] = "HUNG"
  BY DEF CmdStates
<1>4. ASSUME NEW s \in Elems(CmdStates) PROVE Rank(s) \in Nat
  <2>1. PICK i \in 1 .. 9 : CmdStates[i] = s
    BY <1>1 DEF Elems
  <2>2. s \in {"IDLE", "WAITQ", "ACTIVE", "DONEQ", "ABORTING_CMD", "ABORTING_DEV",
               "RESETTING_DEV", "RESETTING_BUS", "HUNG"}
    BY <1>2, <1>3, <2>1
  <2>. QED
    BY <2>2, RankIs
<1>. QED
  BY <1>4, RankIs

(* A step changes the state of a request that is being recovered only to   *)
(* one further up, or to DONEQ.                                            *)
LEMMA EscalatesStep ==
  ASSUME QueueInv, [Next]_vars, NEW c \in Cmds, Rank(state[c]) >= Rank("ABORTING_CMD")
  PROVE  Rank(state'[c]) >= Rank(state[c]) \/ state'[c] = "DONEQ"
<1>. USE DEF calls, locks, timers, doneqs, device, ghosts, Goto
<1>1. /\ state \in [Cmds -> Elems(CmdStates)] /\ Rank(state[c]) \in Nat
      /\ state[c] \notin {"IDLE", "WAITQ", "DONEQ"}
  BY RankType, RankIs DEF QueueInv, IInv, TypeOK
<1>2. ~IsWaiting(c) /\ ~IsPopped(c) /\ IsActive(c) /\ ~InHand(c) /\ ~OnDoneq(c)
  <2>1. StateTells(c) /\ OnePlace(c)
    BY DEF QueueInv, AllTracked, Tracked
  <2>. QED
    BY <1>1, <2>1 DEF StateTells, OnePlace
<1>3. state'[c] = state[c] => Rank(state'[c]) >= Rank(state[c])
  BY <1>1
<1>4. ASSUME NEW t \in Threads, TransportEnqueue(t) PROVE state'[c] = state[c]
  <2>1. HasInHand(t, cmd[t])
    BY <1>4 DEF TransportEnqueue, QueueInv, IInv, Pointers, Control, AtPoint, HasInHand
  <2>2. cmd[t] # c
    BY <1>2, <2>1 DEF InHand
  <2>. QED
    BY <1>1, <1>4, <2>2 DEF TransportEnqueue
<1>5. ASSUME NEW t \in Threads, HbaAccepts(t) \/ HbaRefuses(t) PROVE state'[c] = state[c]
  <2>1. pc[t] = "wq_start" /\ hba = t /\ t # NoThread
    BY <1>5, GhdAssumption DEF HbaAccepts, HbaRefuses, QueueInv, IInv, Owners, HbaLabels
  <2>2. frame.run # c
    BY <1>2, <2>1 DEF IsPopped, Popped
  <2>. QED
    BY <1>1, <1>5, <2>2 DEF HbaAccepts, HbaRefuses
<1>6. ASSUME NEW x, Complete(x) PROVE state'[c] \in {state[c], "DONEQ"}
  BY <1>1, <1>6 DEF Complete
<1>7. ASSUME NEW t \in Threads,
             HbaFinishesAtOnce(t) \/ IntrComplete(t) \/ NewstateEarly(t) \/ NewstateReset(t)
      PROVE  state'[c] \in {state[c], "DONEQ"}
  BY <1>6, <1>7, ResetCompletes
  DEF HbaFinishesAtOnce, IntrComplete, CompleteActive, NewstateEarly
<1>8. ASSUME NEW t \in Threads, PollDrain(t) \/ PollPut(t)
      PROVE  state'[c] \in {state[c], "DONEQ"}
  <2>1. c \notin Elems(doneq)
    BY <1>2 DEF OnDoneq
  <2>. QED
    BY <1>1, <1>8, <2>1 DEF PollDrain, PollPut
<1>9. ASSUME NEW t \in Threads, NewstateCannot(t) \/ NewstateHung(t)
      PROVE  Rank(state'[c]) >= Rank(state[c])
  <2>1. /\ pc[t] = "ns" /\ frame.act \in Actions \ EarlyActions
        /\ state' = IF frame.run = NoCmd THEN state
                    ELSE [state EXCEPT ![frame.run] = NextState[frame.act]]
    BY <1>9 DEF NewstateCannot, NewstateHung, Actions, EarlyActions
  <2>2. CASE frame.run = c
    <3>1. Rank(state[c]) <= Rank(NextState[frame.act]) /\ c # NoCmd
      BY <2>1, <2>2, GhdAssumption DEF QueueInv, Stepping
    <3>2. Rank(NextState[frame.act]) \in Nat
      BY <2>1, RankIs DEF NextState, Actions, EarlyActions
    <3>3. state'[c] = NextState[frame.act]
      BY <1>1, <2>1, <2>2, <3>1
    <3>. QED
      BY <1>1, <3>1, <3>2, <3>3
  <2>3. CASE frame.run # c
    <3>1. state'[c] = state[c]
      BY <1>1, <2>1, <2>3
    <3>. QED
      BY <1>3, <3>1
  <2>. QED
    BY <2>2, <2>3
<1>10. ASSUME DoneqCall PROVE state'[c] = state[c]
  <2>1. HasInHand(DoneqSoft, cmd[DoneqSoft])
    BY <1>10 DEF DoneqCall, HasInHand
  <2>2. cmd[DoneqSoft] # c
    BY <1>2, <2>1, SoftThreads DEF InHand
  <2>. QED
    BY <1>1, <1>10, <2>2 DEF DoneqCall
<1>11. CASE UNCHANGED state
  BY <1>3, <1>11
<1>12. ASSUME NEW t \in Threads, Call(t) \/ Step(t)
       PROVE  Rank(state'[c]) >= Rank(state[c]) \/ state'[c] = "DONEQ"
  <2>1. CASE Call(t) \/ EnterPolled(t) \/ EnterAbort(t) \/ EnterReset(t)
               \/ TransportTryFails(t) \/ TransportTryOk(t) \/ WaitqDone(t) \/ WaitqPop(t)
               \/ WaitqRequeue(t) \/ ReleaseHba(t) \/ ReleaseWaitq(t)
    BY <1>11, <2>1
    DEF Call, Transport, Abort, Reset, EnterPolled, EnterAbort, EnterReset, Enter,
        TransportTryFails, TransportTryOk, WaitqDone, WaitqPop, WaitqRequeue, ReleaseHba,
        ReleaseWaitq
  <2>2. CASE IntrPhase(t) \/ IntrNone(t) \/ PollGiveUp(t) \/ PollmodeExit(t)
               \/ PollmodeTrigger(t) \/ Finish(t) \/ TimerNone(t) \/ TimerGet(t)
    BY <1>11, <2>2
    DEF IntrPhase, IntrNone, PollGiveUp, PollmodeExit, PollmodeTrigger, Finish, TimerNone,
        TimerGet
  <2>. QED
    BY <1>3, <1>4, <1>5, <1>7, <1>8, <1>9, <1>12, <2>1, <2>2 DEF Step
<1>13. CASE SoftStep \/ IntrEnter \/ GhdTimeout \/ DeviceInterrupt
              \/ (\E x \in Cmds : Expire(x)) \/ UNCHANGED vars
  BY <1>3, <1>10, <1>11, <1>13
  DEF SoftStep, IntrReturn, DoneqBegin, DoneqGet, TimerBegin, TimerEnter, IntrEnter,
      GhdTimeout, DeviceInterrupt, Expire, vars
<1>. QED
  BY <1>12, <1>13 DEF Next

(* Recovery only escalates: a request being aborted climbs the ladder of   *)
(* sol11ghd_timer_newstate until it is done, whoever steps it.             *)
THEOREM RecoveryEscalates ==
  Spec => Escalates
<1>1. QueueInv /\ [Next]_vars =>
        [ \A c \in Cmds : Rank(state[c]) >= Rank("ABORTING_CMD")
            => Rank(state'[c]) >= Rank(state[c]) \/ state'[c] = "DONEQ" ]_vars
  BY EscalatesStep
<1>. QED
  BY <1>1, QueueInvAlways, PTL DEF Spec, Escalates

(* Only a poll sets completions aside, and it is in poll mode meanwhile.   *)
LEMMA HoldInPollmode ==
  QueueInv => (frame.hold # <<>> => pollmode)
<1>. SUFFICES ASSUME QueueInv, frame.hold # <<>> PROVE pollmode
  OBVIOUS
<1>1. frame # NoFrame
  BY DEF NoFrame
<1>2. /\ hba \in Threads
      /\ pc[hba] \in HbaLabels \/ (pc[hba] = "tr_enq" /\ op[hba] \in Polled)
  BY <1>1 DEF QueueInv, IInv, TypeOK, Control, OwnerAtWork
<1>3. AtPoint(hba)
  BY <1>2 DEF QueueInv, Control
<1>4. ~(pc[hba] = "tr_enq" /\ op[hba] \in Polled)
  BY <1>1, <1>3 DEF AtPoint
<1>5. ~Leaving(hba) /\ ~Serving(hba) /\ pc[hba] # "pm_exit"
  BY <1>3 DEF AtPoint
<1>6. Polling(hba) \/ pc[hba] = "po_put"
  BY <1>2, <1>4, <1>5, FrameFields
  DEF QueueInv, IInv, HbaLabels, Polling, Leaving, Serving, WaitqProc
<1>. QED
  BY <1>3, <1>6 DEF AtPoint

(* Who comes for the completions.                                          *)
Coming ==
  \/ doneqSoft \/ pollmode
  \/ pc[DoneqSoft] \in {"dq_get", "dq_call"}
  \/ \E t \in Clients : pc[t] = "pm_trig"

(* A step of another thread leaves the softintr and the others where they  *)
(* are,                                                                    *)
LEMMA StillComing ==
  ASSUME Coming, NEW t \in Threads, Local(t), pc[t] \notin {"pm_trig", "dq_get", "dq_call"},
         doneqSoft => doneqSoft', pollmode => pollmode'
  PROVE  Coming'
<1>1. \A u \in Threads : pc[u] \in {"pm_trig", "dq_get", "dq_call"} => pc'[u] = pc[u]
  BY DEF Local
<1>. QED
  BY <1>1, SoftThreads DEF Coming, Threads

(* and whoever stops coming has seen to it that another does.              *)
LEMMA ComingStep ==
  ASSUME QueueInv, doneq # <<>> => Coming, [Next]_vars
  PROVE  (doneq # <<>> => Coming)'
<1>. USE DEF calls, locks, timers, doneqs, device, ghosts, Goto
<1>1. ASSUME NEW t \in Threads, Local(t), pc[t] \notin {"pm_trig", "dq_get", "dq_call"},
             doneq' # <<>> => doneq # <<>>, doneqSoft => doneqSoft', pollmode => pollmode'
      PROVE  (doneq # <<>> => Coming)'
  BY <1>1, StillComing
<1>2. ASSUME NEW x, Complete(x)
      PROVE  (doneq # <<>> => Coming)'
  BY <1>2 DEF Complete, Coming
<1>3. ASSUME NEW t \in Threads, Call(t) \/ Step(t)
      PROVE  (doneq # <<>> => Coming)'
  <2>1. Local(t)
    BY <1>3, LocalSteps DEF QueueInv
  <2>2. CASE Call(t) \/ TransportEnqueue(t) \/ TransportTryFails(t) \/ TransportTryOk(t)
               \/ WaitqDone(t) \/ WaitqPop(t) \/ HbaAccepts(t) \/ HbaRefuses(t)
               \/ WaitqRequeue(t) \/ ReleaseHba(t) \/ ReleaseWaitq(t)
    <3>1. UNCHANGED doneqs /\ pc[t] \notin {"pm_trig", "dq_get", "dq_call"}
      BY <2>2 DEF Call, Transport, Abort, Reset, TransportEnqueue, TransportTryFails,
           TransportTryOk, WaitqDone, WaitqPop, HbaAccepts, HbaRefuses, WaitqRequeue,
           ReleaseHba, ReleaseWaitq
    <3>. QED
      BY <1>1, <2>1, <3>1
  <2>3. CASE EnterPolled(t) \/ EnterAbort(t) \/ EnterReset(t)
    <3>1. /\ doneq' = doneq /\ doneqSoft' = doneqSoft /\ pollmode'
          /\ pc[t] \notin {"pm_trig", "dq_get", "dq_call"}
      BY <2>3 DEF EnterPolled, EnterAbort, EnterReset, Enter
    <3>. QED
      BY <1>1, <2>1, <3>1
  <2>4. CASE IntrPhase(t) \/ IntrNone(t) \/ PollGiveUp(t) \/ Finish(t) \/ TimerNone(t)
               \/ TimerGet(t) \/ NewstateCannot(t) \/ NewstateHung(t)
    <3>1. UNCHANGED doneqs /\ pc[t] \notin {"pm_trig", "dq_get", "dq_call"}
      BY <2>4 DEF IntrPhase, StatusProcessed, IntrNone, PollGiveUp, Finish, TimerNone,
           TimerGet, NewstateCannot, NewstateHung
    <3>. QED
      BY <1>1, <2>1, <3>1
  <2>5. CASE PollDrain(t)
    BY <2>5 DEF PollDrain
  <2>6. CASE PollPut(t)
    <3>1. pollmode
      BY <2>6 DEF PollPut, QueueInv, Control, AtPoint
    <3>. QED
      BY <2>6, <3>1 DEF PollPut, Coming
  <2>7. CASE PollmodeExit(t)
    <3>1. op[t] # "none"
      BY <2>7 DEF PollmodeExit, QueueInv, Control, AtPoint, PollOps, AllOps, Polled,
                  FirstAction
    <3>2. t \in Clients /\ pc'[t] = "pm_trig"
      BY <2>7, <3>1 DEF PollmodeExit, QueueInv, IInv, TypeOK, Pointers
    <3>. QED
      BY <3>2 DEF Coming
  <2>8. CASE PollmodeTrigger(t)
    BY <2>8 DEF PollmodeTrigger, Coming
  <2>9. CASE HbaFinishesAtOnce(t) \/ IntrComplete(t) \/ NewstateEarly(t) \/ NewstateReset(t)
    BY <1>2, <2>9, ResetCompletes
    DEF HbaFinishesAtOnce, IntrComplete, CompleteActive, NewstateEarly
  <2>. QED
    BY <1>3, <2>2, <2>3, <2>4, <2>5, <2>6, <2>7, <2>8, <2>9 DEF Step
<1>4. CASE SoftStep \/ IntrEnter
  <2>1. CASE DoneqBegin
    BY <2>1, SoftThreads DEF DoneqBegin, Coming, QueueInv, IInv, TypeOK
  <2>2. CASE DoneqGet
    BY <2>2, SoftThreads DEF DoneqGet, Coming, QueueInv, IInv, TypeOK
  <2>3. CASE DoneqCall
    BY <2>3, SoftThreads DEF DoneqCall, Coming, QueueInv, IInv, TypeOK
  <2>4. CASE IntrReturn \/ IntrEnter
    <3>1. UNCHANGED doneqs /\ pc[Intr] \notin {"pm_trig", "dq_get", "dq_call"}
      BY <2>4 DEF IntrReturn, IntrEnter
    <3>. QED
      BY <1>1, <2>4, <3>1, LocalSteps, SoftThreads DEF QueueInv
  <2>5. CASE TimerBegin \/ TimerEnter
    <3>1. UNCHANGED doneqs /\ pc[TimerSoft] \notin {"pm_trig", "dq_get", "dq_call"}
      BY <2>5 DEF TimerBegin, TimerEnter
    <3>. QED
      BY <1>1, <2>5, <3>1, LocalSteps, SoftThreads DEF QueueInv
  <2>. QED
    BY <1>4, <2>1, <2>2, <2>3, <2>4, <2>5 DEF SoftStep
<1>5. CASE GhdTimeout \/ DeviceInterrupt \/ (\E c \in Cmds : Expire(c)) \/ UNCHANGED vars
  BY <1>5 DEF GhdTimeout, DeviceInterrupt, Expire, vars, Coming
<1>. QED
  BY <1>3, <1>4, <1>5 DEF Next

(* A completed request has somebody coming for it: no wakeup of the        *)
(* softintr is lost between a poll that ends and ghd_doneq_process.        *)
THEOREM DoneqAlwaysAttended ==
  Spec => []DoneqAttended
<1>. DEFINE Attended == doneq # <<>> => Coming
<1>1. Init => Attended
  BY DEF Init
<1>2. QueueInv /\ Attended /\ [Next]_vars => Attended'
  BY ComingStep
<1>. HIDE DEF Attended
<1>3. Spec => []Attended
  BY <1>1, <1>2, QueueInvAlways, PTL DEF Spec
<1>4. QueueInv /\ Attended => DoneqAttended
  BY HoldInPollmode DEF Attended, Coming, DoneqAttended
<1>. QED
  BY <1>3, <1>4, QueueInvAlways, PTL

-----------------------------------------------------------------------------
(* The throttles.                                                          *)

(* A queue without repetitions is as long as it has elements.              *)
LEMMA LengthCounts ==
  ASSUME NEW S, NEW s \in Seq(S), NoRepeat(s)
  PROVE  IsFiniteSet(Elems(s)) /\ Cardinality(Elems(s)) = Len(s)
<1>1. Len(s) \in Nat /\ DOMAIN s = 1 .. Len(s)
  OBVIOUS
<1>2. s \in [1 .. Len(s) -> Elems(s)]
  BY <1>1 DEF Elems
<1>3. s \in Bijection(1 .. Len(s), Elems(s))
  BY <1>1, <1>2 DEF Bijection, Injection, Surjection, IsInjective, NoRepeat, Elems
<1>4. ExistsBijection(1 .. Len(s), Elems(s))
  BY <1>3 DEF ExistsBijection
<1>5. Cardinality(Elems(s)) = Len(s)
  BY <1>1, <1>4, FS_CountingElements
<1>6. IsFiniteSet(Elems(s))
  BY <1>1, <1>4, FS_NatBijection
<1>. QED
  BY <1>5, <1>6

(* The requests a device's throttle has released: on the adapter's queue,  *)
(* or among those (F) in flight.                                           *)
InUse(q, F, d) == {c \in Elems(q.hbaq) \cup F : Dev[c] = d}
Counters(q, F) ==
  /\ q.hbaActive = Cardinality(F)
  /\ \A d \in Devs : q.devActive[d] = Cardinality(InUse(q, F, d))
Filled(q, d) == q.devq[d] # <<>> => Room(q, d) = 0

(* They are finitely many.                                                 *)
LEMMA InUseFinite ==
  ASSUME NEW q \in WaitqStates, NEW d \in Devs, WaitqInv(q), NEW F, IsFiniteSet(F)
  PROVE  IsFiniteSet(InUse(q, F, d)) /\ Cardinality(InUse(q, F, d)) \in Nat
<1>1. IsFiniteSet(Elems(q.hbaq) \cup F)
  BY LengthCounts, FS_Union DEF WaitqStates, WaitqInv
<1>2. InUse(q, F, d) \in SUBSET (Elems(q.hbaq) \cup F)
  BY DEF InUse
<1>3. IsFiniteSet(InUse(q, F, d))
  BY <1>1, <1>2, FS_Subset
<1>. QED
  BY <1>3, FS_CardinalityType

(* The promotion loop counts what it moves, and goes on while the device   *)
(* has room.                                                               *)
LEMMA ShuffleUpCounts ==
  ASSUME NEW q \in WaitqStates, NEW d \in Devs, WaitqInv(q),
         NEW F \in SUBSET Cmds, IsFiniteSet(F), \A c \in F : ~Waits(q, c),
         Counters(q, F), \A e \in Devs \ {d} : Filled(q, e)
  PROVE  Counters(ShuffleUp(q, d), F) /\ \A e \in Devs : Filled(ShuffleUp(q, d), e)
<1>. DEFINE r == ShuffleUp(q, d)
<1>1. /\ NoRepeat(q.devq[d]) /\ q.devq[d] \in Seq(Cmds) /\ q.hbaq \in Seq(Cmds)
      /\ q.devq \in [Devs -> Seq(Cmds)] /\ q.devActive \in [Devs -> Int]
  BY DEF WaitqStates, WaitqInv
<1>2. PICK up, rest \in Seq(Cmds) :
           /\ NoRepeat(up) /\ NoRepeat(rest)
           /\ Elems(q.devq[d]) = Elems(up) \cup Elems(rest)
           /\ Elems(up) \cap Elems(rest) = {}
           /\ rest # <<>> => Len(up) = Room(q, d)
           /\ Len(up) <= Room(q, d)
           /\ r.devq = [q.devq EXCEPT ![d] = rest]
           /\ r.hbaq = q.hbaq \o up
           /\ r.hbaActive = q.hbaActive
           /\ r.devActive = [q.devActive EXCEPT ![d] = @ + Len(up)]
           /\ r.level = [c \in Cmds |-> IF c \in Elems(up) THEN q.level[c] + 1
                                                          ELSE q.level[c]]
  BY <1>1, ShuffleUpMoves
<1>. HIDE DEF r
<1>3. /\ r.devq[d] = rest /\ r.devActive[d] = q.devActive[d] + Len(up)
      /\ \A e \in Devs \ {d} : r.devq[e] = q.devq[e] /\ r.devActive[e] = q.devActive[e]
  BY <1>1, <1>2
<1>4. Elems(r.hbaq) = Elems(q.hbaq) \cup Elems(up)
  BY <1>1, <1>2, ConcatElems
<1>5. /\ \A c \in Elems(up) : /\ c \in Cmds /\ Dev[c] = d /\ q.level[c] = 1
                              /\ c \notin Elems(q.hbaq) /\ c \notin F
  <2>1. ASSUME NEW c \in Elems(up)
        PROVE  c \in Cmds /\ Dev[c] = d /\ q.level[c] = 1 /\ c \in Elems(q.devq[d])
    BY <1>2, ElemsIs DEF WaitqInv
  <2>. QED
    BY <2>1 DEF WaitqInv, Waits
<1>6. IsFiniteSet(Elems(up)) /\ Cardinality(Elems(up)) = Len(up) /\ Len(up) \in Nat
  BY <1>2, LengthCounts, ElemsIs
<1>7. r.devActive[d] = Cardinality(InUse(r, F, d))
  <2>1. InUse(r, F, d) = InUse(q, F, d) \cup Elems(up)
    BY <1>4, <1>5 DEF InUse
  <2>2. InUse(q, F, d) \cap Elems(up) = {}
    BY <1>5 DEF InUse
  <2>3. IsFiniteSet(InUse(q, F, d)) /\ Cardinality(InUse(q, F, d)) \in Nat
    BY InUseFinite
  <2>. DEFINE a == InUse(q, F, d)
              b == Elems(up)
  <2>. HIDE DEF a, b
  <2>4. Cardinality(a \cup b) = Cardinality(a) + Cardinality(b) - Cardinality(a \cap b)
    BY <1>6, <2>3, FS_Union DEF a, b
  <2>5. Cardinality(a \cap b) = 0
    BY <2>2, FS_EmptySet DEF a, b
  <2>6. q.devActive[d] = Cardinality(a)
    BY DEF Counters, a
  <2>. QED
    BY <1>3, <1>6, <2>1, <2>3, <2>4, <2>5, <2>6 DEF a, b
<1>8. ASSUME NEW e \in Devs, e # d PROVE r.devActive[e] = Cardinality(InUse(r, F, e))
  <2>1. InUse(r, F, e) = InUse(q, F, e)
    BY <1>4, <1>5, <1>8 DEF InUse
  <2>. QED
    BY <1>3, <1>8, <2>1 DEF Counters
<1>9. Counters(r, F)
  BY <1>2, <1>7, <1>8 DEF Counters
<1>10. Filled(r, d)
  <2>. SUFFICES ASSUME rest # <<>> PROVE Room(r, d) = 0
    BY <1>3 DEF Filled
  <2>1. r.devActive[d] = q.devActive[d] + Room(q, d)
    BY <1>2, <1>3
  <2>2. q.devActive[d] \in Nat
    BY InUseFinite DEF Counters
  <2>3. DevMax[d] \in Nat /\ DevMax[d] > 0 /\ NInst[d] \in Nat
    BY WaitqAssumption
  <2>. QED
    BY <2>1, <2>2, <2>3 DEF Room
<1>11. ASSUME NEW e \in Devs, e # d PROVE Filled(r, e)
  BY <1>3, <1>11 DEF Filled, Room
<1>. QED
  BY <1>9, <1>10, <1>11 DEF r

(* A new request is counted when it is promoted,                           *)
LEMMA EnqueueCounts ==
  ASSUME NEW q \in WaitqStates, NEW c \in Cmds, WaitqInv(q), ~Waits(q, c),
         NEW F \in SUBSET Cmds, IsFiniteSet(F), c \notin F, \A x \in F : ~Waits(q, x),
         Counters(q, F), \A e \in Devs : Filled(q, e)
  PROVE  Counters(Enqueue(q, c), F) /\ \A e \in Devs : Filled(Enqueue(q, c), e)
<1>. DEFINE d == Dev[c]
            r == Joined(q, c)
<1>1. d \in Devs /\ q.devq[d] \in Seq(Cmds) /\ q.devq \in [Devs -> Seq(Cmds)]
  BY WaitqAssumption DEF WaitqStates
<1>2. /\ r \in WaitqStates /\ WaitqInv(r)
      /\ \A x \in Cmds : Waits(r, x) <=> Waits(q, x) \/ x = c
  BY JoinedWaits
<1>3. Enqueue(q, c) = ShuffleUp(r, d)
  BY DEF Enqueue, Joined
<1>4. /\ r.devq = [q.devq EXCEPT ![d] = Append(q.devq[d], c)]
      /\ r.hbaq = q.hbaq /\ r.devActive = q.devActive /\ r.hbaActive = q.hbaActive
  BY JoinedWaits
<1>. HIDE DEF r
<1>5. Counters(r, F)
  BY <1>4 DEF Counters, InUse
<1>6. ASSUME NEW e \in Devs \ {d} PROVE Filled(r, e)
  <2>1. r.devq[e] = q.devq[e] /\ Room(r, e) = Room(q, e)
    BY <1>1, <1>4 DEF Room
  <2>. QED
    BY <2>1 DEF Filled
<1>. HIDE DEF d
<1>. QED
  BY <1>1, <1>2, <1>3, <1>5, <1>6, ShuffleUpCounts

(* A request that leaves gives back what it holds: its level tells whether *)
(* the device's throttle counts it (2, 3) and the adapter's (3).           *)
LEMMA DeleteCounts ==
  ASSUME NEW q \in WaitqStates, NEW c \in Cmds, WaitqInv(q),
         NEW F \in SUBSET Cmds, IsFiniteSet(F), \A x \in F : ~Waits(q, x),
         Waits(q, c) \/ (c \in F /\ q.level[c] = 3),
         Counters(q, F), \A e \in Devs : Filled(q, e)
  PROVE  /\ Counters(WaitqDelete(q, c), F \ {c})
         /\ \A e \in Devs : Filled(WaitqDelete(q, c), e)
<1>. DEFINE d == Dev[c]
            r == Removed(q, c)
            G == F \ {c}
<1>1. d \in Devs /\ q.devActive \in [Devs -> Int]
  BY WaitqAssumption DEF WaitqStates
<1>2. WaitqDelete(q, c) = ShuffleUp(r, d)
  BY DEF WaitqDelete, Removed
<1>3. Waits(q, c) \/ q.level[c] = 3
  OBVIOUS
<1>4. /\ r \in WaitqStates /\ WaitqInv(r)
      /\ Elems(r.hbaq) = Elems(q.hbaq) \ {c}
      /\ \A e \in Devs \ {d} : r.devq[e] = q.devq[e]
      /\ r.devActive = [q.devActive EXCEPT ![d] = IF q.level[c] \in {2, 3} THEN @ - 1 ELSE @]
      /\ r.hbaActive = IF q.level[c] = 3 THEN q.hbaActive - 1 ELSE q.hbaActive
      /\ \A x \in Cmds : Waits(r, x) <=> Waits(q, x) /\ x # c
  BY <1>3, RemovedWaits
<1>. HIDE DEF r
<1>5. /\ c \in F <=> q.level[c] = 3
      /\ c \in Elems(q.hbaq) => q.level[c] = 2
      /\ q.level[c] = 2 => c \in Elems(q.hbaq)
  BY <1>1 DEF WaitqInv, Waits
<1>6. G \in SUBSET Cmds /\ IsFiniteSet(G) /\ \A x \in G : ~Waits(r, x)
  BY <1>4, FS_RemoveElement
<1>7. r.hbaActive = Cardinality(G)
  <2>1. CASE c \in F
    <3>1. Cardinality(G) = Cardinality(F) - 1
      BY <2>1, FS_RemoveElement
    <3>2. r.hbaActive = q.hbaActive - 1 /\ q.hbaActive = Cardinality(F)
      BY <2>1, <1>4, <1>5 DEF Counters
    <3>. QED
      BY <3>1, <3>2
  <2>2. CASE c \notin F
    <3>1. G = F
      BY <2>2
    <3>. QED
      BY <2>2, <3>1, <1>4, <1>5 DEF Counters
  <2>. QED
    BY <2>1, <2>2
<1>8. ASSUME NEW e \in Devs PROVE InUse(r, G, e) = InUse(q, F, e) \ {c}
  BY <1>4 DEF InUse
<1>9. r.devActive[d] = Cardinality(InUse(r, G, d))
  <2>1. IsFiniteSet(InUse(q, F, d)) /\ q.devActive[d] = Cardinality(InUse(q, F, d))
    BY <1>1, InUseFinite DEF Counters
  <2>2. c \in InUse(q, F, d) <=> q.level[c] \in {2, 3}
    BY <1>5 DEF InUse
  <2>3. CASE q.level[c] \in {2, 3}
    <3>. DEFINE U == InUse(q, F, d)
    <3>1. Cardinality(InUse(q, F, d) \ {c}) = Cardinality(InUse(q, F, d)) - 1
      <4>1. IsFiniteSet(U) /\ c \in U
        BY <2>1, <2>2, <2>3
      <4>. HIDE DEF U
      <4>2. Cardinality(U \ {c}) = Cardinality(U) - 1
        BY <4>1, FS_RemoveElement
      <4>. QED
        BY <4>2 DEF U
    <3>2. r.devActive[d] = q.devActive[d] - 1
      BY <1>1, <1>4, <2>3
    <3>. QED
      BY <1>1, <1>8, <2>1, <3>1, <3>2
  <2>4. CASE q.level[c] \notin {2, 3}
    <3>1. InUse(q, F, d) \ {c} = InUse(q, F, d)
      BY <2>2, <2>4
    <3>2. r.devActive[d] = q.devActive[d]
      BY <1>1, <1>4, <2>4
    <3>. QED
      BY <1>1, <1>8, <2>1, <3>1, <3>2
  <2>. QED
    BY <2>3, <2>4
<1>10. ASSUME NEW e \in Devs, e # d
       PROVE  r.devActive[e] = q.devActive[e] /\ InUse(r, G, e) = InUse(q, F, e)
  <2>1. c \notin InUse(q, F, e)
    BY <1>10 DEF InUse
  <2>2. InUse(r, G, e) = InUse(q, F, e)
    BY <1>8, <2>1
  <2>3. r.devActive[e] = q.devActive[e]
    BY <1>1, <1>4, <1>10
  <2>. QED
    BY <2>2, <2>3
<1>11. Counters(r, G)
  BY <1>7, <1>9, <1>10 DEF Counters
<1>12. \A e \in Devs \ {d} : Filled(r, e)
  BY <1>4, <1>10 DEF Filled, Room
<1>. HIDE DEF d, G
<1>13. Counters(ShuffleUp(r, d), G) /\ \A e \in Devs : Filled(ShuffleUp(r, d), e)
  BY <1>1, <1>4, <1>6, <1>11, <1>12, ShuffleUpCounts
<1>. QED
  BY <1>2, <1>13 DEF G

(* The adapter's throttle counts the request it lets through,              *)
LEMMA PopCounts ==
  ASSUME NEW q \in WaitqStates, WaitqInv(q), CanStart(q),
         NEW F \in SUBSET Cmds, IsFiniteSet(F), \A x \in F : ~Waits(q, x),
         Counters(q, F), \A e \in Devs : Filled(q, e)
  PROVE  /\ Counters(PopHba(q), F \cup {Head(q.hbaq)})
         /\ \A e \in Devs : Filled(PopHba(q), e)
<1>. DEFINE h == Head(q.hbaq)
            r == PopHba(q)
<1>1. q.hbaq \in Seq(Cmds) /\ q.hbaq # <<>> /\ NoRepeat(q.hbaq)
  BY DEF CanStart, WaitqStates, WaitqInv
<1>2. h \in Elems(q.hbaq) /\ Elems(Tail(q.hbaq)) = Elems(q.hbaq) \ {h}
  BY <1>1, TailElems
<1>3. h \notin F
  BY <1>2 DEF Waits
<1>4. /\ r.hbaq = Tail(q.hbaq) /\ r.devq = q.devq /\ r.devActive = q.devActive
      /\ r.hbaActive = q.hbaActive + 1
  BY DEF PopHba, WaitqStates
<1>. HIDE DEF h, r
<1>5. Cardinality(F \cup {h}) = Cardinality(F) + 1
  BY <1>3, FS_AddElement
<1>6. \A d \in Devs : InUse(r, F \cup {h}, d) = InUse(q, F, d)
  BY <1>2, <1>4 DEF InUse
<1>7. Counters(r, F \cup {h})
  BY <1>4, <1>5, <1>6 DEF Counters
<1>8. \A e \in Devs : Filled(r, e)
  BY <1>4 DEF Filled, Room
<1>. QED
  BY <1>7, <1>8 DEF h, r

(* and no longer the one the HBA driver refuses; its device's still does.  *)
LEMMA RequeueCounts ==
  ASSUME NEW q \in WaitqStates, NEW c \in Cmds,
         NEW F \in SUBSET Cmds, IsFiniteSet(F), c \in F,
         Counters(q, F), \A e \in Devs : Filled(q, e)
  PROVE  /\ Counters(Requeue(q, c), F \ {c})
         /\ \A e \in Devs : Filled(Requeue(q, c), e)
<1>. DEFINE r == Requeue(q, c)
            one == <<c>>
<1>1. q.hbaq \in Seq(Cmds)
  BY DEF WaitqStates
<1>2. one \in Seq(Cmds) /\ Elems(one) = {c}
  BY SingleElem
<1>3. /\ r.hbaq = one \o q.hbaq /\ r.devq = q.devq /\ r.devActive = q.devActive
      /\ r.hbaActive = q.hbaActive - 1
  BY DEF Requeue, WaitqStates
<1>. HIDE DEF r, one
<1>4. Elems(r.hbaq) = {c} \cup Elems(q.hbaq)
  BY <1>1, <1>2, <1>3, ConcatElems
<1>5. Cardinality(F \ {c}) = Cardinality(F) - 1
  BY FS_RemoveElement
<1>6. \A d \in Devs : InUse(r, F \ {c}, d) = InUse(q, F, d)
  BY <1>4 DEF InUse
<1>7. Counters(r, F \ {c})
  BY <1>3, <1>5, <1>6 DEF Counters
<1>8. \A e \in Devs : Filled(r, e)
  BY <1>3 DEF Filled, Room
<1>. QED
  BY <1>7, <1>8 DEF r

(* Nobody else is in flight than the popped request and the active one,    *)
(* and those have left the wait queues.                                    *)
FlightTracked ==
  /\ InFlight \in SUBSET Cmds /\ IsFiniteSet(InFlight)
  /\ \A c \in Cmds : c \in InFlight <=> IsPopped(c) \/ IsActive(c)
  /\ \A c \in InFlight : ~Waits(wq, c)

(* This follows from where requests are.                                   *)
LEMMA FlightIsTracked ==
  QueueInv => FlightTracked
<1>. SUFFICES ASSUME QueueInv PROVE FlightTracked
  OBVIOUS
<1>1. Popped \in SUBSET Cmds /\ IsFiniteSet(Popped)
  <2>1. CASE hba # NoThread /\ pc[hba] \in {"wq_start", "wq_reject"}
    <3>1. Popped = {frame.run} /\ frame.run \in Cmds
      BY <2>1 DEF Popped, QueueInv, IInv, TypeOK, Pointers
    <3>. QED
      BY <3>1, FS_Singleton
  <2>2. CASE ~(hba # NoThread /\ pc[hba] \in {"wq_start", "wq_reject"})
    BY <2>2, FS_EmptySet DEF Popped
  <2>. QED
    BY <2>1, <2>2
<1>2. IsFiniteSet({active} \ {NoCmd}) /\ {active} \ {NoCmd} \in SUBSET Cmds
  BY FS_Singleton, FS_RemoveElement DEF QueueInv, IInv, TypeOK
<1>3. InFlight \in SUBSET Cmds /\ IsFiniteSet(InFlight)
  BY <1>1, <1>2, FS_Union DEF InFlight
<1>4. ASSUME NEW c \in InFlight PROVE ~Waits(wq, c)
  <2>1. c \in Cmds /\ (IsPopped(c) \/ IsActive(c))
    BY <1>3, <1>4, PendingIs
  <2>2. OnePlace(c)
    BY <2>1 DEF QueueInv, AllTracked, Tracked
  <2>. QED
    BY <2>1, <2>2 DEF OnePlace, IsWaiting
<1>. QED
  BY <1>3, <1>4, PendingIs DEF FlightTracked

(* Who is in flight after a step.                                          *)
LEMMA FlightAfter ==
  ASSUME QueueInv, QueueInv', NEW t \in Threads, Local(t)
  PROVE  InFlight' = {c \in Cmds : \/ PopsIt(t, c)'
                                   \/ IsPopped(c) /\ ~PopsIt(t, c)
                                   \/ active' = c}
<1>1. FlightTracked'
  BY FlightIsTracked, PTL
<1>2. ASSUME NEW c \in Cmds
      PROVE  /\ IsPopped(c)' <=> PopsIt(t, c)' \/ (IsPopped(c) /\ ~PopsIt(t, c))
             /\ IsActive(c)' <=> active' = c
  <2>1. IsPopped(c)' <=> PopsIt(t, c)' \/ (IsPopped(c) /\ ~PopsIt(t, c))
    BY Updates DEF QueueInv, AllTracked
  <2>. QED
    BY <2>1 DEF IsActive
<1>3. /\ InFlight' \subseteq Cmds
      /\ \A c \in Cmds : c \in InFlight' <=> IsPopped(c)' \/ IsActive(c)'
  BY <1>1 DEF FlightTracked
<1>. QED
  BY <1>2, <1>3

(* The throttles are exact, and keep nobody back in vain.                  *)
Throttled == Counters(wq, InFlight) /\ \A d \in Devs : Filled(wq, d)

(* A step that neither queues nor starts nor ends a request;               *)
LEMMA SameThrottles ==
  ASSUME QueueInv, QueueInv', Throttled, NEW t \in Threads, Local(t),
         UNCHANGED <<wq, active>>,
         \A c \in Cmds : PopsIt(t, c)' <=> PopsIt(t, c)
  PROVE  Throttled'
<1>1. \A c \in Cmds : PopsIt(t, c) => IsPopped(c)
  BY Before
<1>2. InFlight' = InFlight
  <2>1. InFlight' = {c \in Cmds : \/ PopsIt(t, c)'
                                  \/ IsPopped(c) /\ ~PopsIt(t, c)
                                  \/ active' = c}
    BY FlightAfter
  <2>2. InFlight \subseteq Cmds /\ \A c \in Cmds : c \in InFlight <=> IsPopped(c) \/ active = c
    BY FlightIsTracked DEF FlightTracked, IsActive
  <2>. QED
    BY <1>1, <2>1, <2>2
<1>. QED
  BY <1>2 DEF Throttled

(* one that queues a request;                                              *)
LEMMA EnqueueThrottles ==
  ASSUME QueueInv, QueueInv', Throttled, NEW t \in Threads, NEW c \in Cmds, c = cmd[t],
         TransportEnqueue(t)
  PROVE  Throttled'
<1>. USE DEF calls, locks, timers, doneqs, device, ghosts, Goto
<1>1. Local(t)
  BY LocalSteps DEF Step, QueueInv
<1>2. /\ wq' = Enqueue(wq, c) /\ active' = active
      /\ pc[t] = "tr_enq" /\ pc'[t] \in {"po_stat", "tr_try"}
  BY DEF TransportEnqueue, QueueInv, IInv, TypeOK
<1>3. HasInHand(t, c)
  BY <1>2 DEF QueueInv, IInv, Pointers, Control, AtPoint, HasInHand
<1>4. ~IsWaiting(c) /\ c \notin InFlight
  BY <1>3, Before, FlightIsTracked DEF OnePlace, FlightTracked
<1>5. InFlight' = InFlight
  <2>1. InFlight' = {x \in Cmds : \/ PopsIt(t, x)'
                                  \/ IsPopped(x) /\ ~PopsIt(t, x)
                                  \/ active' = x}
    BY <1>1, FlightAfter
  <2>2. InFlight \subseteq Cmds /\ \A x \in Cmds : x \in InFlight <=> IsPopped(x) \/ active = x
    BY FlightIsTracked DEF FlightTracked, IsActive
  <2>3. \A x \in Cmds : ~PopsIt(t, x) /\ ~PopsIt(t, x)'
    BY <1>2 DEF PopsIt
  <2>. QED
    BY <1>2, <2>1, <2>2, <2>3
<1>6. wq \in WaitqStates /\ WaitqInv(wq) /\ FlightTracked
  BY FlightIsTracked DEF QueueInv, IInv, TypeOK, AllTracked, Orderly
<1>7. Counters(Enqueue(wq, c), InFlight) /\ \A e \in Devs : Filled(Enqueue(wq, c), e)
  BY <1>4, <1>6, EnqueueCounts DEF FlightTracked, Throttled, IsWaiting
<1>. QED
  BY <1>2, <1>5, <1>7 DEF Throttled

(* one that takes the head of the adapter's queue off it;                  *)
LEMMA PopThrottles ==
  ASSUME QueueInv, QueueInv', Throttled, NEW t \in Threads, NEW c \in Cmds,
         c = Head(wq.hbaq), WaitqPop(t)
  PROVE  Throttled'
<1>. USE DEF calls, locks, timers, doneqs, device, ghosts, Goto
<1>1. Local(t)
  BY LocalSteps DEF Step, QueueInv
<1>2. /\ pc[t] = "wq_loop" /\ pc'[t] = "wq_start" /\ CanStart(wq)
      /\ frame' = [frame EXCEPT !.run = c] /\ wq' = PopHba(wq) /\ active' = active
  BY DEF WaitqPop, QueueInv, IInv, TypeOK
<1>3. frame'.run = c
  BY <1>2 DEF QueueInv, IInv, TypeOK, Frames
<1>4. InFlight' = InFlight \cup {c}
  <2>1. InFlight' = {x \in Cmds : \/ PopsIt(t, x)'
                                  \/ IsPopped(x) /\ ~PopsIt(t, x)
                                  \/ active' = x}
    BY <1>1, FlightAfter
  <2>2. InFlight \subseteq Cmds /\ \A x \in Cmds : x \in InFlight <=> IsPopped(x) \/ active = x
    BY FlightIsTracked DEF FlightTracked, IsActive
  <2>3. \A x \in Cmds : ~PopsIt(t, x) /\ (PopsIt(t, x)' <=> x = c)
    BY <1>2, <1>3 DEF PopsIt
  <2>. QED
    BY <1>2, <2>1, <2>2, <2>3
<1>5. wq \in WaitqStates /\ WaitqInv(wq) /\ FlightTracked
  BY FlightIsTracked DEF QueueInv, IInv, TypeOK, AllTracked, Orderly
<1>6. Counters(PopHba(wq), InFlight \cup {c}) /\ \A e \in Devs : Filled(PopHba(wq), e)
  BY <1>2, <1>5, PopCounts DEF FlightTracked, Throttled
<1>. QED
  BY <1>2, <1>4, <1>6 DEF Throttled

(* one that puts it back;                                                  *)
LEMMA RequeueThrottles ==
  ASSUME QueueInv, QueueInv', Throttled, NEW t \in Threads, NEW c \in Cmds,
         c = frame.run, WaitqRequeue(t)
  PROVE  Throttled'
<1>. USE DEF calls, locks, timers, doneqs, device, ghosts, Goto
<1>1. Local(t)
  BY LocalSteps DEF Step, QueueInv
<1>2. /\ pc[t] = "wq_reject" /\ wq' = Requeue(wq, c) /\ active' = active
  BY DEF WaitqRequeue
<1>3. pc'[t] \in {"ex_hba", "in_ret", "po_timer"}
  BY FrameFields DEF WaitqRequeue, WaitqReturn, QueueInv, IInv, TypeOK
<1>4. /\ \A x \in Cmds : (PopsIt(t, x) <=> x = c) /\ ~PopsIt(t, x)'
      /\ IsPopped(c)
  <2>1. \A x \in Cmds : (PopsIt(t, x) <=> x = c) /\ ~PopsIt(t, x)'
    BY <1>2, <1>3 DEF PopsIt
  <2>. QED
    BY <2>1, Before
<1>5. InFlight' = InFlight \ {c} /\ c \in InFlight
  <2>1. InFlight' = {x \in Cmds : \/ PopsIt(t, x)'
                                  \/ IsPopped(x) /\ ~PopsIt(t, x)
                                  \/ active' = x}
    BY <1>1, FlightAfter
  <2>2. InFlight \subseteq Cmds /\ \A x \in Cmds : x \in InFlight <=> IsPopped(x) \/ active = x
    BY FlightIsTracked DEF FlightTracked, IsActive
  <2>3. active # c
    BY <1>4, Before DEF OnePlace, IsActive
  <2>. QED
    BY <1>2, <1>4, <2>1, <2>2, <2>3
<1>6. wq \in WaitqStates /\ FlightTracked
  BY FlightIsTracked DEF QueueInv, IInv, TypeOK
<1>7. Counters(Requeue(wq, c), InFlight \ {c}) /\ \A e \in Devs : Filled(Requeue(wq, c), e)
  BY <1>5, <1>6, RequeueCounts DEF FlightTracked, Throttled
<1>. QED
  BY <1>2, <1>5, <1>7 DEF Throttled

(* one that completes a request that waits or is active;                   *)
LEMMA CompleteThrottles ==
  ASSUME QueueInv, QueueInv', Throttled, NEW t \in Threads, Local(t), NEW c \in Cmds,
         Complete(c), IsWaiting(c) \/ IsActive(c),
         active' = IF active = c THEN NoCmd ELSE active,
         pc[t] \notin {"wq_start", "wq_reject"}, pc'[t] \notin {"wq_start", "wq_reject"}
  PROVE  Throttled'
<1>1. wq' = WaitqDelete(wq, c)
  BY DEF Complete
<1>2. OnePlace(c) /\ StateTells(c)
  BY Before
<1>3. InFlight' = InFlight \ {c} /\ (IsActive(c) => c \in InFlight)
  <2>1. InFlight' = {x \in Cmds : \/ PopsIt(t, x)'
                                  \/ IsPopped(x) /\ ~PopsIt(t, x)
                                  \/ active' = x}
    BY FlightAfter
  <2>2. InFlight \subseteq Cmds /\ \A x \in Cmds : x \in InFlight <=> IsPopped(x) \/ active = x
    BY FlightIsTracked DEF FlightTracked, IsActive
  <2>3. \A x \in Cmds : ~PopsIt(t, x) /\ ~PopsIt(t, x)'
    BY DEF PopsIt
  <2>4. ~IsPopped(c) /\ \A x \in Cmds : active' = x <=> active = x /\ x # c
    BY <1>2, GhdAssumption DEF OnePlace, IsActive
  <2>. QED
    BY <2>1, <2>2, <2>3, <2>4 DEF IsActive
<1>4. Waits(wq, c) \/ (c \in InFlight /\ wq.level[c] = 3)
  BY <1>2, <1>3 DEF StateTells, IsWaiting
<1>5. wq \in WaitqStates /\ WaitqInv(wq) /\ FlightTracked
  BY FlightIsTracked DEF QueueInv, IInv, TypeOK, AllTracked, Orderly
<1>6. /\ Counters(WaitqDelete(wq, c), InFlight \ {c})
      /\ \A e \in Devs : Filled(WaitqDelete(wq, c), e)
  BY <1>4, <1>5, DeleteCounts DEF FlightTracked, Throttled
<1>. QED
  BY <1>1, <1>3, <1>6 DEF Throttled

(* and, every step being one of these, every step.                         *)
LEMMA ThrottledStep ==
  ASSUME QueueInv, QueueInv', Throttled, [Next]_vars
  PROVE  Throttled'
<1>. USE DEF calls, locks, timers, doneqs, device, ghosts, Goto
<1>. DEFINE Starting == {"wq_start", "wq_reject"}
<1>1. ASSUME NEW t \in Threads, Local(t), UNCHANGED <<wq, active>>,
             pc[t] \notin Starting, pc'[t] \notin Starting
      PROVE  Throttled'
  BY <1>1, SameThrottles DEF PopsIt
<1>2. pc \in [Threads -> Labels]
  BY DEF QueueInv, IInv, TypeOK
<1>3. ASSUME NEW t \in Threads, Call(t) \/ Step(t) PROVE Throttled'
  <2>1. Local(t)
    BY <1>3, LocalSteps DEF QueueInv
  <2>2. CASE Call(t) \/ EnterPolled(t) \/ EnterAbort(t) \/ EnterReset(t)
               \/ TransportTryFails(t) \/ TransportTryOk(t) \/ ReleaseHba(t) \/ ReleaseWaitq(t)
    <3>1. UNCHANGED <<wq, active>> /\ pc[t] \notin Starting /\ pc'[t] \notin Starting
      BY <1>2, <2>2
      DEF Call, Transport, Abort, Reset, EnterPolled, EnterAbort, EnterReset, Enter,
          TransportTryFails, TransportTryOk, ReleaseHba, ReleaseWaitq, Return
    <3>. QED
      BY <1>1, <2>1, <3>1
  <2>3. CASE IntrPhase(t) \/ IntrNone(t) \/ PollDrain(t) \/ PollGiveUp(t) \/ PollPut(t)
               \/ PollmodeExit(t) \/ PollmodeTrigger(t) \/ Finish(t) \/ TimerNone(t)
               \/ TimerGet(t)
    <3>1. UNCHANGED <<wq, active>> /\ pc[t] \notin Starting /\ pc'[t] \notin Starting
      BY <1>2, <2>3
      DEF IntrPhase, StatusProcessed, IntrNone, PollDrain, PollGiveUp, PollPut, PollmodeExit,
          PollmodeTrigger, Finish, Return, TimerNone, TimerGet
    <3>. QED
      BY <1>1, <2>1, <3>1
  <2>4. CASE WaitqDone(t) \/ NewstateCannot(t) \/ NewstateHung(t)
    <3>1. UNCHANGED <<wq, active>> /\ pc[t] \notin Starting /\ pc'[t] \notin Starting
      BY <1>2, <2>4, FrameFields
      DEF WaitqDone, WaitqReturn, NewstateCannot, NewstateHung, QueueInv, IInv, TypeOK
    <3>. QED
      BY <1>1, <2>1, <3>1
  <2>5. CASE HbaRefuses(t)
    <3>1. UNCHANGED <<wq, active, frame>> /\ pc[t] \in Starting /\ pc'[t] \in Starting
      BY <1>2, <2>5 DEF HbaRefuses
    <3>2. \A c \in Cmds : PopsIt(t, c)' <=> PopsIt(t, c)
      BY <3>1 DEF PopsIt
    <3>. QED
      BY <2>1, <3>1, <3>2, SameThrottles
  <2>6. CASE HbaAccepts(t)
    <3>1. /\ pc[t] = "wq_start" /\ pc'[t] \in {"wq_loop", "wq_fini"}
          /\ active = NoCmd /\ active' = frame.run /\ wq' = wq /\ frame.run \in Cmds
      BY <1>2, <2>6 DEF HbaAccepts, QueueInv, IInv, Pointers
    <3>2. \A c \in Cmds : (PopsIt(t, c) <=> c = frame.run) /\ ~PopsIt(t, c)'
      BY <3>1 DEF PopsIt
    <3>3. InFlight' = {c \in Cmds : \/ PopsIt(t, c)'
                                    \/ IsPopped(c) /\ ~PopsIt(t, c)
                                    \/ active' = c}
      BY <2>1, FlightAfter
    <3>4. InFlight \subseteq Cmds /\ \A c \in Cmds : c \in InFlight <=> IsPopped(c) \/ active = c
      BY FlightIsTracked DEF FlightTracked, IsActive
    <3>5. IsPopped(frame.run)
      BY <3>1, <3>2, Before
    <3>6. InFlight' = InFlight
      BY <3>1, <3>2, <3>3, <3>4, <3>5, GhdAssumption
    <3>. QED
      BY <3>1, <3>6 DEF Throttled
  <2>7. CASE TransportEnqueue(t) \/ WaitqPop(t) \/ WaitqRequeue(t)
    <3>1. TransportEnqueue(t) => cmd[t] \in Cmds
      BY DEF TransportEnqueue, QueueInv, IInv, Pointers
    <3>2. WaitqPop(t) => Head(wq.hbaq) \in Cmds
      BY PopHbaType DEF WaitqPop, QueueInv, IInv, TypeOK
    <3>3. WaitqRequeue(t) => frame.run \in Cmds
      BY DEF WaitqRequeue, QueueInv, IInv, Pointers
    <3>. QED
      BY <2>7, <3>1, <3>2, <3>3, EnqueueThrottles, PopThrottles, RequeueThrottles
  <2>8. ASSUME NEW c \in Cmds, Complete(c), IsWaiting(c) \/ IsActive(c),
               active' = IF active = c THEN NoCmd ELSE active,
               pc[t] \notin Starting, pc'[t] \notin Starting
        PROVE  Throttled'
    BY <2>1, <2>8, CompleteThrottles
  <2>9. CASE HbaFinishesAtOnce(t) \/ IntrComplete(t)
    <3>1. /\ pc[t] \notin Starting /\ pc'[t] \notin Starting
          /\ active \in Cmds /\ active' = NoCmd /\ Complete(active)
      BY <1>2, <2>9 DEF HbaFinishesAtOnce, IntrComplete, StatusProcessed, CompleteActive,
                        QueueInv, IInv, TypeOK, Pointers
    <3>2. PICK c \in Cmds : c = active
      BY <3>1
    <3>3. Complete(c) /\ IsActive(c) /\ active' = IF active = c THEN NoCmd ELSE active
      BY <3>1, <3>2 DEF IsActive
    <3>. QED
      BY <2>8, <3>1, <3>3
  <2>10. CASE NewstateReset(t)
    <3>1. /\ pc[t] \notin Starting /\ pc'[t] \notin Starting
          /\ active \in Cmds /\ active' = NoCmd /\ Complete(active)
      <4>1. pc[t] = "ns" /\ pc'[t] = frame.nsret
        BY <1>2, <2>10 DEF NewstateReset
      <4>. QED
        BY <2>10, <4>1, FrameFields, ResetCompletes DEF QueueInv, IInv, TypeOK
    <3>2. PICK c \in Cmds : c = active
      BY <3>1
    <3>3. Complete(c) /\ IsActive(c) /\ active' = IF active = c THEN NoCmd ELSE active
      BY <3>1, <3>2 DEF IsActive
    <3>. QED
      BY <2>8, <3>1, <3>3
  <2>11. CASE NewstateEarly(t)
    <3>1. /\ pc[t] = "ns" /\ pc'[t] = frame.nsret
          /\ frame.act \in EarlyActions /\ frame.run \in Cmds
          /\ Complete(frame.run) /\ active' = active
      BY <1>2, <2>11 DEF NewstateEarly, EarlyActions, QueueInv, IInv, Pointers
    <3>2. PICK c \in Cmds : c = frame.run
      BY <3>1
    <3>3. pc[t] \notin Starting /\ pc'[t] \notin Starting
      BY <3>1, FrameFields DEF QueueInv, IInv, TypeOK
    <3>4. IsWaiting(c) /\ active # c
      <4>1. IsWaiting(c)
        BY <3>1, <3>2, GhdAssumption DEF QueueInv, Stepping
      <4>. QED
        BY <4>1, Before DEF OnePlace, IsActive
    <3>5. Complete(c) /\ active' = IF active = c THEN NoCmd ELSE active
      BY <3>1, <3>2, <3>4
    <3>. QED
      BY <2>8, <3>3, <3>4, <3>5
  <2>. QED
    BY <1>3, <2>2, <2>3, <2>4, <2>5, <2>6, <2>7, <2>9, <2>10, <2>11 DEF Step
<1>4. CASE SoftStep \/ IntrEnter
  <2>1. CASE IntrReturn \/ IntrEnter
    <3>1. UNCHANGED <<wq, active>> /\ pc[Intr] \notin Starting /\ pc'[Intr] \notin Starting
      BY <1>2, <2>1, SoftThreads DEF IntrReturn, IntrEnter
    <3>. QED
      BY <1>1, <2>1, <3>1, LocalSteps, SoftThreads DEF QueueInv
  <2>2. CASE DoneqBegin \/ DoneqGet \/ DoneqCall
    <3>1. /\ UNCHANGED <<wq, active>>
          /\ pc[DoneqSoft] \notin Starting /\ pc'[DoneqSoft] \notin Starting
      BY <1>2, <2>2, SoftThreads DEF DoneqBegin, DoneqGet, DoneqCall
    <3>. QED
      BY <1>1, <2>2, <3>1, LocalSteps, SoftThreads DEF QueueInv
  <2>3. CASE TimerBegin \/ TimerEnter
    <3>1. /\ UNCHANGED <<wq, active>>
          /\ pc[TimerSoft] \notin Starting /\ pc'[TimerSoft] \notin Starting
      BY <1>2, <2>3, SoftThreads DEF TimerBegin, TimerEnter
    <3>. QED
      BY <1>1, <2>3, <3>1, LocalSteps, SoftThreads DEF QueueInv
  <2>. QED
    BY <1>4, <2>1, <2>2, <2>3 DEF SoftStep
<1>5. CASE GhdTimeout \/ DeviceInterrupt \/ (\E c \in Cmds : Expire(c)) \/ UNCHANGED vars
  <2>1. UNCHANGED <<pc, hba, frame, wq, active>>
    BY <1>5 DEF GhdTimeout, DeviceInterrupt, Expire, vars
  <2>. QED
    BY <2>1 DEF Throttled, InFlight, Popped
<1>. QED
  BY <1>3, <1>4, <1>5 DEF Next

(* Nothing is in use at first.                                             *)
LEMMA InitThrottled ==
  Init => Throttled
<1>. SUFFICES ASSUME Init PROVE Throttled
  OBVIOUS
<1>1. wq = EmptyWaitq /\ InFlight = {} /\ Elems(wq.hbaq) = {}
  BY NothingRepeats DEF Init, EmptyWaitq, InFlight, Popped
<1>2. \A d \in Devs : InUse(wq, InFlight, d) = {} /\ wq.devActive[d] = 0 /\ wq.devq[d] = <<>>
  BY <1>1 DEF InUse, EmptyWaitq
<1>3. wq.hbaActive = 0
  BY <1>1 DEF EmptyWaitq
<1>. QED
  BY <1>1, <1>2, <1>3, FS_EmptySet DEF Throttled, Counters, Filled

(* So the throttles stay exact.                                            *)
LEMMA AlwaysThrottled ==
  Spec => []Throttled
BY InitThrottled, ThrottledStep, QueueInvAlways, PTL DEF Spec

(* Q_nactive of the adapter and of a device never drift: they are what     *)
(* they count, though a completion leaves cmd_waitq_level stale and        *)
(* sol11ghd_waitq_delete trusts it.                                        *)
THEOREM CountersAlwaysExact ==
  Spec => []CountersExact
<1>1. QueueInv /\ Throttled => CountersExact
  <2>. SUFFICES ASSUME QueueInv, Throttled PROVE CountersExact
    OBVIOUS
  <2>1. /\ wq.hbaActive = Cardinality(InFlight)
        /\ \A d \in Devs : wq.devActive[d] =
             Cardinality({c \in Elems(wq.hbaq) \cup InFlight : Dev[c] = d})
    BY DEF Throttled, Counters, InUse
  <2>2. ASSUME NEW c \in Pending
        PROVE  wq.level[c] = IF c \in InFlight THEN 3
                             ELSE IF c \in Elems(wq.hbaq) THEN 2 ELSE 1
    <3>1. c \in Cmds
      <4>1. /\ InFlight \subseteq Cmds
            /\ wq.hbaq \in Seq(Cmds) /\ \A d \in Devs : wq.devq[d] \in Seq(Cmds)
        BY FlightIsTracked DEF FlightTracked, QueueInv, IInv, TypeOK, WaitqStates
      <4>2. Elems(wq.hbaq) \subseteq Cmds /\ \A d \in Devs : Elems(wq.devq[d]) \subseteq Cmds
        BY <4>1, ElemsIs
      <4>. QED
        BY <2>2, <4>1, <4>2 DEF Pending, Waiting
    <3>2. CASE c \in InFlight
      <4>1. IsPopped(c) \/ IsActive(c)
        BY <3>1, <3>2, PendingIs
      <4>. QED
        BY <3>1, <3>2, <4>1 DEF QueueInv, AllTracked, Tracked, StateTells
    <3>3. CASE c \notin InFlight
      <4>1. c \in Elems(wq.devq[Dev[c]]) \cup Elems(wq.hbaq) /\ Dev[c] \in Devs
        BY <2>2, <3>1, <3>3, PendingIs, WaitqAssumption DEF IsWaiting, Waits
      <4>2. WaitqInv(wq)
        BY DEF QueueInv, AllTracked, Orderly
      <4>. QED
        BY <3>3, <4>1, <4>2 DEF WaitqInv
    <3>. QED
      BY <3>2, <3>3
  <2>. QED
    BY <2>1, <2>2 DEF CountersExact
<1>. QED
  BY <1>1, AlwaysThrottled, QueueInvAlways, PTL

(* No device's throttle keeps a request back while it has room.            *)
THEOREM DeviceAlwaysFilled ==
  Spec => []DeviceFilled
<1>1. Throttled => DeviceFilled
  BY DEF Throttled, Filled, DeviceFilled
<1>. QED
  BY <1>1, AlwaysThrottled, PTL

-----------------------------------------------------------------------------
(* Who is in front of whom in a sequence.                                  *)

(* In two joined together, all of the first are in front of those of the   *)
(* second.                                                                 *)
LEMMA PrecedesConcat ==
  ASSUME NEW S, NEW s \in Seq(S), NEW u \in Seq(S), NEW x, NEW y
  PROVE  Precedes(s \o u, x, y) <=> \/ Precedes(s, x, y)
                                    \/ x \in Elems(s) /\ y \in Elems(u)
                                    \/ Precedes(u, x, y)
<1>. DEFINE r == s \o u
            n == Len(s)
            m == Len(u)
<1>1. /\ n \in Nat /\ m \in Nat /\ DOMAIN s = 1 .. n /\ DOMAIN u = 1 .. m
      /\ DOMAIN r = 1 .. n + m
      /\ \A i \in 1 .. n + m : r[i] = IF i <= n THEN s[i] ELSE u[i - n]
  <2>1. /\ r \in Seq(S) /\ Len(r) = n + m
        /\ \A i \in 1 .. n + m : r[i] = IF i <= n THEN s[i] ELSE u[i - n]
    BY ConcatProperties
  <2>. HIDE DEF r
  <2>. QED
    BY <2>1, ElemsIs
<1>2. /\ \A i \in 1 .. n : i \in 1 .. n + m /\ r[i] = s[i]
      /\ \A i \in 1 .. n + m : i <= n => i \in 1 .. n
  BY <1>1
<1>3. ASSUME NEW i \in 1 .. m
      PROVE  n + i \in 1 .. n + m /\ n + i > n /\ r[n + i] = u[i]
  <2>1. n + i \in 1 .. n + m /\ ~(n + i <= n) /\ (n + i) - n = i
    BY <1>1
  <2>. QED
    BY <2>1, <1>1
<1>4. ASSUME NEW i \in 1 .. n + m, ~(i <= n)
      PROVE  i - n \in 1 .. m /\ r[i] = u[i - n]
  <2>1. i - n \in 1 .. m
    BY <1>1, <1>4
  <2>. QED
    BY <2>1, <1>1, <1>4
<1>. HIDE DEF r, n, m
<1>5. ASSUME Precedes(s, x, y) PROVE Precedes(r, x, y)
  BY <1>1, <1>2, <1>5 DEF Precedes
<1>6. ASSUME Precedes(u, x, y) PROVE Precedes(r, x, y)
  <2>1. PICK i, j \in 1 .. m : i < j /\ u[i] = x /\ u[j] = y
    BY <1>1, <1>6 DEF Precedes
  <2>. DEFINE a == n + i
              b == n + j
  <2>2. a \in DOMAIN r /\ b \in DOMAIN r /\ a < b
    BY <1>1, <1>3, <2>1
  <2>3. r[a] = x /\ r[b] = y
    BY <1>3, <2>1
  <2>. HIDE DEF a, b
  <2>. QED
    BY <2>2, <2>3 DEF Precedes
<1>7. ASSUME x \in Elems(s), y \in Elems(u) PROVE Precedes(r, x, y)
  <2>1. PICK i \in 1 .. n, j \in 1 .. m : s[i] = x /\ u[j] = y
    BY <1>1, <1>7 DEF Elems
  <2>. DEFINE b == n + j
  <2>2. i \in DOMAIN r /\ b \in DOMAIN r /\ i < b
    BY <1>1, <1>2, <1>3, <2>1
  <2>3. r[i] = x /\ r[b] = y
    BY <1>2, <1>3, <2>1
  <2>. HIDE DEF b
  <2>. QED
    BY <2>2, <2>3 DEF Precedes
<1>8. ASSUME Precedes(r, x, y)
      PROVE  \/ Precedes(s, x, y)
             \/ x \in Elems(s) /\ y \in Elems(u)
             \/ Precedes(u, x, y)
  <2>1. PICK i, j \in 1 .. n + m : i < j /\ r[i] = x /\ r[j] = y
    BY <1>1, <1>8 DEF Precedes
  <2>2. CASE i <= n /\ j <= n
    <3>1. i \in DOMAIN s /\ j \in DOMAIN s /\ s[i] = x /\ s[j] = y
      BY <1>1, <1>2, <2>1, <2>2
    <3>. QED
      BY <2>1, <3>1 DEF Precedes
  <2>3. CASE i <= n /\ ~(j <= n)
    <3>1. i \in DOMAIN s /\ s[i] = x
      BY <1>1, <1>2, <2>1, <2>3
    <3>2. j - n \in DOMAIN u /\ u[j - n] = y
      BY <1>1, <1>4, <2>1, <2>3
    <3>. QED
      BY <3>1, <3>2 DEF Elems
  <2>4. CASE ~(i <= n)
    <3>. DEFINE a == i - n
                b == j - n
    <3>1. ~(j <= n) /\ a < b
      BY <1>1, <2>1, <2>4
    <3>2. a \in DOMAIN u /\ u[a] = x
      BY <1>1, <1>4, <2>1, <2>4
    <3>3. b \in DOMAIN u /\ u[b] = y
      BY <1>1, <1>4, <2>1, <3>1
    <3>. HIDE DEF a, b
    <3>. QED
      BY <3>1, <3>2, <3>3 DEF Precedes
  <2>. QED
    BY <2>2, <2>3, <2>4
<1>. QED
  BY <1>5, <1>6, <1>7, <1>8 DEF r

(* Nobody is in front in a sequence of one element or none, and who is in  *)
(* front, or has somebody in front, is an element.                         *)
LEMMA PrecedesOne ==
  /\ \A x, y : ~Precedes(<<>>, x, y)
  /\ \A c, x, y : ~Precedes(<<c>>, x, y)
  /\ \A s, x, y : Precedes(s, x, y) => x \in Elems(s) /\ y \in Elems(s)
<1>1. DOMAIN <<>> = {} /\ \A c : DOMAIN <<c>> = {1}
  OBVIOUS
<1>. QED
  BY <1>1 DEF Precedes, Elems

(* One more at the end has the others in front.                            *)
LEMMA PrecedesAppend ==
  ASSUME NEW S, NEW s \in Seq(S), NEW c \in S, NEW x, NEW y
  PROVE  Precedes(Append(s, c), x, y) <=>
           Precedes(s, x, y) \/ (x \in Elems(s) /\ y = c)
<1>. DEFINE one == <<c>>
<1>1. Append(s, c) = s \o one
  OBVIOUS
<1>2. one \in Seq(S) /\ Elems(one) = {c} /\ ~Precedes(one, x, y)
  BY SingleElem, PrecedesOne
<1>. HIDE DEF one
<1>3. Precedes(s \o one, x, y) <=> \/ Precedes(s, x, y)
                                   \/ x \in Elems(s) /\ y \in Elems(one)
                                   \/ Precedes(one, x, y)
  BY <1>2, PrecedesConcat
<1>. QED
  BY <1>1, <1>2, <1>3

(* A sequence is its first n elements and the others;                      *)
LEMMA SplitIs ==
  ASSUME NEW S, NEW s \in Seq(S), NEW n \in Nat, n <= Len(s)
  PROVE  s = SubSeq(s, 1, n) \o SubSeq(s, n + 1, Len(s))
<1>1. Len(s) \in Nat
  BY LenProperties
<1>2. 1 \in 1 .. Len(s) + 1 /\ n \in 1 - 1 .. Len(s) /\ Len(s) \in n .. Len(s)
  BY <1>1
<1>3. SubSeq(s, 1, n) \o SubSeq(s, n + 1, Len(s)) = SubSeq(s, 1, Len(s))
  BY <1>2, ConcatAdjacentSubSeq
<1>. QED
  BY <1>3, SubSeqFull

(* The first leaves the others in order,                                   *)
LEMMA PrecedesTail ==
  ASSUME NEW S, NEW s \in Seq(S), s # <<>>, NoRepeat(s), NEW x, NEW y
  PROVE  /\ Precedes(s, x, y) <=> \/ x = Head(s) /\ y \in Elems(Tail(s))
                                  \/ Precedes(Tail(s), x, y)
<1>. DEFINE h == Head(s)
            one == <<h>>
            r == Tail(s)
<1>1. h \in S /\ s = one \o r
  BY HeadTailProperties
<1>2. r \in Seq(S)
  BY TailElems
<1>. HIDE DEF h
<1>3. one \in Seq(S) /\ Elems(one) = {h} /\ ~Precedes(one, x, y)
  BY <1>1, SingleElem, PrecedesOne
<1>. HIDE DEF one, r
<1>4. Precedes(one \o r, x, y) <=> \/ Precedes(one, x, y)
                                   \/ x \in Elems(one) /\ y \in Elems(r)
                                   \/ Precedes(r, x, y)
  BY <1>2, <1>3, PrecedesConcat
<1>. QED
  BY <1>1, <1>3, <1>4 DEF h, r

(* and so does one that L2_delete unlinks.                                 *)
LEMMA PrecedesUnlink ==
  ASSUME NEW S, NEW s \in Seq(S), NoRepeat(s), NEW c, NEW x, NEW y
  PROVE  Precedes(Unlink(s, c), x, y) <=> Precedes(s, x, y) /\ x # c /\ y # c
<1>1. CASE c \notin Elems(s)
  BY <1>1, PrecedesOne DEF Unlink
<1>2. CASE c \in Elems(s)
  <2>. DEFINE k == CHOOSE i \in DOMAIN s : s[i] = c
              a == SubSeq(s, 1, k - 1)
              b == SubSeq(s, k + 1, Len(s))
              m == SubSeq(s, k, Len(s))
              one == <<c>>
  <2>1. Len(s) \in Nat /\ DOMAIN s = 1 .. Len(s)
    BY ElemsIs
  <2>2. k \in 1 .. Len(s) /\ s[k] = c
    BY <1>2, <2>1 DEF Elems
  <2>3. Unlink(s, c) = a \o b
    BY <1>2 DEF Unlink
  <2>. HIDE DEF k
  <2>4. /\ k \in Nat /\ k - 1 \in Nat /\ k <= Len(s) /\ k - 1 <= Len(s)
        /\ (k - 1) + 1 = k /\ Len(s) \in k .. Len(s) /\ c \in S
    BY <2>1, <2>2, ElementOfSeq
  <2>5. m = one \o b
    BY <2>2, <2>4, SubSeqRecursiveFirst
  <2>6. s = a \o SubSeq(s, (k - 1) + 1, Len(s))
    BY <2>4, SplitIs
  <2>7. s = a \o m
    BY <2>4, <2>6
  <2>8. a \in Seq(S) /\ b \in Seq(S)
    BY <2>4, SplitElems
  <2>9. one \in Seq(S) /\ Elems(one) = {c} /\ ~Precedes(one, x, y)
    BY <2>4, SingleElem, PrecedesOne
  <2>. HIDE DEF a, b, m, one
  <2>10. m \in Seq(S) /\ Elems(m) = {c} \cup Elems(b)
    BY <2>5, <2>8, <2>9, ConcatElems
  <2>11. Precedes(m, x, y) <=> (x = c /\ y \in Elems(b)) \/ Precedes(b, x, y)
    BY <2>5, <2>8, <2>9, PrecedesConcat
  <2>12. Precedes(s, x, y) <=> \/ Precedes(a, x, y)
                               \/ x \in Elems(a) /\ y \in Elems(m)
                               \/ Precedes(m, x, y)
    BY <2>7, <2>8, <2>10, PrecedesConcat
  <2>13. Precedes(a \o b, x, y) <=> \/ Precedes(a, x, y)
                                    \/ x \in Elems(a) /\ y \in Elems(b)
                                    \/ Precedes(b, x, y)
    BY <2>8, PrecedesConcat
  <2>14. c \notin Elems(a) /\ c \notin Elems(b)
    <3>1. Elems(a \o b) = Elems(a) \cup Elems(b)
      BY <2>8, ConcatElems
    <3>2. Elems(a \o b) = Elems(s) \ {c}
      BY <2>3, UnlinkElems
    <3>. QED
      BY <3>1, <3>2
  <2>. QED
    BY <2>3, <2>10, <2>11, <2>12, <2>13, <2>14, PrecedesOne
<1>. QED
  BY <1>1, <1>2

-----------------------------------------------------------------------------
(* The order of the completions.                                           *)

(* A poll looks for its request when everything set aside is older than    *)
(* what is on the doneq: it starts with nothing aside, and puts back what  *)
(* it has set aside before anything new is completed.                      *)
HoldFirst ==
  \A t \in Threads : frame.hold # <<>> =>
    /\ pc[t] \in {"po_stat", "po_put"} => doneq = <<>>
    /\ ~(pc[t] = "ns" /\ frame.nsret = "po_stat")

(* Two completions keep their order, and a new one comes last.             *)
InOrder(s, r) ==
  \A c, e \in Elems(r) :
    c # e /\ c \in Elems(s) /\ (e \in Elems(s) => Precedes(s, c, e)) => Precedes(r, c, e)

(* The ways the undelivered completions change.                            *)
LEMMA StaysInOrder ==
  ASSUME NEW s \in Seq(Cmds)
  PROVE  /\ InOrder(s, s)
         /\ \A c \in Cmds : InOrder(s, Append(s, c))
         /\ s # <<>> /\ NoRepeat(s) => InOrder(s, Tail(s))
<1>1. InOrder(s, s)
  BY DEF InOrder
<1>2. ASSUME NEW c \in Cmds PROVE InOrder(s, Append(s, c))
  <2>1. /\ Elems(Append(s, c)) = Elems(s) \cup {c}
        /\ \A x, y : Precedes(Append(s, c), x, y) <=>
                       Precedes(s, x, y) \/ (x \in Elems(s) /\ y = c)
    BY AppendElems, PrecedesAppend
  <2>. QED
    BY <2>1 DEF InOrder
<1>3. ASSUME s # <<>>, NoRepeat(s) PROVE InOrder(s, Tail(s))
  <2>1. /\ Elems(Tail(s)) = Elems(s) \ {Head(s)}
        /\ \A x, y : Precedes(s, x, y) <=> \/ x = Head(s) /\ y \in Elems(Tail(s))
                                           \/ Precedes(Tail(s), x, y)
    BY <1>3, TailElems, PrecedesTail
  <2>. QED
    BY <2>1 DEF InOrder
<1>. QED
  BY <1>1, <1>2, <1>3

(* The completions, delivered or set aside, are different requests.        *)
LEMMA UndeliveredType ==
  ASSUME QueueInv
  PROVE  /\ doneq \in Seq(Cmds) /\ frame.hold \in Seq(Cmds)
         /\ NoRepeat(doneq) /\ NoRepeat(frame.hold)
         /\ Elems(frame.hold) \cap Elems(doneq) = {}
         /\ Undelivered \in Seq(Cmds) /\ NoRepeat(Undelivered)
<1>1. /\ doneq \in Seq(Cmds) /\ NoRepeat(doneq)
      /\ frame.hold \in Seq(Cmds) /\ NoRepeat(frame.hold)
  BY FrameFields DEF QueueInv, IInv, TypeOK, AllTracked, Orderly
<1>2. Elems(frame.hold) \cap Elems(doneq) = {}
  <2>1. Elems(doneq) \subseteq Cmds
    BY <1>1, ElemsIs
  <2>2. \A x \in Cmds : x \in Elems(doneq) => x \notin Elems(frame.hold)
    BY DEF QueueInv, AllTracked, Tracked, OnePlace, OnDoneq, OnHold
  <2>. QED
    BY <2>1, <2>2
<1>. QED
  BY <1>1, <1>2, ConcatElems DEF Undelivered

(* A completion joins the doneq, and what is undelivered, at the end.      *)
LEMMA CompletedLast ==
  ASSUME QueueInv, NEW c \in Cmds, doneq' = Append(doneq, c), frame'.hold = frame.hold
  PROVE  Undelivered' = Append(Undelivered, c)
<1>. DEFINE h == frame.hold
<1>1. h \in Seq(Cmds) /\ doneq \in Seq(Cmds)
  BY UndeliveredType
<1>. HIDE DEF h
<1>2. h \o Append(doneq, c) = Append(h \o doneq, c)
  BY <1>1
<1>. QED
  BY <1>2 DEF Undelivered, h

(* What a poll sets aside is in the order it had, less its own request.    *)
LEMMA DrainOrder ==
  ASSUME QueueInv, NEW t \in Threads, PollDrain(t)
  PROVE  InOrder(Undelivered, Undelivered')
<1>. DEFINE mine == op[t] \in Polled \cup {"abort"} /\ cmd[t] \in Elems(doneq)
            quiet == \/ /\ op[t] \in {"lun", "target"}
                        /\ wq.devActive[Dev[cmd[t]]] = 0
                     \/ op[t] = "bus" /\ wq.hbaActive = 0
            moved == IF mine THEN Unlink(doneq, cmd[t]) ELSE doneq
            h == frame.hold
<1>1. doneq' = <<>> /\ frame' = [frame EXCEPT !.hold = @ \o moved, !.got = mine \/ quiet]
  BY DEF PollDrain
<1>. HIDE DEF mine, quiet, moved
<1>2. frame'.hold = h \o moved
  BY <1>1 DEF QueueInv, IInv, TypeOK, Frames
<1>. HIDE DEF h
<1>3. /\ h \in Seq(Cmds) /\ doneq \in Seq(Cmds) /\ NoRepeat(doneq)
      /\ Elems(h) \cap Elems(doneq) = {} /\ Undelivered = h \o doneq
  BY UndeliveredType DEF Undelivered, h
<1>4. /\ moved \in Seq(Cmds) /\ Elems(moved) \subseteq Elems(doneq)
      /\ \A x, y : x \in Elems(moved) /\ y \in Elems(moved) =>
           (Precedes(moved, x, y) <=> Precedes(doneq, x, y))
  <2>1. CASE ~mine
    BY <1>3, <2>1 DEF moved
  <2>2. CASE mine
    <3>1. /\ moved \in Seq(Cmds) /\ Elems(moved) = Elems(doneq) \ {cmd[t]}
          /\ \A x, y : Precedes(moved, x, y) <=>
                         Precedes(doneq, x, y) /\ x # cmd[t] /\ y # cmd[t]
      BY <1>3, <2>2, UnlinkElems, PrecedesUnlink DEF moved
    <3>. QED
      BY <3>1
  <2>. QED
    BY <2>1, <2>2
<1>5. Undelivered' = h \o moved
  <2>1. h \o moved \in Seq(Cmds)
    BY <1>3, <1>4, ConcatElems
  <2>2. (h \o moved) \o <<>> = h \o moved
    BY <2>1, ConcatEmptySeq
  <2>. QED
    BY <1>1, <1>2, <2>2 DEF Undelivered
<1>6. /\ Elems(h \o moved) = Elems(h) \cup Elems(moved)
      /\ Elems(h \o doneq) = Elems(h) \cup Elems(doneq)
      /\ \A x, y : Precedes(h \o moved, x, y) <=>
           \/ Precedes(h, x, y) \/ (x \in Elems(h) /\ y \in Elems(moved))
           \/ Precedes(moved, x, y)
      /\ \A x, y : Precedes(h \o doneq, x, y) <=>
           \/ Precedes(h, x, y) \/ (x \in Elems(h) /\ y \in Elems(doneq))
           \/ Precedes(doneq, x, y)
  BY <1>3, <1>4, ConcatElems, PrecedesConcat
<1>7. InOrder(h \o doneq, h \o moved)
  <2>. SUFFICES ASSUME NEW c \in Elems(h \o moved), NEW e \in Elems(h \o moved),
                       Precedes(h \o doneq, c, e)
                PROVE  Precedes(h \o moved, c, e)
    BY <1>4, <1>6 DEF InOrder
  <2>1. CASE Precedes(h, c, e)
    BY <2>1, <1>6
  <2>2. CASE c \in Elems(h) /\ e \in Elems(doneq)
    BY <2>2, <1>3, <1>6
  <2>3. CASE Precedes(doneq, c, e)
    <3>1. c \in Elems(doneq) /\ e \in Elems(doneq)
      BY <2>3, PrecedesOne
    <3>2. c \in Elems(moved) /\ e \in Elems(moved)
      BY <3>1, <1>3, <1>6
    <3>. QED
      BY <2>3, <3>2, <1>4, <1>6
  <2>. QED
    BY <2>1, <2>2, <2>3, <1>6
<1>. QED
  BY <1>3, <1>5, <1>7

(* What it puts back is in that order again, and its own request comes     *)
(* last.                                                                   *)
LEMMA PutOrder ==
  ASSUME QueueInv, HoldFirst, NEW t \in Threads, PollPut(t)
  PROVE  InOrder(Undelivered, Undelivered')
<1>. DEFINE aborted == op[t] = "abort" /\ frame.got
            own == IF aborted THEN <<cmd[t]>> ELSE <<>>
            h == frame.hold
            back == h \o own
<1>1. /\ pc[t] = "po_put" /\ doneq' = doneq \o back
      /\ frame' = [frame EXCEPT !.hold = <<>>]
  BY DEF PollPut, PutBack
<1>2. cmd[t] \in Cmds
  BY <1>1 DEF QueueInv, IInv, Pointers, Control, AtPoint, PollOps, AllOps, Polled, FirstAction
<1>3. h # <<>> => doneq = <<>>
  BY <1>1 DEF HoldFirst
<1>4. frame'.hold = <<>>
  BY <1>1 DEF QueueInv, IInv, TypeOK, Frames
<1>5. h \in Seq(Cmds) /\ doneq \in Seq(Cmds) /\ Undelivered = h \o doneq
  BY UndeliveredType DEF Undelivered
<1>. HIDE DEF h
<1>6. Undelivered \in Seq(Cmds)
  BY UndeliveredType
<1>7. CASE aborted
  <2>. DEFINE c == cmd[t]
  <2>1. own = <<c>>
    BY <1>7
  <2>. HIDE DEF own, aborted, c
  <2>2. c \in Cmds
    BY <1>2 DEF c
  <2>3. back = Append(h, c)
    BY <1>5, <2>1, <2>2
  <2>. HIDE DEF back
  <2>4. Undelivered' = Append(Undelivered, c)
    <3>1. Undelivered' = <<>> \o (doneq \o Append(h, c))
      BY <1>1, <1>4, <2>3 DEF Undelivered
    <3>2. CASE h = <<>>
      <4>1. Undelivered' = Append(doneq, c)
        BY <1>5, <2>2, <3>1, <3>2
      <4>2. Undelivered = doneq
        BY <1>5, <3>2
      <4>. QED
        BY <4>1, <4>2
    <3>3. CASE doneq = <<>>
      <4>1. Undelivered' = Append(h, c)
        BY <1>5, <2>2, <3>1, <3>3
      <4>2. Undelivered = h
        BY <1>5, <3>3
      <4>. QED
        BY <4>1, <4>2
    <3>. QED
      BY <1>3, <3>2, <3>3
  <2>. QED
    BY <1>6, <2>2, <2>4, StaysInOrder
<1>8. CASE ~aborted
  <2>1. own = <<>>
    BY <1>8
  <2>. HIDE DEF own, aborted
  <2>2. back = h
    BY <1>5, <2>1
  <2>. HIDE DEF back
  <2>3. Undelivered' = Undelivered
    <3>1. Undelivered' = <<>> \o (doneq \o h)
      BY <1>1, <1>4, <2>2 DEF Undelivered
    <3>2. CASE h = <<>>
      BY <1>5, <3>1, <3>2
    <3>3. CASE doneq = <<>>
      BY <1>5, <3>1, <3>3
    <3>. QED
      BY <1>3, <3>2, <3>3
  <2>. QED
    BY <1>6, <2>3, StaysInOrder
<1>. QED
  BY <1>7, <1>8

(* ghd_doneq_process delivers the oldest.                                  *)
LEMMA DeliverOrder ==
  ASSUME QueueInv, DoneqGet
  PROVE  /\ InOrder(Undelivered, Undelivered')
         /\ pc'[DoneqSoft] = "dq_call" => cmd'[DoneqSoft] = Head(Undelivered)
<1>. USE DEF calls, locks, timers, doneqs, device, ghosts, Goto
<1>1. pc[DoneqSoft] = "dq_get" /\ frame' = frame /\ DoneqSoft \in Threads
  BY SoftThreads DEF DoneqGet
<1>2. doneq \in Seq(Cmds) /\ NoRepeat(doneq) /\ Undelivered \in Seq(Cmds)
  BY UndeliveredType
<1>3. CASE pollmode \/ doneq = <<>>
  <2>1. doneq' = doneq /\ pc'[DoneqSoft] = "idle"
    BY <1>1, <1>3 DEF DoneqGet, QueueInv, IInv, TypeOK
  <2>. QED
    BY <1>1, <1>2, <2>1, StaysInOrder DEF Undelivered
<1>4. CASE ~pollmode /\ doneq # <<>>
  <2>1. frame.hold = <<>>
    BY <1>4, HoldInPollmode
  <2>2. doneq' = Tail(doneq) /\ cmd'[DoneqSoft] = Head(doneq)
    BY <1>1, <1>4 DEF DoneqGet, QueueInv, IInv, TypeOK
  <2>3. Tail(doneq) \in Seq(Cmds)
    BY <1>2, <1>4, TailElems
  <2>4. Undelivered = doneq /\ Undelivered' = Tail(doneq)
    BY <1>1, <1>2, <2>1, <2>2, <2>3, ConcatEmptySeq DEF Undelivered
  <2>. QED
    BY <1>2, <1>4, <2>2, <2>4, StaysInOrder
<1>. QED
  BY <1>3, <1>4

(* The other steps complete nothing, or complete one request.              *)
LEMMA OtherOrder ==
  ASSUME QueueInv, NEW t \in Threads, Call(t) \/ Step(t), ~PollDrain(t), ~PollPut(t)
  PROVE  /\ UNCHANGED doneq \/ \E c \in Cmds : doneq' = Append(doneq, c)
         /\ frame'.hold = frame.hold
<1>. USE DEF calls, locks, timers, doneqs, device, ghosts, Goto
<1>1. frame \in Frames
  BY DEF QueueInv, IInv, TypeOK
<1>2. ASSUME NEW c \in Cmds, Complete(c) PROVE doneq' = Append(doneq, c)
  BY <1>2 DEF Complete
<1>3. CASE Call(t) \/ EnterPolled(t) \/ EnterAbort(t) \/ EnterReset(t)
             \/ TransportEnqueue(t) \/ TransportTryFails(t) \/ TransportTryOk(t)
             \/ WaitqDone(t) \/ WaitqPop(t)
  BY <1>1, <1>3
  DEF Call, Transport, Abort, Reset, EnterPolled, EnterAbort, EnterReset, Enter,
      TransportEnqueue, TransportTryFails, TransportTryOk, WaitqDone, WaitqPop, Frames
<1>4. CASE HbaAccepts(t) \/ HbaRefuses(t) \/ WaitqRequeue(t) \/ ReleaseWaitq(t)
             \/ IntrPhase(t) \/ IntrNone(t) \/ PollGiveUp(t) \/ PollmodeExit(t)
             \/ PollmodeTrigger(t)
  BY <1>1, <1>4
  DEF HbaAccepts, HbaRefuses, WaitqRequeue, ReleaseWaitq, IntrPhase, StatusProcessed,
      IntrNone, PollGiveUp, PollmodeExit, PollmodeTrigger, Frames
<1>5. CASE Finish(t) \/ TimerNone(t) \/ TimerGet(t) \/ NewstateCannot(t) \/ NewstateHung(t)
  BY <1>1, <1>5
  DEF Finish, TimerNone, TimerGet, NewstateCannot, NewstateHung, Frames
<1>6. CASE ReleaseHba(t)
  <2>1. frame.hold = <<>>
    BY <1>6 DEF ReleaseHba, QueueInv, Control, AtPoint, Leaving
  <2>. QED
    BY <1>6, <2>1 DEF ReleaseHba, NoFrame
<1>7. CASE HbaFinishesAtOnce(t) \/ IntrComplete(t)
  <2>1. active \in Cmds
    BY <1>7 DEF HbaFinishesAtOnce, IntrComplete, QueueInv, IInv, Pointers
  <2>2. Complete(active) /\ frame'.hold = frame.hold
    BY <1>1, <1>7
    DEF HbaFinishesAtOnce, IntrComplete, StatusProcessed, CompleteActive, Frames
  <2>. QED
    BY <1>2, <2>1, <2>2
<1>8. CASE NewstateReset(t)
  <2>1. active \in Cmds /\ Complete(active) /\ frame' = frame
    BY <1>8, ResetCompletes DEF NewstateReset
  <2>. QED
    BY <1>2, <2>1
<1>9. CASE NewstateEarly(t)
  <2>1. frame.run \in Cmds /\ Complete(frame.run) /\ frame' = frame
    BY <1>9 DEF NewstateEarly, QueueInv, IInv, Pointers
  <2>. QED
    BY <1>2, <2>1
<1>. QED
  BY <1>3, <1>4, <1>5, <1>6, <1>7, <1>8, <1>9 DEF Step

(* The software interrupts and the beginning of an interrupt complete      *)
(* nothing.                                                                *)
LEMMA SoftOrder ==
  ASSUME QueueInv,
         IntrReturn \/ IntrEnter \/ DoneqBegin \/ DoneqCall \/ TimerBegin \/ TimerEnter
  PROVE  UNCHANGED doneq /\ frame'.hold = frame.hold
<1>. USE DEF calls, locks, timers, doneqs, device, ghosts, Goto
<1>1. frame \in Frames
  BY DEF QueueInv, IInv, TypeOK
<1>2. CASE IntrReturn
  <2>1. frame.hold = <<>>
    BY <1>2, SoftThreads DEF IntrReturn, QueueInv, Control, AtPoint, Serving
  <2>. QED
    BY <1>1, <1>2, <2>1 DEF IntrReturn, NoFrame, Frames
<1>3. CASE IntrEnter \/ DoneqBegin \/ DoneqCall \/ TimerBegin \/ TimerEnter
  BY <1>3 DEF IntrEnter, DoneqBegin, DoneqCall, TimerBegin, TimerEnter
<1>. QED
  BY <1>2, <1>3

(* Every step keeps the completions in order, and delivers the oldest.     *)
LEMMA OrderStep ==
  ASSUME QueueInv, HoldFirst, [Next]_vars
  PROVE  /\ InOrder(Undelivered, Undelivered')
         /\ pc[DoneqSoft] = "dq_get" /\ pc'[DoneqSoft] = "dq_call"
              => cmd'[DoneqSoft] = Head(Undelivered)
<1>. USE DEF calls, locks, timers, doneqs, device, ghosts, Goto
<1>1. Undelivered \in Seq(Cmds)
  BY UndeliveredType
<1>2. ASSUME UNCHANGED doneq, frame'.hold = frame.hold
      PROVE  InOrder(Undelivered, Undelivered')
  BY <1>1, <1>2, StaysInOrder DEF Undelivered
<1>3. ASSUME NEW t \in Threads, Call(t) \/ Step(t)
      PROVE  /\ InOrder(Undelivered, Undelivered')
             /\ pc[DoneqSoft] = "dq_get" => pc'[DoneqSoft] # "dq_call"
  <2>1. InOrder(Undelivered, Undelivered')
    <3>1. CASE PollDrain(t) \/ PollPut(t)
      BY <3>1, DrainOrder, PutOrder
    <3>2. CASE ~PollDrain(t) /\ ~PollPut(t)
      <4>1. /\ UNCHANGED doneq \/ \E c \in Cmds : doneq' = Append(doneq, c)
            /\ frame'.hold = frame.hold
        BY <1>3, <3>2, OtherOrder
      <4>2. ASSUME NEW c \in Cmds, doneq' = Append(doneq, c)
            PROVE  InOrder(Undelivered, Undelivered')
        <5>1. Undelivered' = Append(Undelivered, c)
          BY <4>1, <4>2, CompletedLast
        <5>. QED
          BY <1>1, <5>1, StaysInOrder
      <4>. QED
        BY <1>2, <4>1, <4>2
    <3>. QED
      BY <3>1, <3>2
  <2>2. pc[DoneqSoft] = "dq_get" => pc'[DoneqSoft] = pc[DoneqSoft]
    <3>1. Local(t)
      BY <1>3, LocalSteps DEF QueueInv
    <3>2. pc[t] # "dq_get"
      <4>1. CASE Call(t) \/ EnterPolled(t) \/ EnterAbort(t) \/ EnterReset(t)
                   \/ TransportEnqueue(t) \/ TransportTryFails(t) \/ TransportTryOk(t)
                   \/ WaitqDone(t) \/ WaitqPop(t)
        BY <4>1
        DEF Call, Transport, Abort, Reset, EnterPolled, EnterAbort, EnterReset, Enter,
            TransportEnqueue, TransportTryFails, TransportTryOk, WaitqDone, WaitqPop
      <4>2. CASE HbaAccepts(t) \/ HbaRefuses(t) \/ WaitqRequeue(t) \/ ReleaseHba(t)
                   \/ ReleaseWaitq(t) \/ IntrPhase(t) \/ IntrNone(t) \/ PollGiveUp(t)
                   \/ PollmodeExit(t) \/ PollmodeTrigger(t) \/ PollDrain(t) \/ PollPut(t)
        BY <4>2
        DEF HbaAccepts, HbaRefuses, WaitqRequeue, ReleaseHba, ReleaseWaitq, IntrPhase,
            StatusProcessed, IntrNone, PollGiveUp, PollmodeExit, PollmodeTrigger, PollDrain,
            PollPut
      <4>3. CASE Finish(t) \/ TimerNone(t) \/ TimerGet(t) \/ NewstateCannot(t)
                   \/ NewstateHung(t) \/ HbaFinishesAtOnce(t) \/ IntrComplete(t)
                   \/ NewstateReset(t) \/ NewstateEarly(t)
        BY <4>3
        DEF Finish, TimerNone, TimerGet, NewstateCannot, NewstateHung, HbaFinishesAtOnce,
            IntrComplete, StatusProcessed, NewstateReset, NewstateEarly
      <4>. QED
        BY <1>3, <4>1, <4>2, <4>3 DEF Step
    <3>. QED
      BY <3>1, <3>2, SoftThreads DEF Local
  <2>. QED
    BY <2>1, <2>2
<1>4. CASE DoneqGet
  BY <1>4, DeliverOrder
<1>5. CASE IntrReturn \/ IntrEnter \/ DoneqBegin \/ DoneqCall \/ TimerBegin \/ TimerEnter
  <2>1. InOrder(Undelivered, Undelivered')
    BY <1>2, <1>5, SoftOrder
  <2>2. pc[DoneqSoft] = "dq_get" => pc'[DoneqSoft] = "dq_get"
    <3>1. CASE DoneqBegin \/ DoneqCall
      BY <3>1 DEF DoneqBegin, DoneqCall
    <3>2. CASE IntrReturn \/ IntrEnter
      BY <3>2, LocalSteps, SoftThreads, GhdAssumption DEF Local, QueueInv
    <3>3. CASE TimerBegin \/ TimerEnter
      BY <3>3, LocalSteps, SoftThreads, GhdAssumption DEF Local, QueueInv
    <3>. QED
      BY <1>5, <3>1, <3>2, <3>3
  <2>. QED
    BY <2>1, <2>2
<1>6. CASE GhdTimeout \/ DeviceInterrupt \/ (\E c \in Cmds : Expire(c)) \/ UNCHANGED vars
  <2>1. UNCHANGED <<pc, frame, doneq>>
    BY <1>6 DEF GhdTimeout, DeviceInterrupt, Expire, vars
  <2>. QED
    BY <1>2, <2>1
<1>. QED
  BY <1>3, <1>4, <1>5, <1>6 DEF Next, SoftStep

(* Between two polls, and within one, nothing new is completed while older *)
(* ones are set aside and the doneq is looked at.                          *)
LEMMA HoldFirstStep ==
  ASSUME QueueInv, HoldFirst, [Next]_vars
  PROVE  HoldFirst'
<1>. USE DEF calls, locks, timers, doneqs, device, ghosts, Goto
<1>. DEFINE At(u) == pc[u] \in {"po_stat", "po_put"} \/ (pc[u] = "ns" /\ frame.nsret = "po_stat")
            Fine(u) == frame.hold # <<>> =>
                         /\ pc[u] \in {"po_stat", "po_put"} => doneq = <<>>
                         /\ ~(pc[u] = "ns" /\ frame.nsret = "po_stat")
<1>1. /\ \A u \in Threads : Fine(u)
      /\ \A u \in Threads : At(u) => hba = u /\ u # NoThread
      /\ frame \in Frames /\ pc \in [Threads -> Labels]
      /\ frame.hold # <<>> => pollmode
      /\ hba = NoThread => frame.hold = <<>>
  BY HoldInPollmode, GhdAssumption
  DEF HoldFirst, QueueInv, IInv, TypeOK, Owners, HbaLabels, Control, OwnerAtWork, NoFrame
<1>2. ASSUME NEW t \in Threads, Local(t), hba = t \/ UNCHANGED doneq, Fine(t)'
      PROVE  HoldFirst'
  <2>. SUFFICES ASSUME NEW u \in Threads, u # t PROVE Fine(u)'
    BY <1>2 DEF HoldFirst
  <2>1. pc'[u] = pc[u]
    BY <1>2 DEF Local
  <2>2. CASE At(u)
    <3>1. hba = u /\ frame' = frame /\ doneq' = doneq
      BY <1>1, <1>2, <2>2, GhdAssumption DEF Local
    <3>. QED
      BY <1>1, <2>1, <3>1
  <2>3. CASE ~At(u)
    <3>1. CASE hba = u
      <4>1. frame' = frame
        BY <1>1, <1>2, <3>1, GhdAssumption DEF Local
      <4>. QED
        BY <2>1, <2>3, <4>1
    <3>2. CASE hba # u
      <4>1. pc[u] \notin {"po_stat", "po_put", "ns"}
        BY <3>2 DEF QueueInv, IInv, Owners, HbaLabels
      <4>. QED
        BY <2>1, <4>1
    <3>. QED
      BY <3>1, <3>2
  <2>. QED
    BY <2>2, <2>3
<1>3. ASSUME NEW t \in Threads, Call(t) \/ Step(t) PROVE HoldFirst'
  <2>1. Local(t)
    BY <1>3, LocalSteps DEF QueueInv
  <2>2. hba = t \/ UNCHANGED doneq
    <3>1. CASE pc[t] \in HbaLabels
      BY <3>1 DEF QueueInv, IInv, Owners
    <3>2. CASE pc[t] \notin HbaLabels
      <4>1. ~PollDrain(t) /\ ~PollPut(t) /\ ~HbaFinishesAtOnce(t) /\ ~IntrComplete(t)
            /\ ~NewstateReset(t) /\ ~NewstateEarly(t)
        BY <3>2
        DEF HbaLabels, PollDrain, PollPut, HbaFinishesAtOnce, IntrComplete,
            StatusProcessed, NewstateReset, NewstateEarly
      <4>2. CASE Call(t) \/ EnterPolled(t) \/ EnterAbort(t) \/ EnterReset(t)
                   \/ TransportEnqueue(t) \/ TransportTryFails(t) \/ TransportTryOk(t)
                   \/ WaitqDone(t) \/ WaitqPop(t)
        BY <4>2
        DEF Call, Transport, Abort, Reset, EnterPolled, EnterAbort, EnterReset, Enter,
            TransportEnqueue, TransportTryFails, TransportTryOk, WaitqDone, WaitqPop
      <4>3. CASE HbaAccepts(t) \/ HbaRefuses(t) \/ WaitqRequeue(t) \/ ReleaseWaitq(t)
                   \/ ReleaseHba(t) \/ IntrPhase(t) \/ IntrNone(t) \/ PollGiveUp(t)
                   \/ PollmodeExit(t) \/ PollmodeTrigger(t)
        BY <4>3
        DEF HbaAccepts, HbaRefuses, WaitqRequeue, ReleaseWaitq, ReleaseHba, IntrPhase,
            StatusProcessed, IntrNone, PollGiveUp, PollmodeExit, PollmodeTrigger
      <4>4. CASE Finish(t) \/ TimerNone(t) \/ TimerGet(t) \/ NewstateCannot(t)
                   \/ NewstateHung(t)
        BY <4>4 DEF Finish, TimerNone, TimerGet, NewstateCannot, NewstateHung
      <4>. QED
        BY <1>3, <4>1, <4>2, <4>3, <4>4 DEF Step
    <3>. QED
      BY <3>1, <3>2
  <2>3. Fine(t)'
    <3>1. CASE Call(t) \/ EnterPolled(t) \/ TransportTryFails(t) \/ TransportTryOk(t)
                 \/ WaitqPop(t) \/ HbaAccepts(t)
      BY <1>1, <3>1
      DEF Call, Transport, Abort, Reset, EnterPolled, Enter, TransportTryFails, Return,
          TransportTryOk, WaitqPop, HbaAccepts, Frames
    <3>2. CASE EnterAbort(t) \/ EnterReset(t)
      <4>1. frame'.hold = <<>>
        BY <1>1, <3>2 DEF EnterAbort, EnterReset, Enter, Frames
      <4>. QED
        BY <4>1
    <3>3. CASE TransportEnqueue(t)
      <4>1. pc'[t] = "po_stat" => op[t] \in Polled
        BY <1>1, <3>3 DEF TransportEnqueue
      <4>2. op[t] \in Polled => frame = NoFrame
        BY <3>3 DEF TransportEnqueue, QueueInv, Control, AtPoint
      <4>3. pc'[t] \in {"po_stat", "tr_try"} /\ frame' = frame
        BY <1>1, <3>3 DEF TransportEnqueue
      <4>. QED
        BY <4>1, <4>2, <4>3 DEF NoFrame
    <3>4. CASE WaitqDone(t) \/ WaitqRequeue(t)
      BY <1>1, <3>4, FrameFields
      DEF WaitqDone, WaitqRequeue, WaitqReturn, QueueInv, IInv, TypeOK
    <3>5. CASE HbaRefuses(t) \/ HbaFinishesAtOnce(t) \/ ReleaseHba(t) \/ ReleaseWaitq(t)
      BY <1>1, <3>5
      DEF HbaRefuses, HbaFinishesAtOnce, ReleaseHba, ReleaseWaitq, Return, NoFrame
    <3>6. CASE IntrPhase(t) \/ IntrComplete(t) \/ IntrNone(t)
      BY <1>1, <3>6 DEF IntrPhase, IntrComplete, IntrNone, StatusProcessed
    <3>7. CASE PollDrain(t) \/ PollGiveUp(t) \/ PollPut(t)
      BY <1>1, <3>7 DEF PollDrain, PollGiveUp, PollPut
    <3>8. CASE PollmodeExit(t) \/ PollmodeTrigger(t) \/ Finish(t) \/ TimerNone(t)
      BY <1>1, <3>8 DEF PollmodeExit, PollmodeTrigger, Finish, Return, TimerNone
    <3>9. CASE TimerGet(t)
      BY <1>1, <3>9 DEF TimerGet, Frames
    <3>10. CASE NewstateCannot(t)
      BY <1>1, <3>10 DEF NewstateCannot, Frames
    <3>11. CASE NewstateEarly(t) \/ NewstateReset(t) \/ NewstateHung(t)
      <4>1. pc[t] = "ns" /\ pc'[t] = frame.nsret /\ frame' = frame
        BY <1>1, <3>11 DEF NewstateEarly, NewstateReset, NewstateHung
      <4>2. frame.nsret \in {"ts_poll", "po_stat", "po_drain"}
        BY <1>1, FrameFields DEF QueueInv, IInv, TypeOK
      <4>. QED
        BY <1>1, <4>1, <4>2
    <3>. QED
      BY <1>3, <3>1, <3>2, <3>3, <3>4, <3>5, <3>6, <3>7, <3>8, <3>9, <3>10, <3>11 DEF Step
  <2>. QED
    BY <1>2, <2>1, <2>2, <2>3
<1>4. CASE DoneqGet
  <2>1. Local(DoneqSoft) /\ DoneqSoft \in Threads
    BY <1>4, LocalSteps, SoftThreads DEF QueueInv
  <2>2. /\ pc'[DoneqSoft] \in {"idle", "dq_call"} /\ frame' = frame
        /\ doneq' # doneq => ~pollmode
    BY <1>1, <1>4, <2>1 DEF DoneqGet
  <2>3. CASE doneq' = doneq
    BY <1>2, <2>1, <2>2, <2>3
  <2>4. CASE ~pollmode
    BY <1>1, <2>2, <2>4 DEF HoldFirst
  <2>. QED
    BY <2>2, <2>3, <2>4
<1>5. CASE DoneqBegin \/ DoneqCall
  <2>1. Local(DoneqSoft) /\ DoneqSoft \in Threads
    BY <1>5, LocalSteps, SoftThreads DEF QueueInv
  <2>2. pc'[DoneqSoft] = "dq_get" /\ UNCHANGED doneq
    BY <1>1, <1>5, <2>1 DEF DoneqBegin, DoneqCall
  <2>. QED
    BY <1>2, <2>1, <2>2
<1>6. CASE IntrReturn \/ IntrEnter
  <2>1. Local(Intr) /\ Intr \in Threads
    BY <1>6, LocalSteps, SoftThreads DEF QueueInv
  <2>2. pc'[Intr] \in {"in_stat", "ex_waitq"} /\ UNCHANGED doneq
    BY <1>1, <1>6, <2>1 DEF IntrReturn, IntrEnter
  <2>. QED
    BY <1>2, <2>1, <2>2
<1>7. CASE TimerBegin \/ TimerEnter
  <2>1. Local(TimerSoft) /\ TimerSoft \in Threads
    BY <1>7, LocalSteps, SoftThreads DEF QueueInv
  <2>2. pc'[TimerSoft] \in {"idle", "ts_enter", "ts_poll"} /\ UNCHANGED doneq
    BY <1>1, <1>7, <2>1 DEF TimerBegin, TimerEnter
  <2>. QED
    BY <1>2, <2>1, <2>2
<1>8. CASE GhdTimeout \/ DeviceInterrupt \/ (\E c \in Cmds : Expire(c)) \/ UNCHANGED vars
  <2>1. UNCHANGED <<pc, frame, doneq>>
    BY <1>8 DEF GhdTimeout, DeviceInterrupt, Expire, vars
  <2>. QED
    BY <2>1 DEF HoldFirst
<1>. QED
  BY <1>3, <1>4, <1>5, <1>6, <1>7, <1>8 DEF Next, SoftStep

(* The completions nobody has collected keep their order when a poll puts  *)
(* aside those that are not its own, and are delivered in that order.      *)
THEOREM CompletionsInOrder ==
  Spec => CompletionOrder
<1>1. Init => HoldFirst
  BY DEF Init, NoFrame, HoldFirst
<1>2. Spec => []HoldFirst
  BY <1>1, HoldFirstStep, QueueInvAlways, PTL DEF Spec
<1>3. QueueInv /\ HoldFirst /\ [Next]_vars =>
        [ /\ \A c, e \in Elems(Undelivered') :
               /\ c # e /\ c \in Elems(Undelivered)
               /\ e \in Elems(Undelivered) => Precedes(Undelivered, c, e)
               => Precedes(Undelivered', c, e)
          /\ pc[DoneqSoft] = "dq_get" /\ pc'[DoneqSoft] = "dq_call"
               => cmd'[DoneqSoft] = Head(Undelivered) ]_vars
  BY OrderStep DEF InOrder
<1>. QED
  BY <1>2, <1>3, QueueInvAlways, PTL DEF Spec, CompletionOrder

-----------------------------------------------------------------------------
(* The refinement of GhdService: the order in the wait queues.             *)

(* Of two requests of a device, x leaves the wait queues before y.         *)
InFront(q, x, y) ==
  /\ Dev[x] = Dev[y]
  /\ \/ Precedes(q.hbaq, x, y)
     \/ x \in Elems(q.hbaq) /\ y \in Elems(q.devq[Dev[y]])
     \/ Precedes(q.devq[Dev[y]], x, y)

(* Both of them wait then.                                                 *)
LEMMA InFrontWaits ==
  ASSUME NEW q, NEW x, NEW y, InFront(q, x, y)
  PROVE  Waits(q, x) /\ Waits(q, y)
BY PrecedesOne DEF InFront, Waits

(* Promotion overtakes nobody of the same device,                          *)
LEMMA ShuffleUpOrder ==
  ASSUME NEW q \in WaitqStates, NEW d \in Devs, WaitqInv(q),
         NEW x \in Cmds, NEW y \in Cmds
  PROVE  InFront(ShuffleUp(q, d), x, y) <=> InFront(q, x, y)
<1>. DEFINE s == q.devq[d]
            n == IF Room(q, d) < Len(s) THEN Room(q, d) ELSE Len(s)
            up == SubSeq(s, 1, n)
            rest == SubSeq(s, n + 1, Len(s))
            r == ShuffleUp(q, d)
<1>1. s \in Seq(Cmds) /\ NoRepeat(s) /\ q.hbaq \in Seq(Cmds)
  BY DEF WaitqStates, WaitqInv
<1>2. Room(q, d) \in Nat /\ Len(s) \in Nat
  BY <1>1, RoomType, LenProperties
<1>3. n \in Nat /\ n <= Len(s)
  BY <1>2
<1>4. r.devq = [q.devq EXCEPT ![d] = rest] /\ r.hbaq = q.hbaq \o up
  BY DEF ShuffleUp, WaitqStates
<1>. HIDE DEF n, r
<1>5. /\ up \in Seq(Cmds) /\ rest \in Seq(Cmds) /\ s = up \o rest
      /\ Elems(s) = Elems(up) \cup Elems(rest)
  BY <1>1, <1>3, SplitElems, SplitIs
<1>6. \A e \in Devs : \A c \in Elems(q.devq[e]) : Dev[c] = e
  BY DEF WaitqInv
<1>7. r.devq[d] = rest /\ \A e \in Devs \ {d} : r.devq[e] = q.devq[e]
  BY <1>4 DEF WaitqStates
<1>. HIDE DEF up, rest
<1>8. /\ Elems(r.hbaq) = Elems(q.hbaq) \cup Elems(up)
      /\ Precedes(r.hbaq, x, y) <=> \/ Precedes(q.hbaq, x, y)
                                    \/ x \in Elems(q.hbaq) /\ y \in Elems(up)
                                    \/ Precedes(up, x, y)
  BY <1>1, <1>4, <1>5, ConcatElems, PrecedesConcat
<1>9. Precedes(s, x, y) <=> \/ Precedes(up, x, y)
                            \/ x \in Elems(up) /\ y \in Elems(rest)
                            \/ Precedes(rest, x, y)
  BY <1>5, PrecedesConcat
<1>10. Dev[x] \in Devs /\ Dev[y] \in Devs
  BY WaitqAssumption
<1>11. CASE Dev[y] = d
  BY <1>5, <1>7, <1>8, <1>9, <1>11 DEF InFront, r
<1>12. CASE Dev[y] # d
  <2>1. y \notin Elems(up) /\ (Dev[x] = Dev[y] => x \notin Elems(up))
    BY <1>5, <1>6, <1>12
  <2>2. r.devq[Dev[y]] = q.devq[Dev[y]]
    BY <1>7, <1>10, <1>12
  <2>3. ~Precedes(up, x, y)
    BY <2>1, PrecedesOne
  <2>. QED
    BY <1>8, <2>1, <2>2, <2>3 DEF InFront, r
<1>. QED
  BY <1>11, <1>12

(* a new request comes last,                                               *)
LEMMA EnqueueOrder ==
  ASSUME NEW q \in WaitqStates, NEW c \in Cmds, WaitqInv(q), ~Waits(q, c),
         NEW x \in Cmds, NEW y \in Cmds
  PROVE  InFront(Enqueue(q, c), x, y) <=>
           InFront(q, x, y) \/ (y = c /\ Dev[x] = Dev[c] /\ Waits(q, x))
<1>. DEFINE r == Joined(q, c)
            d == Dev[c]
<1>1. Enqueue(q, c) = ShuffleUp(r, d) /\ d \in Devs /\ Dev[y] \in Devs
  BY WaitqAssumption DEF Enqueue, Joined
<1>2. /\ r \in WaitqStates /\ WaitqInv(r) /\ r.hbaq = q.hbaq
      /\ r.devq = [q.devq EXCEPT ![d] = Append(q.devq[d], c)]
  BY JoinedWaits
<1>. HIDE DEF r
<1>3. /\ q.devq[d] \in Seq(Cmds) /\ r.devq[d] = Append(q.devq[d], c)
      /\ \A e \in Devs \ {d} : r.devq[e] = q.devq[e]
  BY <1>1, <1>2 DEF WaitqStates
<1>4. /\ Elems(r.devq[d]) = Elems(q.devq[d]) \cup {c}
      /\ Precedes(r.devq[d], x, y) <=>
           Precedes(q.devq[d], x, y) \/ (x \in Elems(q.devq[d]) /\ y = c)
  BY <1>3, AppendElems, PrecedesAppend
<1>5. InFront(r, x, y) <=> InFront(q, x, y) \/ (y = c /\ Dev[x] = d /\ Waits(q, x))
  <2>1. CASE Dev[y] = d
    BY <1>2, <1>4, <2>1 DEF InFront, Waits
  <2>2. CASE Dev[y] # d
    BY <1>1, <1>2, <1>3, <2>2 DEF InFront
  <2>. QED
    BY <2>1, <2>2
<1>. QED
  BY <1>1, <1>2, <1>5, ShuffleUpOrder

(* one that leaves changes nothing between the others,                     *)
LEMMA WaitqDeleteOrder ==
  ASSUME NEW q \in WaitqStates, NEW c \in Cmds, WaitqInv(q),
         Waits(q, c) \/ q.level[c] = 3, NEW x \in Cmds, NEW y \in Cmds
  PROVE  InFront(WaitqDelete(q, c), x, y) <=> InFront(q, x, y) /\ x # c /\ y # c
<1>. DEFINE r == Removed(q, c)
            d == Dev[c]
            l == q.level[c]
            dq == IF l = 1 THEN Unlink(q.devq[d], c) ELSE q.devq[d]
            hq == IF l = 2 THEN Unlink(q.hbaq, c) ELSE q.hbaq
<1>1. WaitqDelete(q, c) = ShuffleUp(r, d) /\ d \in Devs /\ Dev[y] \in Devs
  BY WaitqAssumption DEF WaitqDelete, Removed
<1>2. r \in WaitqStates /\ WaitqInv(r)
  BY RemovedWaits
<1>3. r.hbaq = hq /\ r.devq[d] = dq /\ \A e \in Devs \ {d} : r.devq[e] = q.devq[e]
  <2>1. r.hbaq = hq /\ r.devq = [q.devq EXCEPT ![d] = dq]
    BY DEF Removed, WaitqStates
  <2>. QED
    BY <1>1, <2>1 DEF WaitqStates
<1>. HIDE DEF r, l
<1>4. /\ q.devq[d] \in Seq(Cmds) /\ NoRepeat(q.devq[d])
      /\ q.hbaq \in Seq(Cmds) /\ NoRepeat(q.hbaq)
  BY <1>1 DEF WaitqStates, WaitqInv
<1>5. (c \in Elems(q.devq[d]) => l = 1) /\ (c \in Elems(q.hbaq) => l = 2)
  BY <1>1 DEF WaitqInv, l
<1>6. /\ Elems(dq) = Elems(q.devq[d]) \ {c}
      /\ Precedes(dq, x, y) <=> Precedes(q.devq[d], x, y) /\ x # c /\ y # c
  <2>1. CASE l = 1
    BY <1>4, <2>1, UnlinkElems, PrecedesUnlink
  <2>2. CASE l # 1
    BY <1>5, <2>2, PrecedesOne
  <2>. QED
    BY <2>1, <2>2
<1>7. /\ Elems(hq) = Elems(q.hbaq) \ {c}
      /\ Precedes(hq, x, y) <=> Precedes(q.hbaq, x, y) /\ x # c /\ y # c
  <2>1. CASE l = 2
    BY <1>4, <2>1, UnlinkElems, PrecedesUnlink
  <2>2. CASE l # 2
    BY <1>5, <2>2, PrecedesOne
  <2>. QED
    BY <2>1, <2>2
<1>. HIDE DEF dq, hq
<1>8. InFront(r, x, y) <=> InFront(q, x, y) /\ x # c /\ y # c
  <2>1. CASE Dev[y] = d
    BY <1>3, <1>6, <1>7, <2>1 DEF InFront
  <2>2. CASE Dev[y] # d
    BY <1>1, <1>3, <1>7, <2>2 DEF InFront
  <2>. QED
    BY <2>1, <2>2
<1>. QED
  BY <1>1, <1>2, <1>8, ShuffleUpOrder

(* and the head of the adapter's queue is in front of all others,          *)
LEMMA PopOrder ==
  ASSUME NEW q \in WaitqStates, WaitqInv(q), CanStart(q), NEW x \in Cmds, NEW y \in Cmds
  PROVE  InFront(q, x, y) <=>
           \/ InFront(PopHba(q), x, y)
           \/ x = Head(q.hbaq) /\ Dev[x] = Dev[y] /\ Waits(PopHba(q), y)
<1>. DEFINE h == Head(q.hbaq)
            r == PopHba(q)
<1>1. q.hbaq \in Seq(Cmds) /\ q.hbaq # <<>> /\ NoRepeat(q.hbaq)
  BY DEF CanStart, WaitqStates, WaitqInv
<1>2. r.hbaq = Tail(q.hbaq) /\ r.devq = q.devq
  BY DEF PopHba, WaitqStates
<1>3. h \in Elems(q.hbaq) /\ Elems(r.hbaq) = Elems(q.hbaq) \ {h}
  BY <1>1, <1>2, TailElems
<1>4. Precedes(q.hbaq, x, y) <=> (x = h /\ y \in Elems(r.hbaq)) \/ Precedes(r.hbaq, x, y)
  BY <1>1, <1>2, PrecedesTail
<1>. HIDE DEF h, r
<1>. QED
  BY <1>2, <1>3, <1>4 DEF InFront, Waits, h, r

(* as it is when it comes back.                                            *)
LEMMA RequeueOrder ==
  ASSUME NEW q \in WaitqStates, NEW c \in Cmds, NEW x \in Cmds, NEW y \in Cmds
  PROVE  InFront(Requeue(q, c), x, y) <=>
           \/ InFront(q, x, y)
           \/ x = c /\ Dev[x] = Dev[y] /\ Waits(q, y)
<1>. DEFINE r == Requeue(q, c)
            one == <<c>>
<1>1. r.hbaq = one \o q.hbaq /\ r.devq = q.devq /\ q.hbaq \in Seq(Cmds)
  BY DEF Requeue, WaitqStates
<1>2. one \in Seq(Cmds) /\ Elems(one) = {c} /\ ~Precedes(one, x, y)
  BY SingleElem, PrecedesOne
<1>. HIDE DEF one, r
<1>3. /\ Elems(r.hbaq) = {c} \cup Elems(q.hbaq)
      /\ Precedes(r.hbaq, x, y) <=> \/ x = c /\ y \in Elems(q.hbaq)
                                    \/ Precedes(q.hbaq, x, y)
  BY <1>1, <1>2, ConcatElems, PrecedesConcat
<1>. QED
  BY <1>1, <1>3 DEF InFront, Waits, r

-----------------------------------------------------------------------------
(* The refinement of GhdService: its state, request by request.            *)

(* A transport has the request and has not queued it yet.                  *)
Submits(u, c) ==
  cmd[u] = c /\ pc[u] \in {"enter", "tr_enq"} /\ op[u] \in {"transport"} \cup Polled
IsSubmitted(c) == \E u \in Threads : Submits(u, c)

(* Waiting for the service, and done with: finished but not given back.    *)
InLine(c) == IsWaiting(c) \/ IsPopped(c)
Over(c) == c \in owned /\ ~InLine(c) /\ ~IsActive(c) /\ ~IsSubmitted(c)

(* Of two requests in line, x is to be started before y.                   *)
Ahead(x, y) ==
  InFront(wq, x, y) \/ (IsPopped(x) /\ IsWaiting(y) /\ Dev[x] = Dev[y])

ServiceTells ==
  /\ Waiting \cup Popped = {c \in Cmds : InLine(c)}
  /\ {active} \ {NoCmd} = {c \in Cmds : IsActive(c)}
  /\ owned \ (Pending \cup Submitting) = {c \in Cmds : Over(c)}
  /\ ServiceAhead = [y \in Cmds |-> {x \in Cmds : Ahead(x, y)}]

(* The sets of the refinement mapping are these.                           *)
LEMMA ServiceIsTold ==
  QueueInv => ServiceTells
<1>. SUFFICES ASSUME QueueInv PROVE ServiceTells
  OBVIOUS
<1>1. wq \in WaitqStates /\ owned \subseteq Cmds
  BY DEF QueueInv, IInv, TypeOK
<1>2. Waiting \subseteq Cmds /\ Popped \subseteq Cmds
  <2>1. wq.hbaq \in Seq(Cmds) /\ \A d \in Devs : wq.devq[d] \in Seq(Cmds)
    BY <1>1 DEF WaitqStates
  <2>2. Elems(wq.hbaq) \subseteq Cmds /\ \A d \in Devs : Elems(wq.devq[d]) \subseteq Cmds
    BY <2>1, ElemsIs
  <2>3. Popped \subseteq Cmds
    BY DEF Popped, QueueInv, IInv, TypeOK, Pointers
  <2>. QED
    BY <2>2, <2>3 DEF Waiting
<1>3. Waiting \cup Popped = {c \in Cmds : InLine(c)}
  BY <1>2, PendingIs DEF InLine, IsPopped
<1>4. {active} \ {NoCmd} = {c \in Cmds : IsActive(c)}
  BY GhdAssumption DEF IsActive, QueueInv, IInv, TypeOK
<1>5. \A c \in Cmds : c \in Submitting <=> IsSubmitted(c)
  <2>1. \A u \in Threads : op[u] \in {"transport"} \cup Polled => u \in Clients
    BY DEF QueueInv, IInv, Pointers, Polled
  <2>. QED
    BY <2>1 DEF Submitting, IsSubmitted, Submits, Threads
<1>6. owned \ (Pending \cup Submitting) = {c \in Cmds : Over(c)}
  BY <1>1, <1>5, PendingIs DEF Over, InLine
<1>7. ASSUME NEW x \in Cmds, NEW y \in Cmds
      PROVE  Dev[x] = Dev[y] /\ Precedes(Lane(Dev[y]), x, y) <=> Ahead(x, y)
  <2>. DEFINE P == IF Popped # {} THEN <<frame.run>> ELSE <<>>
              one == <<frame.run>>
              d == Dev[y]
              front == P \o wq.hbaq
  <2>1. P \in Seq(Cmds) /\ Elems(P) = Popped /\ ~Precedes(P, x, y)
    <3>1. CASE Popped # {}
      <4>1. Popped = {frame.run} /\ frame.run \in Cmds
        BY <1>2, <3>1 DEF Popped
      <4>2. one \in Seq(Cmds) /\ Elems(one) = {frame.run} /\ ~Precedes(one, x, y)
        BY <4>1, SingleElem, PrecedesOne
      <4>3. P = one
        BY <3>1
      <4>. QED
        BY <4>1, <4>2, <4>3
    <3>2. CASE Popped = {}
      <4>1. <<>> \in Seq(Cmds) /\ Elems(<<>>) = {} /\ ~Precedes(<<>>, x, y)
        BY PrecedesOne, NothingRepeats DEF Elems
      <4>2. P = <<>>
        BY <3>2
      <4>. QED
        BY <3>2, <4>1, <4>2
    <3>. QED
      BY <3>1, <3>2
  <2>2. wq.hbaq \in Seq(Cmds) /\ wq.devq[d] \in Seq(Cmds) /\ Lane(d) = front \o wq.devq[d]
    BY <1>1, WaitqAssumption DEF WaitqStates, Lane
  <2>. HIDE DEF P, d
  <2>3. /\ front \in Seq(Cmds)
        /\ Elems(front) = Popped \cup Elems(wq.hbaq)
        /\ Precedes(front, x, y) <=> \/ x \in Popped /\ y \in Elems(wq.hbaq)
                                     \/ Precedes(wq.hbaq, x, y)
    BY <2>1, <2>2, ConcatElems, PrecedesConcat
  <2>. HIDE DEF front
  <2>4. Precedes(Lane(d), x, y) <=>
          \/ x \in Popped /\ y \in Elems(wq.hbaq)
          \/ Precedes(wq.hbaq, x, y)
          \/ x \in Popped \cup Elems(wq.hbaq) /\ y \in Elems(wq.devq[d])
          \/ Precedes(wq.devq[d], x, y)
    BY <2>2, <2>3, PrecedesConcat
  <2>. QED
    BY <2>4 DEF Ahead, InFront, IsPopped, IsWaiting, Waits, d
<1>8. ServiceAhead = [y \in Cmds |-> {x \in Cmds : Ahead(x, y)}]
  BY <1>7 DEF ServiceAhead
<1>. QED
  BY <1>3, <1>4, <1>6, <1>8 DEF ServiceTells

(* Who is ahead of whom is in line.                                        *)
LEMMA AheadInLine ==
  ASSUME NEW x, NEW y, Ahead(x, y)
  PROVE  InLine(x) /\ InLine(y)
BY InFrontWaits DEF Ahead, InLine, IsWaiting

(* Both before and after a step of the invariant.                          *)
LEMMA ServiceIsToldAfter ==
  QueueInv' => ServiceTells'
BY ServiceIsTold, PTL

(* A step that changes nothing of this is a stutter of the service;        *)
LEMMA IsStutter ==
  ASSUME QueueInv, QueueInv',
         \A c \in Cmds : /\ InLine(c)' <=> InLine(c)
                         /\ IsActive(c)' <=> IsActive(c)
                         /\ Over(c)' <=> Over(c),
         \A x, y \in Cmds : Ahead(x, y)' <=> Ahead(x, y)
  PROVE  UNCHANGED Service!vars
<1>1. ServiceTells /\ ServiceTells'
  BY ServiceIsTold, ServiceIsToldAfter
<1>2. /\ (Waiting \cup Popped)' = Waiting \cup Popped
      /\ ({active} \ {NoCmd})' = {active} \ {NoCmd}
      /\ (owned \ (Pending \cup Submitting))' = owned \ (Pending \cup Submitting)
  BY <1>1 DEF ServiceTells
<1>3. ServiceAhead' = ServiceAhead
  BY <1>1 DEF ServiceTells
<1>. QED
  BY <1>2, <1>3 DEF Service!vars

(* a request joins the line behind those of its device;                    *)
LEMMA IsSubmit ==
  ASSUME QueueInv, QueueInv', NEW c \in Cmds, ~InLine(c), ~IsActive(c), ~Over(c),
         \A x \in Cmds : /\ InLine(x)' <=> InLine(x) \/ x = c
                         /\ IsActive(x)' <=> IsActive(x)
                         /\ Over(x)' <=> Over(x),
         \A x, y \in Cmds : Ahead(x, y)' <=>
           IF y = c THEN Dev[x] = Dev[c] /\ InLine(x) ELSE Ahead(x, y)
  PROVE  Service!Submit(c)
<1>1. ServiceTells /\ ServiceTells'
  BY ServiceIsTold, ServiceIsToldAfter
<1>2. /\ (Waiting \cup Popped)' = (Waiting \cup Popped) \cup {c}
      /\ ({active} \ {NoCmd})' = {active} \ {NoCmd}
      /\ (owned \ (Pending \cup Submitting))' = owned \ (Pending \cup Submitting)
      /\ c \notin (Waiting \cup Popped) \cup ({active} \ {NoCmd})
                    \cup (owned \ (Pending \cup Submitting))
  BY <1>1 DEF ServiceTells
<1>3. ServiceAhead' =
        [ServiceAhead EXCEPT ![c] = {x \in Waiting \cup Popped : Dev[x] = Dev[c]}]
  BY <1>1 DEF ServiceTells
<1>. QED
  BY <1>2, <1>3 DEF Service!Submit

(* one leaves it;                                                          *)
LEMMA IsLeave ==
  ASSUME QueueInv, QueueInv', NEW c \in Cmds, InLine(c),
         \A x \in Cmds : InLine(x)' <=> InLine(x) /\ x # c,
         \A x, y \in Cmds : Ahead(x, y)' <=> Ahead(x, y) /\ x # c /\ y # c
  PROVE  Service!Leave(c)
<1>1. ServiceTells /\ ServiceTells'
  BY ServiceIsTold, ServiceIsToldAfter
<1>2. /\ (Waiting \cup Popped)' = (Waiting \cup Popped) \ {c}
      /\ c \in Waiting \cup Popped
  BY <1>1 DEF ServiceTells
<1>3. ServiceAhead' = [y \in Cmds |-> IF y = c THEN {} ELSE ServiceAhead[y] \ {c}]
  BY <1>1 DEF ServiceTells
<1>. QED
  BY <1>2, <1>3 DEF Service!Leave

(* to be started, when none of its device is ahead and none is active,     *)
LEMMA IsStart ==
  ASSUME QueueInv, QueueInv', NEW c \in Cmds, InLine(c),
         \A x \in Cmds : /\ InLine(x)' <=> InLine(x) /\ x # c
                         /\ ~Ahead(x, c)
                         /\ ~IsActive(x)
                         /\ IsActive(x)' <=> x = c
                         /\ Over(x)' <=> Over(x),
         \A x, y \in Cmds : Ahead(x, y)' <=> Ahead(x, y) /\ x # c /\ y # c
  PROVE  Service!Start(c)
<1>1. ServiceTells /\ ServiceTells'
  BY ServiceIsTold, ServiceIsToldAfter
<1>2. Service!Leave(c)
  BY IsLeave
<1>3. /\ {active} \ {NoCmd} = {} /\ ({active} \ {NoCmd})' = {c}
      /\ (owned \ (Pending \cup Submitting))' = owned \ (Pending \cup Submitting)
  BY <1>1 DEF ServiceTells
<1>4. ServiceAhead[c] = {}
  BY <1>1 DEF ServiceTells
<1>5. Service!Cardinality({active} \ {NoCmd}) = 0
  <2>1. Service!Cardinality({active} \ {NoCmd}) = Cardinality({active} \ {NoCmd})
    BY DEF Cardinality, Service!Cardinality
  <2>. QED
    BY <1>3, <2>1, FS_EmptySet
<1>6. ({active} \ {NoCmd})' = ({active} \ {NoCmd}) \cup {c}
  BY <1>3
<1>. QED
  BY <1>2, <1>3, <1>4, <1>5, <1>6 DEF Service!Start

(* or to be finished before that;                                          *)
LEMMA IsWithdraw ==
  ASSUME QueueInv, QueueInv', NEW c \in Cmds, InLine(c),
         \A x \in Cmds : /\ InLine(x)' <=> InLine(x) /\ x # c
                         /\ IsActive(x)' <=> IsActive(x)
                         /\ Over(x)' <=> Over(x) \/ x = c,
         \A x, y \in Cmds : Ahead(x, y)' <=> Ahead(x, y) /\ x # c /\ y # c
  PROVE  Service!Withdraw(c)
<1>1. ServiceTells /\ ServiceTells'
  BY ServiceIsTold, ServiceIsToldAfter
<1>2. Service!Leave(c)
  BY IsLeave
<1>3. /\ ({active} \ {NoCmd})' = {active} \ {NoCmd}
      /\ (owned \ (Pending \cup Submitting))' = (owned \ (Pending \cup Submitting)) \cup {c}
  BY <1>1 DEF ServiceTells
<1>. QED
  BY <1>2, <1>3 DEF Service!Withdraw

(* the started one is finished;                                            *)
LEMMA IsFinish ==
  ASSUME QueueInv, QueueInv', NEW c \in Cmds, IsActive(c),
         \A x \in Cmds : /\ InLine(x)' <=> InLine(x)
                         /\ IsActive(x)' <=> IsActive(x) /\ x # c
                         /\ Over(x)' <=> Over(x) \/ x = c,
         \A x, y \in Cmds : Ahead(x, y)' <=> Ahead(x, y)
  PROVE  Service!FinishCmd(c)
<1>1. ServiceTells /\ ServiceTells'
  BY ServiceIsTold, ServiceIsToldAfter
<1>2. /\ (Waiting \cup Popped)' = Waiting \cup Popped
      /\ c \in {active} \ {NoCmd}
      /\ ({active} \ {NoCmd})' = ({active} \ {NoCmd}) \ {c}
      /\ (owned \ (Pending \cup Submitting))' = (owned \ (Pending \cup Submitting)) \cup {c}
  BY <1>1 DEF ServiceTells
<1>3. ServiceAhead' = ServiceAhead
  BY <1>1 DEF ServiceTells
<1>. QED
  BY <1>2, <1>3 DEF Service!FinishCmd

(* a finished one is given back.                                           *)
LEMMA IsGiveBack ==
  ASSUME QueueInv, QueueInv', NEW c \in Cmds, Over(c),
         \A x \in Cmds : /\ InLine(x)' <=> InLine(x)
                         /\ IsActive(x)' <=> IsActive(x)
                         /\ Over(x)' <=> Over(x) /\ x # c,
         \A x, y \in Cmds : Ahead(x, y)' <=> Ahead(x, y)
  PROVE  Service!GiveBack(c)
<1>1. ServiceTells /\ ServiceTells'
  BY ServiceIsTold, ServiceIsToldAfter
<1>2. /\ (Waiting \cup Popped)' = Waiting \cup Popped
      /\ ({active} \ {NoCmd})' = {active} \ {NoCmd}
      /\ c \in owned \ (Pending \cup Submitting)
      /\ (owned \ (Pending \cup Submitting))' = (owned \ (Pending \cup Submitting)) \ {c}
  BY <1>1 DEF ServiceTells
<1>3. ServiceAhead' = ServiceAhead
  BY <1>1 DEF ServiceTells
<1>. QED
  BY <1>2, <1>3 DEF Service!GiveBack

(* Who is popped, and who is being submitted, after a thread's step.       *)
LEMMA ServiceAfter ==
  ASSUME QueueInv, QueueInv', NEW t \in Threads, Local(t), NEW c \in Cmds
  PROVE  /\ IsPopped(c)' <=> PopsIt(t, c)' \/ (IsPopped(c) /\ ~PopsIt(t, c))
         /\ IsSubmitted(c)' <=> Submits(t, c)' \/ (IsSubmitted(c) /\ ~Submits(t, c))
         /\ PopsIt(t, c) => IsPopped(c)
         /\ Submits(t, c) => IsSubmitted(c)
         /\ IsSubmitted(c) => InHand(c)
<1>1. IsPopped(c)' <=> PopsIt(t, c)' \/ (IsPopped(c) /\ ~PopsIt(t, c))
  BY Updates DEF QueueInv, AllTracked
<1>2. \A u \in Threads : u # t => (Submits(u, c)' <=> Submits(u, c))
  BY DEF Local, Submits
<1>3. \A u \in Threads : Submits(u, c) => HasInHand(u, c)
  BY DEF Submits, HasInHand
<1>4. \A u \in Threads : Submits(u, c) /\ Submits(t, c) => u = t
  BY <1>3 DEF QueueInv, AllTracked, OneHand
<1>5. IsSubmitted(c)' <=> \E u \in Threads : Submits(u, c)'
  BY DEF IsSubmitted
<1>6. IsSubmitted(c) => InHand(c)
  BY <1>3 DEF IsSubmitted, InHand
<1>7. IsSubmitted(c)' <=> Submits(t, c)' \/ (IsSubmitted(c) /\ ~Submits(t, c))
  BY <1>2, <1>4, <1>5 DEF IsSubmitted
<1>. QED
  BY <1>1, <1>6, <1>7, Before DEF IsSubmitted

(* Most steps of threads leave the service as it is.                       *)
LEMMA SameLine ==
  ASSUME QueueInv, QueueInv', NEW t \in Threads, Local(t), UNCHANGED <<wq, active, owned>>,
         \A c \in Cmds : /\ PopsIt(t, c)' <=> PopsIt(t, c)
                         /\ Submits(t, c)' <=> Submits(t, c)
  PROVE  UNCHANGED Service!vars
<1>1. ASSUME NEW c \in Cmds
      PROVE  /\ IsPopped(c)' <=> IsPopped(c)
             /\ IsSubmitted(c)' <=> IsSubmitted(c)
             /\ IsWaiting(c)' <=> IsWaiting(c)
             /\ IsActive(c)' <=> IsActive(c)
  BY ServiceAfter DEF IsWaiting, Waits, IsActive
<1>2. \A c \in Cmds : (InLine(c)' <=> InLine(c)) /\ (Over(c)' <=> Over(c))
  BY <1>1 DEF InLine, Over
<1>3. \A x, y \in Cmds : Ahead(x, y)' <=> Ahead(x, y)
  BY <1>1 DEF Ahead, InFront
<1>. QED
  BY <1>1, <1>2, <1>3, IsStutter

(* sol11ghd_transport, before it queues the request,                       *)
LEMMA TransportServes ==
  ASSUME QueueInv, QueueInv', NEW t \in Threads, NEW c \in Cmds, Transport(t, c)
  PROVE  UNCHANGED Service!vars
<1>. USE DEF calls, locks, timers, doneqs, device, ghosts, Goto
<1>1. Local(t)
  BY LocalSteps DEF Call, QueueInv
<1>2. /\ UNCHANGED <<wq, active>> /\ owned' = owned \cup {c} /\ c \notin owned
      /\ pc[t] = "idle" /\ cmd'[t] = c
      /\ pc'[t] \in {"tr_enq", "enter"} /\ op'[t] \in {"transport"} \cup Polled
  BY DEF Transport, QueueInv, IInv, TypeOK
<1>3. ASSUME NEW x \in Cmds
      PROVE  /\ ~PopsIt(t, x) /\ ~PopsIt(t, x)'
             /\ ~Submits(t, x) /\ (Submits(t, x)' <=> x = c)
  BY <1>2 DEF PopsIt, Submits
<1>4. ASSUME NEW x \in Cmds
      PROVE  /\ IsPopped(x)' <=> IsPopped(x)
             /\ IsSubmitted(x)' <=> IsSubmitted(x) \/ x = c
             /\ IsWaiting(x)' <=> IsWaiting(x)
             /\ IsActive(x)' <=> IsActive(x)
  BY <1>1, <1>2, <1>3, ServiceAfter DEF IsWaiting, Waits, IsActive
<1>5. \A x \in Cmds : (InLine(x)' <=> InLine(x)) /\ (Over(x)' <=> Over(x))
  BY <1>2, <1>4 DEF InLine, Over
<1>6. \A x, y \in Cmds : Ahead(x, y)' <=> Ahead(x, y)
  BY <1>2, <1>4 DEF Ahead, InFront
<1>. QED
  BY <1>4, <1>5, <1>6, IsStutter

(* and when it does;                                                       *)
LEMMA EnqueueServes ==
  ASSUME QueueInv, QueueInv', NEW t \in Threads, NEW c \in Cmds, c = cmd[t],
         TransportEnqueue(t)
  PROVE  Service!Submit(c)
<1>. USE DEF calls, locks, timers, doneqs, device, ghosts, Goto
<1>1. Local(t)
  BY LocalSteps DEF Step, QueueInv
<1>2. /\ pc[t] = "tr_enq" /\ op[t] \in {"transport"} \cup Polled
      /\ wq' = Enqueue(wq, c) /\ UNCHANGED <<active, owned>>
      /\ pc'[t] \in {"po_stat", "tr_try"}
  BY DEF TransportEnqueue, QueueInv, IInv, TypeOK, Control, AtPoint
<1>3. ASSUME NEW x \in Cmds
      PROVE  /\ ~PopsIt(t, x) /\ ~PopsIt(t, x)'
             /\ (Submits(t, x) <=> x = c) /\ ~Submits(t, x)'
  BY <1>2 DEF PopsIt, Submits
<1>4. IsSubmitted(c) /\ InHand(c) /\ OnePlace(c)
  BY <1>1, <1>3, ServiceAfter, Before
<1>5. ~InLine(c) /\ ~IsActive(c) /\ ~Over(c) /\ ~IsWaiting(c) /\ ~IsPopped(c)
  BY <1>4 DEF OnePlace, InLine, Over
<1>6. wq \in WaitqStates /\ WaitqInv(wq) /\ ~Waits(wq, c)
  BY <1>5 DEF QueueInv, IInv, TypeOK, AllTracked, Orderly, IsWaiting
<1>7. ASSUME NEW x \in Cmds
      PROVE  /\ IsPopped(x)' <=> IsPopped(x)
             /\ IsSubmitted(x)' <=> IsSubmitted(x) /\ x # c
             /\ IsWaiting(x)' <=> IsWaiting(x) \/ x = c
             /\ IsActive(x)' <=> IsActive(x)
  <2>1. Waits(wq', x) <=> Waits(wq, x) \/ x = c
    BY <1>2, <1>6, EnqueueWaits
  <2>. QED
    BY <1>1, <1>2, <1>3, <2>1, ServiceAfter DEF IsWaiting, IsActive
<1>8. \A x \in Cmds : (InLine(x)' <=> InLine(x) \/ x = c) /\ (Over(x)' <=> Over(x))
  BY <1>2, <1>5, <1>7 DEF InLine, Over
<1>9. ASSUME NEW x \in Cmds, NEW y \in Cmds
      PROVE  Ahead(x, y)' <=>
               IF y = c THEN Dev[x] = Dev[c] /\ InLine(x) ELSE Ahead(x, y)
  <2>1. InFront(wq', x, y) <=>
          InFront(wq, x, y) \/ (y = c /\ Dev[x] = Dev[c] /\ Waits(wq, x))
    BY <1>2, <1>6, EnqueueOrder
  <2>2. InFront(wq, x, y) => y # c
    BY <1>6, InFrontWaits
  <2>. QED
    BY <1>7, <2>1, <2>2 DEF Ahead, InLine, IsWaiting
<1>. QED
  BY <1>5, <1>7, <1>8, <1>9, IsSubmit

(* the wait queue processing pops the head of the adapter's queue,         *)
LEMMA PopServes ==
  ASSUME QueueInv, QueueInv', NEW t \in Threads, NEW c \in Cmds, c = Head(wq.hbaq),
         WaitqPop(t)
  PROVE  UNCHANGED Service!vars
<1>. USE DEF calls, locks, timers, doneqs, device, ghosts, Goto
<1>1. Local(t)
  BY LocalSteps DEF Step, QueueInv
<1>2. /\ pc[t] = "wq_loop" /\ pc'[t] = "wq_start" /\ CanStart(wq) /\ hba = t
      /\ frame' = [frame EXCEPT !.run = c] /\ wq' = PopHba(wq)
      /\ UNCHANGED <<active, owned>>
  BY DEF WaitqPop, QueueInv, IInv, TypeOK, Owners, HbaLabels
<1>3. frame'.run = c
  BY <1>2 DEF QueueInv, IInv, TypeOK, Frames
<1>4. wq \in WaitqStates /\ WaitqInv(wq)
  BY DEF QueueInv, IInv, TypeOK, AllTracked, Orderly
<1>5. /\ Waits(wq, c) /\ \A x \in Cmds : Waits(wq', x) <=> Waits(wq, x) /\ x # c
      /\ \A x, y \in Cmds : InFront(wq, x, y) <=>
           InFront(wq', x, y) \/ (x = c /\ Dev[x] = Dev[y] /\ Waits(wq', y))
  BY <1>2, <1>4, PopHbaWaits, PopOrder
<1>6. ASSUME NEW x \in Cmds
      PROVE  /\ ~IsPopped(x) /\ (IsPopped(x)' <=> x = c)
             /\ IsSubmitted(x)' <=> IsSubmitted(x)
             /\ IsActive(x)' <=> IsActive(x)
  <2>1. ~IsPopped(x)
    BY <1>2 DEF IsPopped, Popped
  <2>2. (PopsIt(t, x)' <=> x = c) /\ ~Submits(t, x) /\ ~Submits(t, x)'
    BY <1>2, <1>3 DEF PopsIt, Submits
  <2>. QED
    BY <1>1, <1>2, <2>1, <2>2, ServiceAfter DEF IsActive
<1>7. \A x \in Cmds : (InLine(x)' <=> InLine(x)) /\ (Over(x)' <=> Over(x))
  BY <1>2, <1>5, <1>6 DEF InLine, Over, IsWaiting
<1>8. \A x, y \in Cmds : Ahead(x, y)' <=> Ahead(x, y)
  BY <1>5, <1>6 DEF Ahead, IsWaiting
<1>. QED
  BY <1>6, <1>7, <1>8, IsStutter

(* The popped request is the one hba_start is called with.                 *)
LEMMA PoppedIsRun ==
  ASSUME QueueInv, NEW t \in Threads, pc[t] \in {"wq_start", "wq_reject"}
  PROVE  /\ frame.run \in Cmds /\ \A x \in Cmds : IsPopped(x) <=> x = frame.run
         /\ ~IsWaiting(frame.run)
<1>1. hba = t /\ hba # NoThread /\ frame.run \in Cmds
  BY GhdAssumption DEF QueueInv, IInv, Owners, HbaLabels, Pointers
<1>2. \A x \in Cmds : IsPopped(x) <=> x = frame.run
  BY <1>1 DEF IsPopped, Popped
<1>3. PICK c \in Cmds : c = frame.run
  BY <1>1
<1>4. OnePlace(c)
  BY Before
<1>. QED
  BY <1>1, <1>2, <1>3, <1>4 DEF OnePlace

(* puts it back when hba_start refuses it,                                 *)
LEMMA RequeueServes ==
  ASSUME QueueInv, QueueInv', NEW t \in Threads, NEW c \in Cmds, c = frame.run,
         WaitqRequeue(t)
  PROVE  UNCHANGED Service!vars
<1>. USE DEF calls, locks, timers, doneqs, device, ghosts, Goto
<1>1. Local(t)
  BY LocalSteps DEF Step, QueueInv
<1>2. /\ pc[t] = "wq_reject" /\ wq' = Requeue(wq, c) /\ UNCHANGED <<active, owned>>
      /\ pc'[t] = frame.ret
  BY DEF WaitqRequeue, WaitqReturn, QueueInv, IInv, TypeOK
<1>3. pc'[t] \in {"ex_hba", "in_ret", "po_timer"}
  BY <1>2, FrameFields DEF QueueInv, IInv, TypeOK
<1>4. /\ PopsIt(t, c) /\ \A x \in Cmds : IsPopped(x) <=> x = c
      /\ ~Waits(wq, c) /\ wq.level[c] = 3
  <2>1. PopsIt(t, c) /\ (\A x \in Cmds : IsPopped(x) <=> x = c) /\ ~IsWaiting(c)
    BY <1>2, PoppedIsRun DEF PopsIt
  <2>2. StateTells(c)
    BY Before
  <2>. QED
    BY <2>1, <2>2 DEF StateTells, IsWaiting
<1>5. wq \in WaitqStates /\ WaitqInv(wq)
  BY DEF QueueInv, IInv, TypeOK, AllTracked, Orderly
<1>6. /\ \A x \in Cmds : Waits(wq', x) <=> Waits(wq, x) \/ x = c
      /\ \A x, y \in Cmds : InFront(wq', x, y) <=>
           InFront(wq, x, y) \/ (x = c /\ Dev[x] = Dev[y] /\ Waits(wq, y))
  BY <1>2, <1>4, <1>5, RequeueWaits, RequeueOrder
<1>7. ASSUME NEW x \in Cmds
      PROVE  /\ ~IsPopped(x)'
             /\ IsSubmitted(x)' <=> IsSubmitted(x)
             /\ IsActive(x)' <=> IsActive(x)
  <2>1. ~PopsIt(t, x)' /\ ~Submits(t, x) /\ ~Submits(t, x)'
    BY <1>2, <1>3 DEF PopsIt, Submits
  <2>. QED
    BY <1>1, <1>2, <1>4, <2>1, ServiceAfter DEF IsActive
<1>8. \A x \in Cmds : (InLine(x)' <=> InLine(x)) /\ (Over(x)' <=> Over(x))
  BY <1>2, <1>4, <1>6, <1>7 DEF InLine, Over, IsWaiting
<1>9. \A x, y \in Cmds : Ahead(x, y)' <=> Ahead(x, y)
  BY <1>4, <1>6, <1>7 DEF Ahead, IsWaiting
<1>. QED
  BY <1>7, <1>8, <1>9, IsStutter

(* and starts it when it does not.                                         *)
LEMMA AcceptServes ==
  ASSUME QueueInv, QueueInv', NEW t \in Threads, NEW c \in Cmds, c = frame.run,
         HbaAccepts(t)
  PROVE  Service!Start(c)
<1>. USE DEF calls, locks, timers, doneqs, device, ghosts, Goto
<1>1. Local(t)
  BY LocalSteps DEF Step, QueueInv
<1>2. /\ pc[t] = "wq_start" /\ pc'[t] \in {"wq_loop", "wq_fini"}
      /\ active = NoCmd /\ active' = c /\ UNCHANGED <<wq, owned>>
  BY DEF HbaAccepts, QueueInv, IInv, TypeOK
<1>3. PopsIt(t, c) /\ (\A x \in Cmds : IsPopped(x) <=> x = c) /\ ~IsWaiting(c)
  BY <1>2, PoppedIsRun DEF PopsIt
<1>4. ASSUME NEW x \in Cmds
      PROVE  /\ ~IsPopped(x)'
             /\ IsSubmitted(x)' <=> IsSubmitted(x)
             /\ IsWaiting(x)' <=> IsWaiting(x)
             /\ ~IsActive(x) /\ (IsActive(x)' <=> x = c)
  <2>1. ~PopsIt(t, x)' /\ ~Submits(t, x) /\ ~Submits(t, x)'
    BY <1>2 DEF PopsIt, Submits
  <2>. QED
    BY <1>1, <1>2, <1>3, <2>1, ServiceAfter, GhdAssumption DEF IsActive, IsWaiting, Waits
<1>5. \A x \in Cmds : /\ InLine(x)' <=> InLine(x) /\ x # c
                      /\ Over(x)' <=> Over(x)
  BY <1>2, <1>3, <1>4 DEF InLine, Over
<1>6. ASSUME NEW x \in Cmds, NEW y \in Cmds
      PROVE  /\ InFront(wq', x, y) <=> InFront(wq, x, y)
             /\ InFront(wq, x, y) => IsWaiting(x) /\ IsWaiting(y)
  BY <1>2, InFrontWaits DEF IsWaiting
<1>7. ASSUME NEW x \in Cmds, NEW y \in Cmds
      PROVE  (Ahead(x, y)' <=> Ahead(x, y) /\ x # c /\ y # c) /\ ~Ahead(x, c)
  BY <1>3, <1>4, <1>6 DEF Ahead
<1>8. InLine(c)
  BY <1>3 DEF InLine
<1>. QED
  BY <1>4, <1>5, <1>7, <1>8, IsStart

(* GHD_COMPLETE withdraws a request that waits and finishes the active     *)
(* one;                                                                    *)
LEMMA CompleteServes ==
  ASSUME QueueInv, QueueInv', NEW t \in Threads, Local(t), NEW c \in Cmds, Complete(c),
         active' = IF active = c THEN NoCmd ELSE active,
         pc[t] \notin {"wq_start", "wq_reject", "enter", "tr_enq"},
         pc'[t] \notin {"wq_start", "wq_reject", "enter", "tr_enq"}
  PROVE  /\ IsWaiting(c) => Service!Withdraw(c)
         /\ IsActive(c) => Service!FinishCmd(c)
<1>. SUFFICES ASSUME IsWaiting(c) \/ IsActive(c)
              PROVE  /\ IsWaiting(c) => Service!Withdraw(c)
                     /\ IsActive(c) => Service!FinishCmd(c)
  OBVIOUS
<1>1. wq' = WaitqDelete(wq, c) /\ owned' = owned
  BY DEF Complete
<1>2. OnePlace(c) /\ StateTells(c) /\ (IsSubmitted(c) => InHand(c))
  BY Before, ServiceAfter
<1>3. c \in owned /\ ~IsPopped(c) /\ ~IsSubmitted(c) /\ (IsWaiting(c) => ~IsActive(c))
  BY <1>2 DEF OnePlace
<1>4. Waits(wq, c) \/ wq.level[c] = 3
  BY <1>2 DEF StateTells, IsWaiting
<1>5. /\ \A x \in Cmds : Waits(wq', x) <=> Waits(wq, x) /\ x # c
      /\ \A x, y \in Cmds : InFront(wq', x, y) <=> InFront(wq, x, y) /\ x # c /\ y # c
  <2>1. wq \in WaitqStates /\ WaitqInv(wq)
    BY DEF QueueInv, IInv, TypeOK, AllTracked, Orderly
  <2>. QED
    BY <1>1, <1>4, <2>1, WaitqDeleteWaits, WaitqDeleteOrder
<1>6. ASSUME NEW x \in Cmds
      PROVE  /\ IsPopped(x)' <=> IsPopped(x)
             /\ IsSubmitted(x)' <=> IsSubmitted(x)
             /\ IsWaiting(x)' <=> IsWaiting(x) /\ x # c
             /\ IsActive(x)' <=> IsActive(x) /\ x # c
  <2>1. ~PopsIt(t, x) /\ ~PopsIt(t, x)' /\ ~Submits(t, x) /\ ~Submits(t, x)'
    BY DEF PopsIt, Submits
  <2>. QED
    BY <1>5, <2>1, ServiceAfter, GhdAssumption DEF IsActive, IsWaiting
<1>7. \A x \in Cmds : /\ InLine(x)' <=> InLine(x) /\ x # c
                      /\ Over(x)' <=> Over(x) \/ x = c
  BY <1>1, <1>3, <1>6 DEF InLine, Over
<1>8. \A x, y \in Cmds : Ahead(x, y)' <=> Ahead(x, y) /\ x # c /\ y # c
  BY <1>3, <1>5, <1>6 DEF Ahead
<1>9. CASE IsWaiting(c)
  <2>1. InLine(c) /\ \A x \in Cmds : IsActive(x)' <=> IsActive(x)
    BY <1>3, <1>6, <1>9 DEF InLine, IsActive
  <2>2. Service!Withdraw(c)
    BY <1>7, <1>8, <2>1, IsWithdraw
  <2>. QED
    BY <1>3, <1>9, <2>2
<1>10. CASE IsActive(c)
  <2>1. ~InLine(c) /\ ~IsWaiting(c)
    BY <1>2, <1>10 DEF OnePlace, InLine
  <2>2. \A x \in Cmds : InLine(x)' <=> InLine(x)
    BY <1>7, <2>1
  <2>3. \A x, y \in Cmds : Ahead(x, y)' <=> Ahead(x, y)
    BY <1>8, <2>1, AheadInLine
  <2>4. Service!FinishCmd(c)
    BY <1>6, <1>7, <1>10, <2>2, <2>3, IsFinish
  <2>. QED
    BY <2>1, <2>4
<1>. QED
  BY <1>9, <1>10

(* a polled transport, and the callback, give it back.                     *)
LEMMA GiveBackServes ==
  ASSUME QueueInv, QueueInv', NEW t \in Threads, Local(t), NEW c \in Cmds, c = cmd[t],
         HasInHand(t, c), UNCHANGED <<wq, active>>, owned' = owned \ {c},
         pc[t] \notin {"wq_start", "wq_reject", "enter", "tr_enq"},
         pc'[t] \notin {"wq_start", "wq_reject", "enter", "tr_enq"}
  PROVE  Service!GiveBack(c)
<1>1. \A x \in Cmds : ~PopsIt(t, x) /\ ~PopsIt(t, x)' /\ ~Submits(t, x) /\ ~Submits(t, x)'
  BY DEF PopsIt, Submits
<1>2. ASSUME NEW x \in Cmds
      PROVE  /\ IsPopped(x)' <=> IsPopped(x)
             /\ IsSubmitted(x)' <=> IsSubmitted(x)
             /\ IsWaiting(x)' <=> IsWaiting(x)
             /\ IsActive(x)' <=> IsActive(x)
  BY <1>1, ServiceAfter DEF IsWaiting, Waits, IsActive
<1>3. Over(c)
  <2>1. c \in owned /\ ~InLine(c) /\ ~IsActive(c)
    BY Before DEF OnePlace, InLine
  <2>2. ~IsSubmitted(c)
    <3>1. \A u \in Threads : Submits(u, c) => HasInHand(u, c)
      BY DEF Submits, HasInHand
    <3>. QED
      BY <1>1, <3>1 DEF IsSubmitted, QueueInv, AllTracked, OneHand
  <2>. QED
    BY <2>1, <2>2 DEF Over
<1>4. \A x \in Cmds : (InLine(x)' <=> InLine(x)) /\ (Over(x)' <=> Over(x) /\ x # c)
  BY <1>2 DEF InLine, Over
<1>5. \A x, y \in Cmds : Ahead(x, y)' <=> Ahead(x, y)
  BY <1>2 DEF Ahead, InFront
<1>. QED
  BY <1>2, <1>3, <1>4, <1>5, IsGiveBack

(* So every step is one of the service, or a stutter.                      *)
LEMMA ServiceStep ==
  ASSUME QueueInv, QueueInv', [Next]_vars
  PROVE  [Service!Next]_(Service!vars)
<1>. USE DEF calls, locks, timers, doneqs, device, ghosts, Goto
<1>. DEFINE Busy == {"wq_start", "wq_reject", "enter", "tr_enq"}
<1>1. ASSUME NEW t \in Threads, Local(t), UNCHANGED <<wq, active, owned>>,
             pc[t] \notin Busy, pc'[t] \notin Busy
      PROVE  UNCHANGED Service!vars
  BY <1>1, SameLine DEF PopsIt, Submits
<1>2. pc \in [Threads -> Labels] /\ op \in [Threads -> {"none"} \cup AllOps]
  BY DEF QueueInv, IInv, TypeOK
<1>3. ASSUME NEW c \in Cmds,
             \/ Service!Submit(c) \/ Service!Start(c) \/ Service!Withdraw(c)
             \/ Service!FinishCmd(c) \/ Service!GiveBack(c)
      PROVE  Service!Next
  BY <1>3 DEF Service!Next
<1>4. ASSUME NEW t \in Threads, Call(t) \/ Step(t) PROVE [Service!Next]_(Service!vars)
  <2>1. Local(t)
    BY <1>4, LocalSteps DEF QueueInv
  <2>2. CASE Call(t)
    <3>1. ASSUME NEW c \in Cmds, Abort(t, c) \/ Reset(t, c) PROVE UNCHANGED Service!vars
      <4>1. /\ UNCHANGED <<wq, active, owned>> /\ pc[t] = "idle" /\ pc'[t] = "enter"
            /\ op'[t] \in {"abort", "lun", "target", "bus"}
        BY <1>2, <3>1 DEF Abort, Reset, FirstAction
      <4>2. \A x \in Cmds : ~PopsIt(t, x) /\ ~PopsIt(t, x)' /\ ~Submits(t, x) /\ ~Submits(t, x)'
        BY <4>1 DEF PopsIt, Submits, Polled
      <4>. QED
        BY <2>1, <4>1, <4>2, SameLine
    <3>. QED
      BY <2>2, <3>1, TransportServes DEF Call
  <2>3. CASE EnterPolled(t)
    <3>1. /\ UNCHANGED <<wq, active, owned, op, cmd>> /\ pc[t] = "enter" /\ pc'[t] = "tr_enq"
      BY <1>2, <2>3 DEF EnterPolled, Enter
    <3>2. \A x \in Cmds : /\ PopsIt(t, x)' <=> PopsIt(t, x)
                          /\ Submits(t, x)' <=> Submits(t, x)
      BY <3>1 DEF PopsIt, Submits
    <3>. QED
      BY <2>1, <3>1, <3>2, SameLine
  <2>4. CASE EnterAbort(t) \/ EnterReset(t)
    <3>1. /\ UNCHANGED <<wq, active, owned>> /\ pc[t] = "enter" /\ pc'[t] \in {"ns", "pm_exit"}
          /\ op[t] \in {"abort", "lun", "target", "bus"}
      BY <1>2, <2>4 DEF EnterAbort, EnterReset, Enter, FirstAction
    <3>2. \A x \in Cmds : ~PopsIt(t, x) /\ ~PopsIt(t, x)' /\ ~Submits(t, x) /\ ~Submits(t, x)'
      BY <3>1 DEF PopsIt, Submits, Polled
    <3>. QED
      BY <2>1, <3>1, <3>2, SameLine
  <2>5. CASE TransportTryFails(t) \/ TransportTryOk(t) \/ ReleaseHba(t) \/ ReleaseWaitq(t)
               \/ IntrPhase(t) \/ IntrNone(t) \/ PollDrain(t) \/ PollGiveUp(t) \/ PollPut(t)
    <3>1. UNCHANGED <<wq, active, owned>> /\ pc[t] \notin Busy /\ pc'[t] \notin Busy
      BY <1>2, <2>5
      DEF TransportTryFails, TransportTryOk, ReleaseHba, ReleaseWaitq, Return, IntrPhase,
          StatusProcessed, IntrNone, PollDrain, PollGiveUp, PollPut
    <3>. QED
      BY <1>1, <2>1, <3>1
  <2>6. CASE PollmodeExit(t) \/ PollmodeTrigger(t) \/ TimerNone(t) \/ TimerGet(t)
               \/ WaitqDone(t) \/ NewstateCannot(t) \/ NewstateHung(t)
    <3>1. UNCHANGED <<wq, active, owned>> /\ pc[t] \notin Busy /\ pc'[t] \notin Busy
      BY <1>2, <2>6, FrameFields
      DEF PollmodeExit, PollmodeTrigger, TimerNone, TimerGet, WaitqDone, WaitqReturn,
          NewstateCannot, NewstateHung, QueueInv, IInv, TypeOK
    <3>. QED
      BY <1>1, <2>1, <3>1
  <2>7. CASE HbaRefuses(t)
    <3>1. /\ UNCHANGED <<wq, active, owned, frame>>
          /\ pc[t] = "wq_start" /\ pc'[t] = "wq_reject"
      BY <1>2, <2>7 DEF HbaRefuses
    <3>2. \A x \in Cmds : /\ PopsIt(t, x)' <=> PopsIt(t, x)
                          /\ Submits(t, x)' <=> Submits(t, x)
      BY <3>1 DEF PopsIt, Submits
    <3>. QED
      BY <2>1, <3>1, <3>2, SameLine
  <2>8. CASE TransportEnqueue(t)
    <3>1. PICK c \in Cmds : c = cmd[t]
      BY <2>8 DEF TransportEnqueue, QueueInv, IInv, Pointers
    <3>. QED
      BY <1>3, <2>8, <3>1, EnqueueServes
  <2>9. CASE WaitqPop(t)
    <3>1. PICK c \in Cmds : c = Head(wq.hbaq)
      BY <2>9, PopHbaType DEF WaitqPop, QueueInv, IInv, TypeOK
    <3>. QED
      BY <2>9, <3>1, PopServes
  <2>10. CASE WaitqRequeue(t) \/ HbaAccepts(t)
    <3>1. PICK c \in Cmds : c = frame.run
      BY <2>10 DEF WaitqRequeue, HbaAccepts, QueueInv, IInv, Pointers
    <3>. QED
      BY <1>3, <2>10, <3>1, RequeueServes, AcceptServes
  <2>11. CASE HbaFinishesAtOnce(t) \/ IntrComplete(t) \/ NewstateReset(t)
    <3>1. pc[t] \notin Busy /\ pc'[t] \notin Busy
      BY <1>2, <2>11, FrameFields
      DEF HbaFinishesAtOnce, IntrComplete, StatusProcessed, NewstateReset, QueueInv, IInv,
          TypeOK
    <3>2. active \in Cmds /\ active' = NoCmd /\ Complete(active)
      <4>1. CASE NewstateReset(t)
        BY <4>1, ResetCompletes
      <4>2. CASE HbaFinishesAtOnce(t) \/ IntrComplete(t)
        BY <4>2 DEF HbaFinishesAtOnce, IntrComplete, CompleteActive, QueueInv, IInv, Pointers
      <4>. QED
        BY <2>11, <4>1, <4>2
    <3>3. PICK c \in Cmds : c = active
      BY <3>2
    <3>4. Complete(c) /\ IsActive(c) /\ active' = IF active = c THEN NoCmd ELSE active
      BY <3>2, <3>3 DEF IsActive
    <3>. QED
      BY <1>3, <2>1, <3>1, <3>4, CompleteServes
  <2>12. CASE NewstateEarly(t)
    <3>1. /\ pc[t] = "ns" /\ pc'[t] = frame.nsret
          /\ frame.act \in EarlyActions /\ frame.run \in Cmds
          /\ Complete(frame.run) /\ active' = active
      BY <1>2, <2>12 DEF NewstateEarly, EarlyActions, QueueInv, IInv, Pointers
    <3>2. PICK c \in Cmds : c = frame.run
      BY <3>1
    <3>3. pc[t] \notin Busy /\ pc'[t] \notin Busy
      BY <3>1, FrameFields DEF QueueInv, IInv, TypeOK
    <3>4. IsWaiting(c) /\ active # c
      <4>1. IsWaiting(c)
        BY <3>1, <3>2, GhdAssumption DEF QueueInv, Stepping
      <4>. QED
        BY <4>1, Before DEF OnePlace, IsActive
    <3>5. Complete(c) /\ active' = IF active = c THEN NoCmd ELSE active
      BY <3>1, <3>2, <3>4
    <3>. QED
      BY <1>3, <2>1, <3>3, <3>4, <3>5, CompleteServes
  <2>13. CASE Finish(t)
    <3>1. /\ pc[t] = "finish" /\ pc'[t] = "idle" /\ UNCHANGED <<wq, active>>
          /\ owned' = owned \ {cmd[t]} /\ op[t] \in Polled /\ cmd[t] \in Cmds
      BY <1>2, <2>13
      DEF Finish, Return, QueueInv, IInv, Pointers, Control, AtPoint, Polled
    <3>2. PICK c \in Cmds : c = cmd[t]
      BY <3>1
    <3>3. HasInHand(t, c)
      BY <3>1, <3>2 DEF HasInHand
    <3>. QED
      BY <1>3, <2>1, <3>1, <3>2, <3>3, GiveBackServes
  <2>. QED
    BY <1>4, <2>2, <2>3, <2>4, <2>5, <2>6, <2>7, <2>8, <2>9, <2>10, <2>11, <2>12, <2>13
    DEF Step
<1>5. CASE SoftStep \/ IntrEnter
  <2>1. CASE IntrReturn \/ IntrEnter
    <3>1. UNCHANGED <<wq, active, owned>> /\ pc[Intr] \notin Busy /\ pc'[Intr] \notin Busy
      BY <1>2, <2>1, SoftThreads DEF IntrReturn, IntrEnter
    <3>. QED
      BY <1>1, <2>1, <3>1, LocalSteps, SoftThreads DEF QueueInv
  <2>2. CASE DoneqBegin \/ DoneqGet
    <3>1. /\ UNCHANGED <<wq, active, owned>>
          /\ pc[DoneqSoft] \notin Busy /\ pc'[DoneqSoft] \notin Busy
      BY <1>2, <2>2, SoftThreads DEF DoneqBegin, DoneqGet
    <3>. QED
      BY <1>1, <2>2, <3>1, LocalSteps, SoftThreads DEF QueueInv
  <2>3. CASE DoneqCall
    <3>1. PICK t \in Threads : t = DoneqSoft
      BY SoftThreads
    <3>2. /\ pc[t] = "dq_call" /\ pc'[t] = "dq_get" /\ UNCHANGED <<wq, active>>
          /\ owned' = owned \ {cmd[t]} /\ cmd[t] \in Cmds
      BY <1>2, <2>3, <3>1 DEF DoneqCall, QueueInv, IInv, Pointers
    <3>3. PICK c \in Cmds : c = cmd[t]
      BY <3>2
    <3>4. HasInHand(t, c) /\ Local(t)
      BY <2>3, <3>1, <3>2, <3>3, LocalSteps DEF HasInHand, QueueInv
    <3>. QED
      BY <1>3, <3>2, <3>3, <3>4, GiveBackServes
  <2>4. CASE TimerBegin \/ TimerEnter
    <3>1. /\ UNCHANGED <<wq, active, owned>>
          /\ pc[TimerSoft] \notin Busy /\ pc'[TimerSoft] \notin Busy
      BY <1>2, <2>4, SoftThreads DEF TimerBegin, TimerEnter
    <3>. QED
      BY <1>1, <2>4, <3>1, LocalSteps, SoftThreads DEF QueueInv
  <2>. QED
    BY <1>5, <2>1, <2>2, <2>3, <2>4 DEF SoftStep
<1>6. CASE GhdTimeout \/ DeviceInterrupt \/ (\E c \in Cmds : Expire(c)) \/ UNCHANGED vars
  <2>1. UNCHANGED <<pc, op, cmd, hba, frame, wq, active, owned>>
    BY <1>6 DEF GhdTimeout, DeviceInterrupt, Expire, vars
  <2>2. \A c \in Cmds : /\ IsPopped(c)' <=> IsPopped(c)
                        /\ IsSubmitted(c)' <=> IsSubmitted(c)
                        /\ IsWaiting(c)' <=> IsWaiting(c)
                        /\ IsActive(c)' <=> IsActive(c)
    BY <2>1 DEF IsPopped, Popped, IsSubmitted, Submits, IsWaiting, Waits, IsActive
  <2>3. \A c \in Cmds : (InLine(c)' <=> InLine(c)) /\ (Over(c)' <=> Over(c))
    BY <2>1, <2>2 DEF InLine, Over
  <2>4. \A x, y \in Cmds : Ahead(x, y)' <=> Ahead(x, y)
    BY <2>1, <2>2 DEF Ahead, InFront
  <2>. QED
    BY <2>2, <2>3, <2>4, IsStutter
<1>. QED
  BY <1>4, <1>5, <1>6 DEF Next

(* At first the service has no request either.                             *)
LEMMA InitService ==
  Init => Service!Init
<1>. SUFFICES ASSUME Init PROVE Service!Init
  OBVIOUS
<1>1. ServiceTells
  BY InitQueueInv, ServiceIsTold
<1>2. /\ wq.hbaq = <<>> /\ \A d \in Devs : wq.devq[d] = <<>>
      /\ owned = {} /\ active = NoCmd /\ Popped = {}
  BY DEF Init, EmptyWaitq, Popped
<1>3. \A c \in Cmds : ~IsWaiting(c) /\ ~InLine(c) /\ ~IsActive(c) /\ ~Over(c)
  BY <1>2, NothingRepeats, WaitqAssumption, GhdAssumption
  DEF IsWaiting, Waits, InLine, IsPopped, IsActive, Over
<1>4. \A x, y \in Cmds : ~Ahead(x, y)
  BY <1>3, AheadInLine
<1>5. /\ Waiting \cup Popped = {} /\ {active} \ {NoCmd} = {}
      /\ owned \ (Pending \cup Submitting) = {}
      /\ ServiceAhead = [c \in Cmds |-> {}]
  BY <1>1, <1>3, <1>4 DEF ServiceTells
<1>. QED
  BY <1>5 DEF Service!Init

(* GHD keeps what it promises its target drivers: with its mutexes, queue  *)
(* levels, throttles, timers, polls and software interrupts it does what   *)
(* the service does, so the requests of a device start in the order they   *)
(* were queued, one at a time on the adapter, and each comes back once.    *)
THEOREM GhdImplementsService ==
  Spec => ImplementsService
<1>1. Init => Service!Init
  BY InitService
<1>2. QueueInv /\ QueueInv' /\ [Next]_vars => [Service!Next]_(Service!vars)
  BY ServiceStep
<1>. QED
  BY <1>1, <1>2, QueueInvAlways, PTL DEF Spec, ImplementsService, Service!Spec

=============================================================================
