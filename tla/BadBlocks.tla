----------------------------- MODULE BadBlocks -----------------------------
(***************************************************************************)
(* The bad block table of cmdk.c: how the entries of a slice are found and *)
(* how a transfer is cut into cookies that go around bad clusters.         *)
(*                                                                         *)
(* A table is a sequence of entries sorted by bad_start; indices are those *)
(* of the C arrays plus one, and 0 stands for the -1 of cmdk_bbh_bsearch.  *)
(***************************************************************************)
EXTENDS Integers, Sequences

Entry(bs, be, gs) == [bad_start |-> bs, bad_end |-> be, good_start |-> gs]
Cookie(sec, len)  == [sector |-> sec, seclen |-> len]

(* A table is sorted and its clusters lie apart.                           *)
Sorted(tbl) ==
  /\ tbl \in Seq([bad_start : Nat, bad_end : Nat, good_start : Nat])
  /\ \A k \in 1 .. Len(tbl) : tbl[k].bad_start <= tbl[k].bad_end
  /\ \A j, k \in 1 .. Len(tbl) : j < k => tbl[j].bad_end < tbl[k].bad_start

(* Where sector sec is: in its alternate if it is bad.                     *)
Home(tbl, sec) ==
  LET hit == {k \in 1 .. Len(tbl) : sec \in tbl[k].bad_start .. tbl[k].bad_end}
      e   == tbl[CHOOSE k \in hit : TRUE]
  IN IF hit = {} THEN sec ELSE e.good_start + sec - e.bad_start

(* The entries cmdk_bbh_reopen keeps for a slice: from the first whose     *)
(* bounds add up to the slice's start or more, as long as they begin in    *)
(* the slice.                                                              *)
SliceEntries(tbl, first, last) ==
  LET from == {j \in 1 .. Len(tbl) : tbl[j].bad_start + tbl[j].bad_end >= first}
      j0   == CHOOSE j \in from : \A k \in from : j <= k
      run  == {k \in j0 .. Len(tbl) : \A j \in j0 .. k : tbl[j].bad_start <= last}
  IN IF from = {} \/ run = {} THEN <<>>
     ELSE SubSeq(tbl, j0, CHOOSE k \in run : \A j \in run : j <= k)

(* The largest power of two that is at most n.                             *)
TopPower(n) ==
  LET p[k \in 1 .. n] == IF 2 * k > n THEN k ELSE p[2 * k] IN p[1]

BsearchFromTop(tbl, key) ==  \* a slip: the half that is out of range ends the search
  LET cnt == Len(tbl)
      step[ind \in 1 .. cnt, interval \in 0 .. cnt, found \in 0 .. cnt] ==
        LET e == tbl[ind]  half == interval \div 2
        IN IF interval = 0 THEN found
           ELSE IF key \in e.bad_start .. e.bad_end THEN ind
           ELSE IF key < e.bad_start
                THEN IF half = 0 THEN ind ELSE step[ind - half, half, ind]
           ELSE IF ind + half > cnt \/ half = 0 THEN found
           ELSE step[ind + half, half, found]
  IN IF cnt = 0 THEN 0 ELSE step[TopPower(cnt), TopPower(cnt), 0]
(* One probe of cmdk_bbh_bsearch at ind, with interval still to halve and  *)
(* found the last entry behind the key; rest is the search that goes on.   *)
Probe(tbl, key, rest, ind, interval, found) ==
  LET cnt == Len(tbl)  e == tbl[ind]  half == interval \div 2
  IN IF interval = 0 THEN found
     ELSE IF key \in e.bad_start .. e.bad_end THEN ind
     ELSE IF key < e.bad_start
          THEN IF half = 0 THEN ind ELSE rest[<<ind - half, half, ind>>]
     ELSE IF ind = cnt \/ half = 0 THEN found
     ELSE rest[<<IF ind + half <= cnt THEN ind + half ELSE ind, half, found>>]

(* cmdk_bbh_bsearch: the entry that holds the key or else the first one    *)
(* behind it; 0 if there is none. An interval never reaches below entry 1. *)
Bsearch(tbl, key) ==
  LET cnt == Len(tbl)
      Probes == {p \in (1 .. cnt) \X (0 .. cnt) \X (0 .. cnt) : p[2] <= p[1]}
      step[p \in Probes] == Probe(tbl, key, step, p[1], p[2], p[3])
  IN IF cnt = 0 THEN 0 ELSE step[<<TopPower(cnt), TopPower(cnt), 0>>]

(* The cookies for the sectors sec .. last against the i-th entry, by the  *)
(* cases of cmdk_bbh_gethandle; rest are those against the entries behind. *)
CutOne(tbl, last, rest, i, sec) ==
  IF i > Len(tbl) THEN <<Cookie(sec, last - sec + 1)>>
  ELSE LET e      == tbl[i]
           head   == Cookie(sec, e.bad_start - sec)
           inside == e.good_start + sec - e.bad_start
       IN CASE last < e.bad_start ->                              \* 1
                 <<Cookie(sec, last - sec + 1)>>
            [] last >= e.bad_start /\ sec > e.bad_end ->
                 rest[<<i + 1, sec>>]                             \* 3
            [] {sec, last} \subseteq e.bad_start .. e.bad_end ->
                 <<Cookie(inside, last - sec + 1)>>               \* 2, 7
            [] sec < e.bad_start /\ last \in e.bad_start .. e.bad_end ->
                 <<head, Cookie(e.good_start, last - e.bad_start + 1)>> \* 5
            [] sec \in e.bad_start .. e.bad_end /\ last > e.bad_end ->
                 <<Cookie(inside, e.bad_end - sec + 1)>>
                   \o rest[<<i + 1, e.bad_end + 1>>]                \* 6
            [] sec < e.bad_start /\ last > e.bad_end ->
                 <<head, Cookie(e.good_start, e.bad_end - e.bad_start + 1)>>
                   \o rest[<<i + 1, e.bad_end + 1>>]                \* 4

(* The cookies for sec0 .. last against the entries from the i0-th on.     *)
CutCookies(tbl, i0, sec0, last) ==
  LET cut[x \in (1 .. Len(tbl) + 1) \X Int] == CutOne(tbl, last, cut, x[1], x[2])
  IN cut[<<i0, sec0>>]

(* cmdk_bbh_gethandle: <<>> stands for no handle.                          *)
GetHandle(tbl, sec, n) ==
  LET i == Bsearch(tbl, sec)
      last == sec + n - 1
  IN IF i = 0 THEN <<>>
     ELSE IF last < tbl[i].bad_start THEN <<>>
     ELSE CutCookies(tbl, i, sec, last)
=============================================================================
