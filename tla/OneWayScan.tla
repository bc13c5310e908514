----------------------------- MODULE OneWayScan -----------------------------
(***************************************************************************)
(* What a one-way scan of the disk promises: the transfers of this pass go *)
(* in the order of their blocks, those to the same block in the order they *)
(* came; a transfer to a block the pass has left behind waits for the      *)
(* next. No lists: a transfer's turn is a comparison with the others.      *)
(***************************************************************************)
EXTENDS Integers

CONSTANTS Bufs, DBLK

VARIABLES waiting, later, before
vars == <<waiting, later, before>>

Init == waiting = {} /\ later = {} /\ before = {}

Precedes(b, c) ==
  \/ DBLK[b] < DBLK[c]
  \/ DBLK[b] = DBLK[c] /\ <<b, c>> \in before

First(b) ==
  /\ b \in waiting
  /\ \A c \in waiting \ {b} :
       \/ b \notin later /\ c \in later
       \/ (b \in later <=> c \in later) /\ Precedes(b, c)

Add(b) ==
  /\ b \in Bufs \ waiting
  /\ waiting' = waiting \cup {b}
  /\ later' = IF \E c \in waiting : First(c) /\ DBLK[b] < DBLK[c]
              THEN later \cup {b} ELSE later
  /\ before' = before \cup (waiting \X {b})

Take(b) ==
  /\ First(b)
  /\ waiting' = waiting \ {b}
  /\ later' = IF waiting' \subseteq later THEN {} ELSE later
  /\ before' = {p \in before : b \notin {p[1], p[2]}}

Next == \E b \in Bufs : Add(b) \/ Take(b)

Spec == Init /\ [][Next]_vars
=============================================================================
