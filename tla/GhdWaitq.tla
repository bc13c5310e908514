------------------------------ MODULE GhdWaitq ------------------------------
(***************************************************************************)
(* The two-level wait queues of one GHD host bus adapter                   *)
(* (src/dktp/hba/ghd/ghd_waitq.c): a queue per device, a queue for the     *)
(* adapter, and at each level a throttle counting the requests released.   *)
(*                                                                         *)
(* Everything here is protected by ccc_waitq_mutex, so it is one record,   *)
(* and each routine of the file is an operator from such a record to the   *)
(* record it leaves when the mutex is dropped.                             *)
(***************************************************************************)
EXTENDS Integers, Sequences, FiniteSets

CONSTANTS
  Cmds,    \* the requests (gcmd_t); NoCmd is not one of them
  Devs,    \* the per-device structures (gdev_t) of the adapter
  Dev,     \* the device of each request
  DevMax,  \* Q_maxactive of each device queue (property "ghd-maxactive")
  NInst,   \* gd_ninstances of each device
  HbaMax   \* Q_maxactive of the adapter's queue

ASSUME WaitqAssumption ==
  /\ Dev \in [Cmds -> Devs]
  /\ DevMax \in [Devs -> Nat \ {0}]
  /\ NInst \in [Devs -> Nat \ {0}]
  /\ HbaMax \in Nat \ {0}

(* devq, hbaq: the queues; devActive, hbaActive: Q_nactive of each level;  *)
(* level: cmd_waitq_level of each request (never reset by a completion).   *)
WaitqStates ==
  [devq : [Devs -> Seq(Cmds)], hbaq : Seq(Cmds),
   devActive : [Devs -> Int], hbaActive : Int, level : [Cmds -> Int]]

EmptyWaitq ==
  [devq |-> [d \in Devs |-> <<>>], hbaq |-> <<>>,
   devActive |-> [d \in Devs |-> 0], hbaActive |-> 0,
   level |-> [c \in Cmds |-> 0]]

-----------------------------------------------------------------------------

Elems(s) == {s[i] : i \in DOMAIN s}

(* x is in front of y.                                                     *)
Precedes(s, x, y) == \E i, j \in DOMAIN s : i < j /\ s[i] = x /\ s[j] = y

(* L2_delete: unlink c; an element that is on no list links to itself, so  *)
(* deleting it again changes nothing.                                      *)
Unlink(s, c) ==
  IF c \in Elems(s)
  THEN LET k == CHOOSE i \in DOMAIN s : s[i] = c
       IN  SubSeq(s, 1, k - 1) \o SubSeq(s, k + 1, Len(s))
  ELSE s

(* How many more requests the device's throttle lets up: none at its       *)
(* maximum, and one at a time while several instances share the device.    *)
Room(q, d) ==
  IF q.devActive[d] >= DevMax[d] THEN 0
  ELSE IF NInst[d] > 1 THEN IF q.devActive[d] > 0 THEN 0 ELSE 1
  ELSE DevMax[d] - q.devActive[d]

(* The promotion loop, from the device's queue to the adapter's.           *)
ShuffleUp(q, d) ==
  LET n  == IF Room(q, d) < Len(q.devq[d]) THEN Room(q, d) ELSE Len(q.devq[d])
      up == SubSeq(q.devq[d], 1, n)
  IN  [q EXCEPT !.devq[d] = SubSeq(@, n + 1, Len(@)),
                !.hbaq = @ \o up,
                !.devActive[d] = @ + n,
                !.level = [c \in Cmds |-> IF c \in Elems(up) THEN @[c] + 1
                                                             ELSE @[c]]]

(* A new request joins the tail of its device's queue.                     *)
Enqueue(q, c) ==
  ShuffleUp([q EXCEPT !.level[c] = 1, !.devq[Dev[c]] = Append(@, c)], Dev[c])

(* Two slips of the next operator: it forgets the adapter's queue; it      *)
(* promotes nobody into the room made.                                     *)
DeleteMissesHbaq(q, c) ==
  LET l == q.level[c]
  IN  ShuffleUp(
        [q EXCEPT !.devq[Dev[c]] = IF l = 1 THEN Unlink(@, c) ELSE @,
                  !.devActive[Dev[c]] = IF l \in {2, 3} THEN @ - 1 ELSE @,
                  !.hbaActive = IF l = 3 THEN @ - 1 ELSE @],
        Dev[c])
DeleteNoShuffle(q, c) ==
  LET l == q.level[c]
  IN  [q EXCEPT !.devq[Dev[c]] = IF l = 1 THEN Unlink(@, c) ELSE @,
                !.hbaq = IF l = 2 THEN Unlink(@, c) ELSE @,
                !.devActive[Dev[c]] = IF l \in {2, 3} THEN @ - 1 ELSE @,
                !.hbaActive = IF l = 3 THEN @ - 1 ELSE @]

(* A finished or abandoned request gives back what its level says it holds.*)
WaitqDelete(q, c) ==
  LET l == q.level[c]
  IN  ShuffleUp(
        [q EXCEPT !.devq[Dev[c]] = IF l = 1 THEN Unlink(@, c) ELSE @,
                  !.hbaq = IF l = 2 THEN Unlink(@, c) ELSE @,
                  !.devActive[Dev[c]] = IF l \in {2, 3} THEN @ - 1 ELSE @,
                  !.hbaActive = IF l = 3 THEN @ - 1 ELSE @],
        Dev[c])

(* Is there a request the adapter's throttle lets us start?                *)
CanStart(q) == q.hbaq # <<>> /\ q.hbaActive < HbaMax

(* The head of the adapter's queue leaves it to be started ...             *)
PopHba(q) ==
  [q EXCEPT !.hbaq = Tail(@), !.hbaActive = @ + 1,
            !.level[Head(q.hbaq)] = @ + 1]

(* Two slips of the next operator: the level is not taken back; the tail   *)
(* instead of the head.                                                    *)
RequeueKeepsLevel(q, c) == [q EXCEPT !.hbaq = <<c>> \o @, !.hbaActive = @ - 1]
RequeueAtTail(q, c) ==
  [q EXCEPT !.hbaq = Append(@, c), !.hbaActive = @ - 1, !.level[c] = @ - 1]

(* ... and comes back to the head if the HBA driver refuses it.            *)
Requeue(q, c) ==
  [q EXCEPT !.hbaq = <<c>> \o @, !.hbaActive = @ - 1, !.level[c] = @ - 1]
=============================================================================
