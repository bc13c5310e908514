----------------------------- MODULE GhdService -----------------------------
(***************************************************************************)
(* What GHD promises its target drivers, with no mutex, queue level, timer *)
(* or software interrupt: a request handed over waits behind those of its  *)
(* device, is started when none of them is in front of it any more, at     *)
(* most MaxStarted at a time, is finished (or is withdrawn before it       *)
(* starts, by an abort or a timeout), and is given back once.              *)
(***************************************************************************)
EXTENDS Integers, FiniteSets

CONSTANTS Cmds, Dev, MaxStarted

VARIABLES
  waiting, started, finished,  \* the requests by how far they have come
  ahead   \* for each request that waits, those that wait in front of it
vars == <<waiting, started, finished, ahead>>

Init ==
  /\ waiting = {} /\ started = {} /\ finished = {}
  /\ ahead = [c \in Cmds |-> {}]

Submit(c) ==
  /\ c \notin waiting \cup started \cup finished
  /\ waiting' = waiting \cup {c}
  /\ ahead' = [ahead EXCEPT ![c] = {x \in waiting : Dev[x] = Dev[c]}]
  /\ UNCHANGED <<started, finished>>

Leave(c) ==
  /\ c \in waiting
  /\ waiting' = waiting \ {c}
  /\ ahead' = [x \in Cmds |-> IF x = c THEN {} ELSE ahead[x] \ {c}]

Start(c) ==
  /\ ahead[c] = {} /\ Cardinality(started) < MaxStarted
  /\ Leave(c)
  /\ started' = started \cup {c}
  /\ UNCHANGED finished

Withdraw(c) ==
  /\ Leave(c)
  /\ finished' = finished \cup {c}
  /\ UNCHANGED started

FinishCmd(c) ==
  /\ c \in started
  /\ started' = started \ {c}
  /\ finished' = finished \cup {c}
  /\ UNCHANGED <<waiting, ahead>>

GiveBack(c) ==
  /\ c \in finished
  /\ finished' = finished \ {c}
  /\ UNCHANGED <<waiting, started, ahead>>

Next ==
  \E c \in Cmds :
    Submit(c) \/ Start(c) \/ Withdraw(c) \/ FinishCmd(c) \/ GiveBack(c)

Spec == Init /\ [][Next]_vars
=============================================================================
