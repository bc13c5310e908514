------------------------------ MODULE HbaService ------------------------------
(***************************************************************************)
(* What the HBA driver promises the GHD framework (and what module Ghd     *)
(* assumes of it): it works on one request at a time, refuses a request    *)
(* only while it is being asked to start it, and completes every request   *)
(* that it has started at most once.                                       *)
(***************************************************************************)
CONSTANT Pkts

VARIABLE req

ReqStates == {"queued", "starting", "active", "done"}
Init == req = [p \in Pkts |-> "queued"]

Move(p, s, t) == req[p] \in s /\ req' = [req EXCEPT ![p] = t]
Busy == \E p \in Pkts : req[p] \in {"starting", "active"}

Start(p)    == ~Busy /\ Move(p, {"queued"}, "starting")
Refuse(p)   == Move(p, {"starting"}, "queued")
Accept(p)   == Move(p, {"starting"}, "active")
Complete(p) == Move(p, {"starting", "active"}, "done")
Resubmit(p) == Move(p, {"done"}, "queued")

Next == \E p \in Pkts :
          Start(p) \/ Refuse(p) \/ Accept(p) \/ Complete(p) \/ Resubmit(p)
Spec == Init /\ [][Next]_req
===============================================================================
