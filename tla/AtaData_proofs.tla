--------------------------- MODULE AtaData_proofs ---------------------------
(***************************************************************************)
(* Proofs about what a request of module AtaCtlr comes back with: its      *)
(* error flags, its residual count and its sense data. They hold for       *)
(* drives that interrupt and show data only in turn (MaxSpurious = 0); the *)
(* one about error flags, for controllers without AC_BSY_WAIT.             *)
(***************************************************************************)
EXTENDS AtaCtlr_proofs

-----------------------------------------------------------------------------
(* AP_ERROR.                                                               *)

(* An ATAPI request has AP_ERROR from a transfer, or else from the status  *)
(* with which it is being, or was, wrapped up.                             *)
Told(p) ==
  "ERROR" \in ap[p].flags =>
    \/ "TRAN_ERROR" \in ap[p].flags
    \/ /\ ap[p].err
       /\ \/ ghd[p] = "done"
          \/ ghd[p] = "active" /\ (ctl.active = Arq \/ call.func = "fini")
ErrorsTold == \A p \in Packets : Told(p)

-----------------------------------------------------------------------------
(* Drive and driver in step.                                               *)

(* What a drive shows fits the command it carries out.                     *)
Coherent(d) ==
  LET e == dev[d]
  IN /\ e.left <= e.len
     /\ e.phase \in {"in", "out"} =>
          /\ e.block + e.left <= e.len
          /\ e.phase = Direction(e.for) /\ ~UsesDma(e.for)
     /\ e.phase = "status" => e.err \/ e.left = 0
     /\ e.err => e.phase = "status" /\ (d \in Atapi => e.sense = e.for)

(* The data that went over the bus since the CDB.                          *)
Moved(e) == e.len - e.left - (IF e.phase \in {"in", "out"} THEN e.block ELSE 0)

(* An ATAPI command is under way, and the bus was not reset since.         *)
UnderWay == ctl.active \in Packets \cup {Arq} /\ call.func # "fini"
WasReset == "BUS_RESET" \in ap[ctl.active].flags

(* The state machine of the drive (ad_state) has seen what the drive went  *)
(* through, and ap_resid what it moved.                                    *)
InStep ==
  UnderWay /\ ~WasReset =>
    LET x == ctl.active
        e == dev[ctl.drive]
        s == drv[ctl.drive]
    IN /\ e.for = x
       /\ \/ s = "cmd" /\ e.phase \in {"cmd", "cdb"} /\ ap[x].resid = Count(x)
          \/ /\ s \in IF UsesDma(x) THEN {"dma"} ELSE {"cdb", Direction(x)} \ {"none"}
             /\ e.phase \in {"busy", "in", "out", "status"}
             /\ x = Arq => e.len > 0
             /\ ~UsesDma(x) =>
                  ap[x].resid = IF Moved(e) < Count(x) THEN Count(x) - Moved(e) ELSE 0

(* A drive that was reset has forgotten the command.                       *)
Quiet == UnderWay /\ WasReset => dev[ctl.drive].phase \in {"idle", "reset"}

(* A request that was not wrapped up has neither status nor sense data; it *)
(* starts with all of its data to move.                                    *)
Fresh ==
  \A p \in Packets :
    /\ ghd[p] = "queued" \/ (Asking /\ call.pkt = p) =>
         ap[p].resid = Count(p) /\ "BUS_RESET" \notin ap[p].flags
    /\ \/ ghd[p] = "queued" \/ (Asking /\ call.pkt = p)
       \/ ctl.active = p /\ call.func # "fini"
       => "GOT_STATUS" \notin ap[p].flags

(* The sense data of a failed request that asks for them are in the drive, *)
(* and stay there until its ARQ fetches them.                              *)
SenseReady ==
  call.func = "fini" /\ ctl.active \in Packets /\ NeedsArq(ctl.active) =>
    dev[ctl.drive].sense = ctl.active /\ dev[ctl.drive].phase = "status"
ArqInStep ==
  ctl.active = Arq /\ UnderWay /\ ~WasReset =>
    /\ dev[ctl.drive].sense = ctl.fault \/ dev[ctl.drive].err
    /\ drv[ctl.drive] # "cmd" /\ Moved(dev[ctl.drive]) > 0 => sense[ctl.fault] = ctl.fault

(* An ARQ that ended well has fetched them.                                *)
ArqFetched ==
  /\ ctl.active = Arq /\ call.func = "fini" /\ {"ERROR", "BUS_RESET"} \cap ap[Arq].flags = {} =>
       sense[ctl.fault] = ctl.fault
  /\ \A p \in Pkts : "ARQ_OKAY" \in ap[p].flags => ghd[p] = "done" /\ sense[p] = p

(* The second part of DataAccounted; the drive still shows its status.     *)
Accounted ==
  call.func = "fini" /\ ctl.active \in Packets /\ ~UsesDma(ctl.active)
    /\ {"ERROR", "BUS_RESET"} \cap ap[ctl.active].flags = {} =>
  LET n == dev[ctl.drive].len
      c == Count(ctl.active)
  IN /\ ap[ctl.active].resid = IF n < c THEN c - n ELSE 0
     /\ dev[ctl.drive].phase = "status"

JInv ==
  /\ \A d \in Drives : Coherent(d)
  /\ InStep /\ Quiet /\ Fresh /\ SenseReady /\ ArqInStep /\ ArqFetched /\ Accounted

-----------------------------------------------------------------------------
(* Error flags.                                                            *)

(* Who is active when the controller is, and who when it is idle.          *)
LEMMA ActiveOne ==
  ASSUME IInv
  PROVE  /\ \A q \in Pkts : ghd[q] = "active" => q = IF Asking THEN call.pkt ELSE Current
         /\ ctl.active \in Pkts => /\ ~Asking /\ Current = ctl.active
                                   /\ ghd[ctl.active] = "active"
         /\ ctl.active = Arq => /\ ~Asking /\ Current = ctl.fault /\ ctl.fault \in Packets
                                /\ ghd[ctl.fault] = "active"
         /\ call.func # "start" => ctl.active \in Pkts \cup {Arq}
<1>1. Asking => ctl.active = NoPkt
  BY DEF IInv, CallOK, IdleCtl
<1>2. CASE ctl.active = NoPkt
  BY <1>2, Constants DEF IInv, HandedOver, CallOK
<1>3. CASE ctl.active # NoPkt
  <2>1. ctl # IdleCtl /\ ~Asking /\ Current \in Pkts
        /\ IF ctl.active = Arq THEN ctl.fault \in Packets ELSE ctl.fault = NoPkt
    BY <1>1, <1>3 DEF IInv, CtlOK, IdleCtl
  <2>2. ctl.active \in Pkts \cup {Arq}
    BY <1>3 DEF IInv, TypeOK
  <2>. QED
    BY <2>1, <2>2, Constants DEF IInv, HandedOver, Current
<1>. QED
  BY <1>2, <1>3

(* What an interrupt does to the flags of the active request.              *)
LEMMA FailedFields ==
  ASSUME IInv, NEW p \in Pkts \cup {Arq}, NEW tran \in BOOLEAN
  PROVE  /\ Failed(p, tran) \in PktStates
         /\ Failed(p, tran).err = ap[p].err /\ Failed(p, tran).resid = ap[p].resid
         /\ Failed(p, tran).flags =
              ap[p].flags \cup (IF tran THEN {"ERROR", "TRAN_ERROR"} ELSE {})
<1>1. ap[p] \in PktStates
  BY DEF IInv, TypeOK, PktStates
<1>2. ap[p].flags \cup (IF tran THEN {"ERROR", "TRAN_ERROR"} ELSE {}) \in SUBSET Flags
  BY <1>1 DEF PktStates, Flags
<1>. QED
  BY <1>1, <1>2 DEF PktStates, Failed

LEMMA StatusFields ==
  ASSUME NEW a \in PktStates, NEW err \in BOOLEAN, NEW done,
         NEW b, b = Status(a, err, done)
  PROVE  /\ a.flags \subseteq b.flags /\ "GOT_STATUS" \in b.flags
         /\ b.flags \subseteq a.flags \cup {"GOT_STATUS", "ERROR", "XFERRED_DATA"}
         /\ "ERROR" \in b.flags <=> "ERROR" \in a.flags \/ err
         /\ "ERROR" \in b.flags => b.err = err
<1>. DEFINE f == a.flags \cup {"GOT_STATUS"} \cup (IF err THEN {"ERROR"} ELSE {})
<1>1. a.flags \subseteq f /\ "GOT_STATUS" \in f
      /\ f \subseteq a.flags \cup {"GOT_STATUS", "ERROR"}
      /\ ("ERROR" \in f <=> "ERROR" \in a.flags \/ err)
  OBVIOUS
<1>2. CASE done /\ "TRAN_ERROR" \notin f
  <2>1. b = [flags |-> f \cup {"XFERRED_DATA"}, resid |-> 0,
             err |-> IF "ERROR" \in f THEN err ELSE a.err]
    BY <1>2 DEF Status
  <2>. HIDE DEF f
  <2>2. b.flags = f \cup {"XFERRED_DATA"} /\ ("ERROR" \in f => b.err = err)
    BY <2>1
  <2>3. "ERROR" \in b.flags <=> "ERROR" \in f
    BY <2>2
  <2>. QED
    BY <1>1, <1>2, <2>2, <2>3
<1>3. CASE ~(done /\ "TRAN_ERROR" \notin f)
  <2>1. b = [a EXCEPT !.flags = f, !.err = IF "ERROR" \in f THEN err ELSE @]
    BY <1>3 DEF Status
  <2>. HIDE DEF f
  <2>2. b.flags = f /\ ("ERROR" \in f => b.err = err)
    BY <2>1 DEF PktStates
  <2>. QED
    BY <1>1, <2>2
<1>. QED
  BY <1>2, <1>3

LEMMA MoveFields ==
  ASSUME NEW a \in PktStates, NEW n \in Nat
  PROVE  /\ Move(a, n).flags = a.flags \cup {"XFERRED_DATA"} /\ Move(a, n).err = a.err
         /\ Move(a, n).resid = IF a.resid < n THEN 0 ELSE a.resid - n
BY CountType DEF Move, PktStates

(* One interrupt tells of the errors it sees.                              *)
LEMMA IntrTold ==
  ASSUME IInv, ErrorsTold, FsmIntr, NEW q \in Packets
  PROVE  Told(q)'
<1>. DEFINE p == ctl.active
            d == ctl.drive
<1>1. call.func = "intr" /\ UNCHANGED <<ctl, ghd>> /\ p \in Pkts \cup {Arq} /\ Told(q)
      /\ q \in Pkts /\ ap \in [Pkts \cup {Arq} -> PktStates]
  BY Constants, ActiveOne DEF FsmIntr, ErrorsTold, IInv, TypeOK, PktStates
<1>2. CASE ap'[q] = ap[q]
  BY <1>1, <1>2 DEF Told
<1>3. CASE ap'[q] # ap[q]
  <2>1. p # Arq => Kind[p] # "func"
    BY <1>1, Constants DEF IInv, EnginesOK
  <2>2. ~(p # Arq /\ Kind[p] = "disk")
    <3>1. CASE p # Arq /\ Kind[p] = "disk"
      <4>1. DiskIntr(p, d) /\ p # q
        BY <3>1, Constants DEF FsmIntr
      <4>2. ap' = ap \/ ap' = [ap EXCEPT ![p].flags = @ \cup {"ERROR"}]
        BY <4>1 DEF DiskIntr
      <4>. QED
        BY <1>1, <1>3, <4>1, <4>2
    <3>. QED
      BY <3>1
  <2>3. p \in Packets \cup {Arq} /\ d \in Drives
    BY <1>1, <2>1, <2>2, Constants DEF IInv, CtlOK, IdleCtl, Current
  <2>4. PICK r \in ReadingStates, tran \in BOOLEAN : AtapiIntr(p, d, r, tran)
    BY <2>2, <2>3, ReadingsType DEF FsmIntr, IInv, DevOK
  <2>5. r.busy \in BOOLEAN /\ r.err \in BOOLEAN 
    BY DEF ReadingStates
  <2>6. /\ Failed(p, tran) \in PktStates
        /\ Failed(p, tran).err = ap[p].err
        /\ Failed(p, tran).flags =
             ap[p].flags \cup (IF tran THEN {"ERROR", "TRAN_ERROR"} ELSE {})
    BY <1>1, FailedFields
  <2>7. p = q
    <3>1. CASE Waits(p, d, r, tran)
      BY <1>1, <1>3, <3>1 DEF Waits
    <3>2. CASE SendsCdb(p, d, r, tran)
      BY <1>1, <1>3, <3>2 DEF SendsCdb
    <3>3. CASE MovesData(p, d, r)
      BY <1>1, <1>3, <3>3 DEF MovesData, PioIn, PioOut
    <3>4. CASE Ends(p, d, r, tran)
      BY <1>1, <1>3, <3>4 DEF Ends
    <3>. QED
      BY <2>4, <2>5, <3>1, <3>2, <3>3, <3>4, AtapiIntrCases
  <2>8. "ERROR" \in ap[q].flags => "TRAN_ERROR" \in ap[q].flags
    <3>1. ghd[q] = "active" /\ ctl.active # Arq
      BY <1>1, <2>7, ActiveOne, Constants
    <3>. QED
      BY <1>1, <3>1 DEF Told
  <2>9. CASE Waits(p, d, r, tran)
    BY <1>1, <2>6, <2>7, <2>8, <2>9 DEF Waits, Told
  <2>10. CASE SendsCdb(p, d, r, tran)
    <3>. DEFINE a == [Failed(p, tran) EXCEPT !.flags = @ \cup {"SENT_CMD"}]
    <3>1. a.flags = Failed(p, tran).flags \cup {"SENT_CMD"}
      BY <2>6 DEF PktStates
    <3>2. ap'[q] = a
      BY <1>1, <2>7, <2>10 DEF SendsCdb
    <3>. QED
      BY <2>6, <2>7, <2>8, <3>1, <3>2 DEF Told
  <2>11. CASE MovesData(p, d, r)
    <3>1. ap'[q] = Move(ap[q], dev[d].block)
      BY <1>1, <2>7, <2>11 DEF MovesData, PioIn, PioOut
    <3>2. dev[d].block \in Nat /\ ap[q] \in PktStates
      BY <1>1, <2>3 DEF IInv, DevOK, DeviceStates
    <3>. QED
      BY <2>8, <3>1, <3>2, MoveFields DEF Told
  <2>12. CASE Ends(p, d, r, tran)
    <3>1. ap'[q] = Status(Failed(p, tran), r.err, drv[d] = "dma")
      BY <1>1, <2>7, <2>12 DEF Ends
    <3>2. call'.func = "fini"
      BY <2>12, ReturnCall DEF Ends, Codes
    <3>3. ghd'[q] = "active"
      BY <1>1, <2>7, ActiveOne
    <3>4. /\ Failed(p, tran).flags \subseteq ap'[q].flags
          /\ "ERROR" \in ap'[q].flags <=> "ERROR" \in Failed(p, tran).flags \/ r.err
          /\ "ERROR" \in ap'[q].flags => ap'[q].err = r.err
      BY <2>5, <2>6, <3>1, StatusFields
    <3>5. "ERROR" \in Failed(p, tran).flags => "TRAN_ERROR" \in Failed(p, tran).flags
      BY <2>6, <2>7, <2>8
    <3>. QED
      BY <3>2, <3>3, <3>4, <3>5 DEF Told
  <2>. QED
    BY <2>4, <2>5, <2>9, <2>10, <2>11, <2>12, AtapiIntrCases
<1>. QED
  BY <1>2, <1>3

(* Every other step leaves the flags of error alone, or clears them.       *)
LEMMA StepTold ==
  ASSUME ~BsyWait, IInv, IInv', ErrorsTold, [Next]_vars
  PROVE  ErrorsTold'
<1>. SUFFICES ASSUME NEW q \in Packets PROVE Told(q)'
  BY DEF ErrorsTold
<1>1. Told(q) /\ q \in Pkts /\ q # Arq /\ ap \in [Pkts \cup {Arq} -> PktStates]
  BY Constants DEF ErrorsTold, IInv, TypeOK, PktStates
<1>2. CASE UNCHANGED vars
  BY <1>1, <1>2 DEF vars, Told
<1>3. CASE Drive
  BY <1>1, <1>3 DEF Drive, Told
<1>4. CASE ProcessIntr \/ \E p \in Pkts : ResetBus(p)
  <2>1. call.func # "fini"
    BY <1>4 DEF ProcessIntr, ResetBus, IInv, CallOK, NoCall
  <2>. QED
    BY <1>1, <1>4, <2>1 DEF ProcessIntr, ResetBus, Told
<1>5. ASSUME NEW p \in Pkts, HbaStart(p)
      PROVE  Told(q)'
  <2>1. call.func # "fini" /\ UNCHANGED <<ap, ctl>> /\ ghd[p] = "queued"
        /\ (q # p => ghd'[q] = ghd[q])
    BY <1>1, <1>5 DEF HbaStart, IInv, CallOK, NoCall, TypeOK
  <2>. QED
    BY <1>1, <2>1 DEF Told
<1>6. ASSUME NEW p \in Pkts, Submit(p)
      PROVE  Told(q)'
  <2>1. CASE q = p
    <3>1. ap'[q] = [ap[q] EXCEPT !.flags = {}, !.resid = Count(p)]
      BY <1>1, <1>6, <2>1 DEF Submit
    <3>2. ap'[q].flags = {}
      BY <1>1, <3>1 DEF PktStates
    <3>. QED
      BY <3>2 DEF Told
  <2>2. CASE q # p
    <3>1. ap'[q] = ap[q] /\ ghd'[q] = ghd[q] /\ UNCHANGED <<ctl, call>>
      BY <1>1, <1>6, <2>2 DEF Submit, IInv, TypeOK
    <3>. QED
      BY <1>1, <3>1 DEF Told
  <2>. QED
    BY <2>1, <2>2
<1>7. CASE FsmStart
  <2>1. ap'[q] = ap[q]
    <3>1. CASE Kind[call.pkt] = "packet"
      BY <3>1, <1>7 DEF FsmStart, AtapiStart, Busy
    <3>2. CASE Kind[call.pkt] = "disk"
      BY <3>2, <1>7 DEF FsmStart, DiskStart
    <3>3. CASE Kind[call.pkt] = "func"
      <4>1. call.pkt # q
        BY <3>3, Constants
      <4>2. ap' \in {ap, [ap EXCEPT ![call.pkt].flags = @ \cup {"ERROR"}]}
        BY <3>3, <1>7 DEF FsmStart
      <4>. QED
        BY <1>1, <4>1, <4>2
    <3>4. call.pkt \in Pkts
      BY <1>7 DEF FsmStart, IInv, CallOK, Asking
    <3>. QED
      BY <3>1, <3>2, <3>3, <3>4, Constants
  <2>2. Asking /\ ctl.active = NoPkt /\ ctl.active # Arq /\ call.func # "fini"
    BY <1>7, Constants DEF FsmStart, IInv, CallOK, Asking, IdleCtl
  <2>3. ghd'[q] = ghd[q] \/ ghd[q] # "done"
    BY <1>1, <1>7, ActiveOne DEF FsmStart, IInv, TypeOK, HandedOver, Asking, CallOK
  <2>. QED
    BY <1>1, <2>1, <2>2, <2>3 DEF Told
<1>8. CASE PollDrq
  <2>1. ap'[q] = ap[q]
    <3>1. CASE ap' = ap
      BY <3>1
    <3>2. CASE ctl.active # q /\ ap' = [ap EXCEPT ![ctl.active].flags = @ \cup {"ERROR"}]
      BY <1>1, <3>2
    <3>. QED
      BY <1>8, <3>1, <3>2, Constants DEF PollDrq
  <2>2. call.func = "drq" /\ UNCHANGED <<ctl, ghd>>
    BY <1>8 DEF PollDrq
  <2>. QED
    BY <1>1, <2>1, <2>2 DEF Told
<1>9. CASE FsmIntr
  BY <1>9, IntrTold
<1>10. CASE FsmFini
  <2>1. UNCHANGED ap /\ ghd' = [ghd EXCEPT ![ctl.active] = "done"] /\ call.func = "fini"
        /\ ctl.active \in Pkts
    BY <1>10 DEF FsmFini, AllDone
  <2>2. ghd[q] = "active" => q = ctl.active
    BY <1>1, <2>1, ActiveOne
  <2>. QED
    BY <1>1, <2>1, <2>2 DEF Told, IInv, TypeOK
<1>11. CASE FsmFiniArq
  <2>1. ghd' = [ghd EXCEPT ![ctl.fault] = "done"] /\ ctl.active = Arq /\ ctl.fault \in Pkts
    BY <1>11, ActiveOne, Constants DEF FsmFiniArq, AllDone
  <2>2. ghd[q] = "active" => q = ctl.fault
    BY <1>1, <2>1, ActiveOne
  <2>3. PICK f \in {"ARQ_OKAY", "ARQ_ERROR"} :
          ap' = [ap EXCEPT ![ctl.fault].flags = @ \cup {f}]
    BY <1>11 DEF FsmFiniArq
  <2>4. ap'[q].err = ap[q].err /\ ap'[q].flags \in {ap[q].flags, ap[q].flags \cup {f}}
    <3>1. CASE q = ctl.fault
      <4>1. ap'[q] = [ap[q] EXCEPT !.flags = @ \cup {f}]
        BY <1>1, <2>3, <3>1
      <4>. QED
        BY <1>1, <4>1 DEF PktStates
    <3>2. CASE q # ctl.fault
      BY <1>1, <2>3, <3>2
    <3>. QED
      BY <3>1, <3>2
  <2>. QED
    BY <1>1, <2>1, <2>2, <2>4 DEF Told, IInv, TypeOK
<1>12. CASE FsmStartArq
  <2>1. ap'[q] = ap[q]
    <3>1. ap' = [ap EXCEPT ![Arq] = ArqPkt]
      BY <1>12 DEF FsmStartArq, AtapiStart, Busy
    <3>. QED
      BY <1>1, <3>1
  <2>2. ctl.active \in Pkts /\ call.func = "fini"
        /\ \/ ghd' = [ghd EXCEPT ![ctl.active] = "done"]
           \/ ghd' = ghd /\ ctl' = [ctl EXCEPT !.active = Arq, !.fault = ctl.active]
    BY <1>12 DEF FsmStartArq, AllDone
  <2>3. ghd' = ghd => ctl'.active = Arq
    BY <2>2, ActiveOne DEF IInv, TypeOK
  <2>4. ghd[q] = "active" => q = ctl.active
    BY <1>1, <2>2, ActiveOne
  <2>. QED
    BY <1>1, <2>1, <2>2, <2>3, <2>4 DEF Told, IInv, TypeOK
<1>13. CASE FsmReset
  <2>1. call.func = "reset" /\ UNCHANGED <<ctl, ghd>>
        /\ ap' = [ap EXCEPT ![ctl.active].flags = @ \cup {"DEV_RESET", "BUS_RESET"}]
    BY <1>13 DEF FsmReset
  <2>2. /\ ap'[q].err = ap[q].err
        /\ ap'[q].flags \in {ap[q].flags, ap[q].flags \cup {"DEV_RESET", "BUS_RESET"}}
    <3>1. CASE q = ctl.active
      <4>1. ap'[q] = [ap[q] EXCEPT !.flags = @ \cup {"DEV_RESET", "BUS_RESET"}]
        BY <1>1, <2>1, <3>1
      <4>. QED
        BY <1>1, <4>1 DEF PktStates
    <3>2. CASE q # ctl.active
      BY <1>1, <2>1, <3>2
    <3>. QED
      BY <3>1, <3>2
  <2>. QED
    BY <1>1, <2>1, <2>2 DEF Told
<1>. QED
  BY <1>2, <1>3, <1>4, <1>5, <1>6, <1>7, <1>8, <1>9, <1>10, <1>11, <1>12, <1>13
  DEF Next, Fsm

-----------------------------------------------------------------------------
(* The drives' own steps and the calls of GHD.                             *)

LEMMA DeviceFields ==
  ASSUME IInv, NEW d \in Drives
  PROVE  /\ dev[d] \in DeviceStates
         /\ dev[d].len \in Nat /\ dev[d].left \in Nat /\ dev[d].block \in Nat
         /\ dev[d].phase \in Phases /\ dev[d].err \in BOOLEAN
         /\ dev[d].for \in Owners /\ dev[d].sense \in Owners
BY DEF IInv, DevOK, DeviceStates

(* The drive of a command that is under way is an ATAPI drive.             *)
LEMMA UnderWayDrive ==
  ASSUME IInv, ctl.active \in Packets \cup {Arq}
  PROVE  ctl.drive \in Atapi /\ ctl.drive \in Drives /\ ctl.active # NoPkt /\ ~Asking
<1>1. ctl.active # NoPkt /\ ctl # IdleCtl
  BY Constants DEF IdleCtl
<1>2. Current \in Packets /\ ctl.drive = Target[Current]
  BY <1>1 DEF IInv, CtlOK, Current
<1>. QED
  BY <1>1, <1>2, Constants, ActiveOne

(* Steps after which the controller, its request and the drives are what   *)
(* they were, none being wrapped up.                                       *)
LEMMA CallsData ==
  ASSUME IInv, JInv, NEW p \in Pkts, HbaStart(p) \/ ProcessIntr \/ ResetBus(p)
  PROVE  JInv'
<1>1. UNCHANGED <<ctl, drv, ap, dev, sense>> /\ call = NoCall /\ call'.func # "fini"
      /\ call'.func \in {"start", "intr", "reset"}
  BY DEF HbaStart, ProcessIntr, ResetBus, IInv, CallOK
<1>2. call.func = "start" /\ ~Asking
  BY <1>1 DEF NoCall, Asking
<1>3. (\A d \in Drives : Coherent(d))' /\ InStep' /\ Quiet' /\ ArqInStep'
  BY <1>1, <1>2 DEF JInv, Coherent, InStep, Quiet, ArqInStep, UnderWay, WasReset
<1>4. SenseReady' /\ Accounted'
  BY <1>1 DEF SenseReady, Accounted
<1>5. Fresh' /\ ArqFetched'
  <2>1. CASE HbaStart(p)
    <3>1. ghd[p] = "queued" /\ ghd' = [ghd EXCEPT ![p] = "active"] /\ call'.pkt = p
          /\ ctl.active = NoPkt
      BY <2>1 DEF HbaStart
    <3>2. \A q \in Pkts : q # p => ghd'[q] = ghd[q]
      BY <3>1 DEF IInv, TypeOK
    <3>3. ghd'[p] = "active"
      BY <3>1 DEF IInv, TypeOK
    <3>4. Fresh'
      BY <1>1, <1>2, <3>1, <3>2, <3>3, Constants DEF JInv, Fresh, Asking
    <3>5. ArqFetched'
      BY <1>1, <3>1, <3>2 DEF JInv, ArqFetched
    <3>. QED
      BY <3>4, <3>5
  <2>2. CASE ProcessIntr \/ ResetBus(p)
    <3>1. ghd' = ghd /\ call'.func # "start"
      BY <2>2 DEF ProcessIntr, ResetBus
    <3>. QED
      BY <1>1, <1>2, <3>1 DEF JInv, Fresh, ArqFetched, Asking
  <2>. QED
    BY <2>1, <2>2
<1>. QED
  BY <1>3, <1>4, <1>5 DEF JInv

LEMMA SubmitData ==
  ASSUME IInv, JInv, NEW p \in Pkts, Submit(p)
  PROVE  JInv'
<1>1. UNCHANGED <<ctl, drv, dma, call, dev>> /\ ghd[p] = "done"
      /\ ghd' = [ghd EXCEPT ![p] = "queued"] /\ sense' = [sense EXCEPT ![p] = NoPkt]
      /\ ap' = [ap EXCEPT ![p] = [@ EXCEPT !.flags = {}, !.resid = Count(p)]]
  BY DEF Submit
<1>2. ap \in [Pkts \cup {Arq} -> PktStates] /\ sense \in [Pkts -> Owners]
  BY DEF IInv, TypeOK, DevOK, PktStates
<1>3. \A q \in Pkts \cup {Arq} : q # p => ap'[q] = ap[q]
  BY <1>1, <1>2
<1>4. \A q \in Pkts : q # p => ghd'[q] = ghd[q] /\ sense'[q] = sense[q]
  BY <1>1, <1>2 DEF IInv, TypeOK
<1>5. ap'[p].flags = {} /\ ap'[p].resid = Count(p)
  <2>1. ap'[p] = [ap[p] EXCEPT !.flags = {}, !.resid = Count(p)] /\ ap[p] \in PktStates
    BY <1>1, <1>2
  <2>. QED
    BY <2>1 DEF PktStates
<1>6. ctl.active # p /\ (ctl.active = Arq => ctl.fault # p /\ ctl.fault \in Pkts)
  BY <1>1, ActiveOne, Constants
<1>7. ctl.active \in Packets \cup {Arq} => ap'[ctl.active] = ap[ctl.active]
  BY <1>3, <1>6, Constants
<1>8. (\A d \in Drives : Coherent(d))'
  BY <1>1 DEF JInv, Coherent
<1>9. InStep' /\ Quiet'
  BY <1>1, <1>7 DEF JInv, InStep, Quiet, UnderWay, WasReset
<1>10. Fresh'
  BY <1>1, <1>3, <1>4, <1>5, Constants DEF JInv, Fresh, Asking
<1>11. SenseReady' /\ Accounted'
  BY <1>1, <1>7 DEF JInv, SenseReady, Accounted, NeedsArq
<1>12. ArqInStep'
  BY <1>1, <1>4, <1>6, <1>7 DEF JInv, ArqInStep, UnderWay, WasReset
<1>13. ArqFetched'
  BY <1>1, <1>3, <1>4, <1>5, <1>6, <1>7 DEF JInv, ArqFetched
<1>. QED
  BY <1>8, <1>9, <1>10, <1>11, <1>12, <1>13 DEF JInv

(* A drive moves on with its own command only.                             *)
LEMMA DriveData ==
  ASSUME IInv, JInv, Drive
  PROVE  JInv'
<1>1. UNCHANGED <<ctl, drv, ap, dma, call, ghd, sense>>
  BY DEF Drive
<1>2. PICK d \in Drives :
        DevWakes(d) \/ DevAsksForCdb(d) \/ DevData(d) \/ \E bad \in BOOLEAN : DevEnds(d, bad)
  BY DEF Drive
<1>. DEFINE e == dev[d]
            f == dev'[d]
<1>3. /\ e \in DeviceStates /\ e.len \in Nat /\ e.left \in Nat /\ e.block \in Nat
      /\ Coherent(d)
  BY DeviceFields DEF JInv
<1>4. \A x \in Drives : x # d => dev'[x] = dev[x]
  <2>1. PICK g : dev' = [dev EXCEPT ![d] = g]
    <3>1. CASE DevData(d)
      <4>1. CASE UsesDma(e.for)
        BY <3>1, <4>1 DEF DevData, SetDev
      <4>2. CASE ~UsesDma(e.for)
        BY <3>1, <4>2 DEF DevData, SetDev
      <4>. QED
        BY <4>1, <4>2
    <3>. QED
      BY <1>2, <3>1 DEF DevWakes, DevAsksForCdb, DevEnds, SetDev
  <2>. QED
    BY <2>1 DEF IInv, DevOK
<1>5. \/ e.phase = "reset" /\ f = IdleDev
      \/ /\ f.for = e.for /\ f.len = e.len /\ f.left \in Nat /\ f.block \in Nat
         /\ \/ /\ e.phase = "cmd" /\ f.phase = "cdb"
               /\ f.left = e.left /\ f.err = e.err /\ f.sense = e.sense
            \/ /\ e.phase = "busy" /\ f.phase = "busy" /\ UsesDma(e.for)
               /\ f.left = 0 /\ f.err = e.err /\ f.sense = e.sense
            \/ /\ e.phase = "busy" /\ ~UsesDma(e.for)
               /\ f.phase = Direction(e.for) /\ f.phase \in {"in", "out"}
               /\ f.left + f.block = e.left /\ f.err = e.err /\ f.sense = e.sense
            \/ /\ e.phase = "busy" /\ f.phase = "status" /\ f.left = e.left
               /\ f.err \/ e.left = 0
               /\ f.sense = IF f.err /\ d \in Atapi THEN e.for ELSE e.sense
  <2>1. dev \in [Drives -> DeviceStates]
    BY DEF IInv, DevOK
  <2>2. CASE DevWakes(d)
    BY <2>1, <2>2 DEF DevWakes, SetDev
  <2>3. CASE DevAsksForCdb(d)
    <3>1. f = [e EXCEPT !.phase = "cdb", !.irq = d \notin NoCdbIntr] /\ e.phase = "cmd"
      BY <2>1, <2>3 DEF DevAsksForCdb, SetDev
    <3>. QED
      BY <1>3, <3>1 DEF DeviceStates
  <2>4. CASE DevData(d)
    <3>. DEFINE n == IF e.left < Block THEN e.left ELSE Block
    <3>1. e.phase = "busy" /\ e.left > 0
      BY <2>4 DEF DevData
    <3>2. CASE UsesDma(e.for)
      <4>1. f = [e EXCEPT !.left = 0]
        BY <2>1, <2>4, <3>2 DEF DevData, SetDev
      <4>. QED
        BY <1>3, <3>1, <3>2, <4>1 DEF DeviceStates
    <3>3. CASE ~UsesDma(e.for)
      <4>1. f = [e EXCEPT !.phase = Direction(e.for), !.irq = TRUE, !.block = n,
                          !.left = @ - n]
        BY <2>1, <2>4, <3>3 DEF DevData, SetDev
      <4>2. n \in Nat /\ e.left - n \in Nat
        BY <1>3, CtlrAssumption
      <4>3. Direction(e.for) \in {"in", "out"}
        <5>1. Directed(e) /\ e.for \in Owners
          BY <1>3 DEF IInv, DevOK, DeviceStates
        <5>. QED
          BY <3>1, <5>1, CountType DEF Directed, Owners
      <4>. HIDE DEF n
      <4>4. f.for = e.for /\ f.len = e.len /\ f.left = e.left - n /\ f.block = n
            /\ f.phase = Direction(e.for) /\ f.err = e.err /\ f.sense = e.sense
        BY <1>3, <4>1 DEF DeviceStates
      <4>. HIDE DEF e, f
      <4>. QED
        BY <1>3, <3>1, <3>3, <4>2, <4>3, <4>4
    <3>. QED
      BY <3>2, <3>3
  <2>5. ASSUME NEW bad \in BOOLEAN, DevEnds(d, bad)
        PROVE  /\ f.for = e.for /\ f.len = e.len /\ f.left = e.left /\ f.block = e.block
               /\ e.phase = "busy" /\ f.phase = "status"
               /\ f.err \/ e.left = 0
               /\ f.sense = IF f.err /\ d \in Atapi THEN e.for ELSE e.sense
    <3>. DEFINE s == IF bad /\ d \in Atapi THEN e.for ELSE e.sense
    <3>1. f = [e EXCEPT !.phase = "status", !.irq = TRUE, !.err = bad, !.sense = s]
          /\ e.phase = "busy" /\ (bad \/ e.left = 0)
      BY <2>1, <2>5 DEF DevEnds, SetDev
    <3>2. s = IF bad /\ d \in Atapi THEN e.for ELSE e.sense
      OBVIOUS
    <3>. HIDE DEF s
    <3>3. f.for = e.for /\ f.len = e.len /\ f.left = e.left /\ f.block = e.block
          /\ f.phase = "status" /\ f.err = bad /\ f.sense = s
      BY <1>3, <3>1 DEF DeviceStates
    <3>. QED
      BY <3>1, <3>2, <3>3
  <2>. HIDE DEF e, f
  <2>. QED
    BY <1>2, <1>3, <2>2, <2>3, <2>4, <2>5
<1>6. f = IdleDev => f.phase = "idle" /\ ~f.err /\ f.left = 0 /\ f.len = 0
  BY DEF IdleDev
<1>7. Coherent(d)'
  <2>. HIDE DEF e, f
  <2>1. e.err => e.phase = "status"
    BY <1>3 DEF Coherent, e
  <2>2. e.left <= e.len
    BY <1>3 DEF Coherent, e
  <2>3. /\ f.left <= f.len
        /\ f.phase \in {"in", "out"} =>
             f.block + f.left <= f.len /\ f.phase = Direction(f.for) /\ ~UsesDma(f.for)
        /\ f.phase = "status" => f.err \/ f.left = 0
        /\ f.err => f.phase = "status" /\ (d \in Atapi => f.sense = f.for)
    BY <1>3, <1>5, <1>6, <2>1, <2>2
  <2>. QED
    BY <2>3 DEF Coherent, f
<1>8. (\A x \in Drives : Coherent(x))'
  BY <1>4, <1>7 DEF JInv, Coherent
<1>9. CASE ctl.active \in Packets \cup {Arq} /\ ctl.drive = d
  <2>1. UnderWay' = UnderWay /\ WasReset' = WasReset
    BY <1>1 DEF UnderWay, WasReset
  <2>2. InStep'
    <3>. SUFFICES ASSUME UnderWay, ~WasReset PROVE InStep'
      BY <2>1 DEF InStep
    <3>. DEFINE x == ctl.active
                s == drv[ctl.drive]
    <3>1. e.for = x /\
          \/ s = "cmd" /\ e.phase \in {"cmd", "cdb"} /\ ap[x].resid = Count(x)
          \/ /\ s \in IF UsesDma(x) THEN {"dma"} ELSE {"cdb", Direction(x)} \ {"none"}
             /\ e.phase \in {"busy", "in", "out", "status"}
             /\ x = Arq => e.len > 0
             /\ ~UsesDma(x) =>
                  ap[x].resid = IF Moved(e) < Count(x) THEN Count(x) - Moved(e) ELSE 0
      BY <1>9 DEF JInv, InStep
    <3>2. e.phase # "reset"
      BY <3>1
    <3>3. ~UsesDma(x) /\ e.phase = "busy" => Moved(f) = Moved(e)
      <4>. HIDE DEF e, f
      <4>. QED
        BY <1>3, <1>5, <3>1, <3>2 DEF Moved
    <3>4. f.for = x /\
          \/ s = "cmd" /\ f.phase \in {"cmd", "cdb"} /\ ap[x].resid = Count(x)
          \/ /\ s \in IF UsesDma(x) THEN {"dma"} ELSE {"cdb", Direction(x)} \ {"none"}
             /\ f.phase \in {"busy", "in", "out", "status"}
             /\ x = Arq => f.len > 0
             /\ ~UsesDma(x) =>
                  ap[x].resid = IF Moved(f) < Count(x) THEN Count(x) - Moved(f) ELSE 0
      <4>. HIDE DEF e, f, s
      <4>. QED
        BY <1>5, <3>1, <3>2, <3>3
    <3>. QED
      BY <1>1, <1>9, <3>4 DEF InStep
  <2>3. Quiet'
    <3>1. UnderWay /\ WasReset => f.phase \in {"idle", "reset"}
      <4>1. UnderWay /\ WasReset => e.phase \in {"idle", "reset"}
        BY <1>9 DEF JInv, Quiet
      <4>. HIDE DEF e, f
      <4>. QED
        BY <1>5, <1>6, <4>1
    <3>. QED
      BY <1>1, <1>9, <2>1, <3>1 DEF Quiet
  <2>4. ArqInStep'
    <3>. SUFFICES ASSUME ctl.active = Arq, UnderWay, ~WasReset PROVE ArqInStep'
      BY <1>1, <2>1 DEF ArqInStep
    <3>1. e.for = Arq /\ ~UsesDma(e.for) /\ e.phase # "reset"
      BY <1>9 DEF JInv, InStep, UsesDma
    <3>2. e.sense = ctl.fault \/ e.err
      BY <1>9 DEF JInv, ArqInStep
    <3>3. drv[d] # "cmd" /\ Moved(e) > 0 => sense[ctl.fault] = ctl.fault
      BY <1>9 DEF JInv, ArqInStep
    <3>4. drv[d] # "cmd" => e.phase # "cmd"
      BY <1>9 DEF JInv, InStep
    <3>5. e.err => e.phase = "status"
      BY <1>3 DEF Coherent
    <3>6. e.phase = "busy" => Moved(f) = Moved(e)
      <4>. HIDE DEF e, f
      <4>. QED
        BY <1>3, <1>5, <3>1 DEF Moved
    <3>7. /\ f.sense = ctl.fault \/ f.err
          /\ drv[d] # "cmd" /\ Moved(f) > 0 => sense[ctl.fault] = ctl.fault
      <4>. HIDE DEF e, f
      <4>. QED
        BY <1>5, <3>1, <3>2, <3>3, <3>4, <3>5, <3>6
    <3>. QED
      BY <1>1, <1>9, <3>7 DEF ArqInStep
  <2>5. SenseReady' /\ Accounted'
    <3>1. SenseReady /\ Accounted
      BY DEF JInv
    <3>2. e.phase # "status"
      <4>. HIDE DEF e, f
      <4>. QED
        BY <1>5
    <3>. QED
      BY <1>1, <1>9, <3>1, <3>2 DEF SenseReady, Accounted, NeedsArq
  <2>. QED
    BY <1>1, <1>8, <2>2, <2>3, <2>4, <2>5 DEF JInv, Fresh, ArqFetched, Asking
<1>10. CASE ~(ctl.active \in Packets \cup {Arq} /\ ctl.drive = d)
  <2>1. ctl.active \in Packets \cup {Arq} => dev'[ctl.drive] = dev[ctl.drive]
    BY <1>4, <1>10, UnderWayDrive
  <2>2. InStep' /\ Quiet' /\ ArqInStep'
    BY <1>1, <2>1 DEF JInv, InStep, Quiet, ArqInStep, UnderWay, WasReset
  <2>3. SenseReady' /\ Accounted'
    BY <1>1, <2>1 DEF JInv, SenseReady, Accounted, NeedsArq
  <2>. QED
    BY <1>1, <1>8, <2>2, <2>3 DEF JInv, Fresh, ArqFetched, Asking
<1>. QED
  BY <1>9, <1>10

-----------------------------------------------------------------------------
(* The steps of ata_ctlr_fsm.                                              *)

(* atapi_fsm_start gives a drive a command and keeps its sense data.       *)
LEMMA AtapiStartData ==
  ASSUME IInv, JInv, NEW a \in [Pkts \cup {Arq} -> PktStates], NEW p \in Pkts \cup {Arq},
         NEW d \in Atapi, NEW rc, AtapiStart(a, p, d, rc)
  PROVE  /\ (\A x \in Drives : Coherent(x))'
         /\ \A q \in Pkts \cup {Arq} : q # p => ap'[q] = a[q]
         /\ ap'[p].resid = a[p].resid
         /\ ap'[p].flags \in {a[p].flags, a[p].flags \cup {"ERROR"}}
         /\ rc # "BUSY" => /\ ap' = a /\ drv'[d] = "cmd" /\ dev'[d].phase = "cmd"
                           /\ dev'[d].for = p /\ dev'[d].sense = dev[d].sense
                           /\ Moved(dev'[d]) = 0
<1>1. d \in Drives /\ dev \in [Drives -> DeviceStates] /\ drv \in [Atapi -> DriveStates]
  BY Constants DEF IInv, TypeOK, DevOK
<1>2. CASE drv[d] # "idle" \/ IsBusy(d)
  <2>1. rc = "BUSY" /\ dev' = dev /\ ap' \in {a, [a EXCEPT ![p].flags = @ \cup {"ERROR"}]}
    BY <1>2 DEF AtapiStart, Busy
  <2>2. ap'[p].resid = a[p].resid /\ ap'[p].flags \in {a[p].flags, a[p].flags \cup {"ERROR"}}
    <3>1. ap'[p] \in {a[p], [a[p] EXCEPT !.flags = @ \cup {"ERROR"}]}
      BY <2>1
    <3>. QED
      BY <3>1 DEF PktStates
  <2>. QED
    BY <2>1, <2>2 DEF JInv, Coherent
<1>3. CASE ~(drv[d] # "idle" \/ IsBusy(d))
  <2>. DEFINE e == [IdleDev EXCEPT !.phase = "cmd", !.for = p, !.sense = dev[d].sense]
  <2>1. rc # "BUSY" /\ drv'[d] = "cmd" /\ ap' = a /\ dev' = [dev EXCEPT ![d] = e]
    BY <1>1, <1>3 DEF AtapiStart, SetDev
  <2>2. e.phase = "cmd" /\ e.for = p /\ e.sense = dev[d].sense /\ e.left = 0 /\ e.len = 0
        /\ ~e.err
    BY DEF IdleDev
  <2>. HIDE DEF e
  <2>3. dev'[d] = e /\ \A x \in Drives : x # d => dev'[x] = dev[x]
    BY <1>1, <2>1
  <2>4. Coherent(d)' /\ Moved(dev'[d]) = 0
    BY <2>2, <2>3 DEF Coherent, Moved
  <2>5. (\A x \in Drives : Coherent(x))'
    BY <2>3, <2>4 DEF JInv, Coherent
  <2>. QED
    BY <2>1, <2>2, <2>3, <2>4, <2>5
<1>. QED
  BY <1>2, <1>3

LEMMA FsmStartData ==
  ASSUME IInv, JInv, FsmStart
  PROVE  JInv'
<1>. DEFINE p == call.pkt
            d == Target[p]
<1>1. Asking /\ p \in Pkts /\ ctl = IdleCtl /\ ctl.active = NoPkt
      /\ ap \in [Pkts \cup {Arq} -> PktStates] /\ dev \in [Drives -> DeviceStates]
      /\ d \in Drives
  BY Constants DEF FsmStart, Asking, IInv, CallOK, IdleCtl, TypeOK, DevOK, PktStates
<1>2. PICK rc \in {"OKAY", "BUSY", "DRQ", "FINI"} :
        /\ \/ Kind[p] = "packet" /\ AtapiStart(ap, p, d, rc)
           \/ Kind[p] = "disk" /\ DiskStart(p, d, rc)
           \/ /\ Kind[p] = "func" /\ rc = "FINI" /\ UNCHANGED <<drv, dev>>
              /\ ap' \in {ap, [ap EXCEPT ![p].flags = @ \cup {"ERROR"}]}
        /\ ctl' = IF rc = "BUSY" THEN IdleCtl
                  ELSE [state |-> Active[d], active |-> p, drive |-> d, fault |-> NoPkt]
        /\ ghd' = IF rc = "BUSY" THEN [ghd EXCEPT ![p] = "queued"] ELSE ghd
        /\ Return(rc)
  BY <1>1, Constants DEF FsmStart
<1>3. sense' = sense
  BY DEF FsmStart
<1>4. /\ (\A x \in Drives : Coherent(x))'
      /\ \A q \in Pkts \cup {Arq} : q # p => ap'[q] = ap[q]
      /\ ap'[p].resid = ap[p].resid
      /\ ap'[p].flags \in {ap[p].flags, ap[p].flags \cup {"ERROR"}}
      /\ rc # "BUSY" /\ p \in Packets =>
           /\ rc # "FINI" /\ ap' = ap /\ drv'[d] = "cmd" /\ dev'[d].phase = "cmd"
           /\ dev'[d].for = p
  <2>1. CASE Kind[p] = "packet" /\ AtapiStart(ap, p, d, rc)
    <3>1. p \in Pkts \cup {Arq} /\ d \in Atapi
      BY <1>1, <2>1, Constants
    <3>2. rc # "FINI"
      BY <1>1, <2>1, <3>1, AtapiStartSteps
    <3>. QED
      BY <1>1, <2>1, <3>1, <3>2, AtapiStartData
  <2>2. CASE Kind[p] = "disk" /\ DiskStart(p, d, rc)
    <3>. DEFINE e == [IdleDev EXCEPT !.phase = "busy", !.for = p, !.len = Size, !.left = Size]
    <3>1. dev' \in {dev, [dev EXCEPT ![d] = e]} /\ UNCHANGED <<drv, ap>> /\ p \notin Packets
      BY <1>1, <2>2, Constants DEF DiskStart
    <3>2. e.phase = "busy" /\ e.left = Size /\ e.len = Size /\ ~e.err /\ Size \in Nat
      BY CountType DEF IdleDev
    <3>. HIDE DEF e
    <3>3. (\A x \in Drives : Coherent(x))'
      BY <1>1, <3>1, <3>2 DEF JInv, Coherent
    <3>. QED
      BY <3>1, <3>3
  <2>3. CASE /\ Kind[p] = "func" /\ rc = "FINI" /\ UNCHANGED <<drv, dev>>
             /\ ap' \in {ap, [ap EXCEPT ![p].flags = @ \cup {"ERROR"}]}
    <3>1. ap'[p] \in {ap[p], [ap[p] EXCEPT !.flags = @ \cup {"ERROR"}]} /\ ap[p] \in PktStates
      BY <1>1, <2>3
    <3>2. ap'[p].resid = ap[p].resid /\ ap'[p].flags \in {ap[p].flags, ap[p].flags \cup {"ERROR"}}
      BY <3>1 DEF PktStates
    <3>3. p \notin Packets /\ \A q \in Pkts \cup {Arq} : q # p => ap'[q] = ap[q]
      BY <1>1, <2>3, Constants
    <3>. QED
      BY <2>3, <3>2, <3>3 DEF JInv, Coherent
  <2>. QED
    BY <1>2, <2>1, <2>2, <2>3
<1>5. /\ rc \in {"OKAY", "BUSY"} => call' = NoCall
      /\ rc = "DRQ" => call'.func = "drq"
      /\ rc = "FINI" => call'.func = "fini"
  BY <1>2, ReturnCall DEF Codes
<1>6. ~Asking' /\ (rc # "FINI" => call'.func # "fini")
  BY <1>2, <1>5 DEF Asking, NoCall
<1>7. p \in Packets => /\ ap[p].resid = Count(p) /\ "BUS_RESET" \notin ap[p].flags
                       /\ "GOT_STATUS" \notin ap[p].flags
  BY <1>1 DEF JInv, Fresh
<1>8. ctl'.active = (IF rc = "BUSY" THEN NoPkt ELSE p) /\ ctl'.active # Arq
      /\ (rc # "BUSY" => ctl'.drive = d)
  BY <1>1, <1>2, Constants DEF IdleCtl
<1>9. Fresh'
  <2>1. \A q \in Pkts : q # p => ghd'[q] = ghd[q] /\ ctl'.active # q
    BY <1>1, <1>2, <1>8, Constants DEF IInv, TypeOK
  <2>2. ASSUME NEW q \in Packets, q # p
        PROVE  /\ ghd'[q] = "queued" => ap'[q].resid = Count(q)
                                        /\ "BUS_RESET" \notin ap'[q].flags
               /\ ghd'[q] = "queued" => "GOT_STATUS" \notin ap'[q].flags
    BY <1>4, <2>1, <2>2, Constants DEF JInv, Fresh
  <2>3. p \in Packets => /\ ap'[p].resid = Count(p) /\ "BUS_RESET" \notin ap'[p].flags
                         /\ "GOT_STATUS" \notin ap'[p].flags
    BY <1>4, <1>7
  <2>. QED
    BY <1>6, <2>1, <2>2, <2>3, Constants DEF Fresh
<1>10. InStep' /\ Quiet'
  <2>. SUFFICES ASSUME UnderWay' PROVE InStep' /\ Quiet'
    BY DEF InStep, Quiet
  <2>1. p \in Packets /\ rc # "BUSY" /\ ctl'.active = p /\ ctl'.drive = d
    BY <1>1, <1>8, Constants DEF UnderWay
  <2>2. ap' = ap /\ drv'[d] = "cmd" /\ dev'[d].phase = "cmd" /\ dev'[d].for = p /\ ~WasReset'
        /\ ap[p].resid = Count(p)
    BY <1>4, <1>7, <2>1 DEF WasReset
  <2>. QED
    BY <2>1, <2>2 DEF InStep, Quiet
<1>11. ArqInStep' /\ SenseReady' /\ Accounted'
  <2>1. ~(call'.func = "fini" /\ ctl'.active \in Packets)
    BY <1>4, <1>6, <1>8, Constants
  <2>. QED
    BY <1>8, <2>1 DEF ArqInStep, SenseReady, Accounted
<1>12. ArqFetched'
  <2>. SUFFICES ASSUME NEW q \in Pkts, "ARQ_OKAY" \in ap'[q].flags
                PROVE  ghd'[q] = "done" /\ sense'[q] = q
    BY <1>8 DEF ArqFetched
  <2>1. "ARQ_OKAY" \in ap[q].flags
    BY <1>4
  <2>2. ghd[q] = "done" /\ sense[q] = q
    BY <2>1 DEF JInv, ArqFetched
  <2>3. q # p
    BY <1>1, <2>2 DEF IInv, HandedOver
  <2>. QED
    BY <1>2, <1>3, <2>2, <2>3 DEF IInv, TypeOK
<1>. QED
  BY <1>4, <1>9, <1>10, <1>11, <1>12 DEF JInv

LEMMA PollDrqData ==
  ASSUME IInv, JInv, PollDrq
  PROVE  JInv'
<1>1. call.func = "drq" /\ UNCHANGED <<ctl, drv, dma, ghd, dev, sense>> /\ Return("INTR")
  BY DEF PollDrq
<1>2. call'.func = "intr" /\ ~Asking' /\ ~Asking
  BY <1>1, ReturnCall DEF Codes, Asking
<1>3. ctl.active \in Pkts \cup {Arq} /\ ap \in [Pkts \cup {Arq} -> PktStates]
  BY <1>1, ActiveOne DEF IInv, TypeOK, PktStates
<1>4. /\ \A q \in Packets \cup {Arq} : ap'[q] = ap[q]
      /\ \A q \in Pkts : "ARQ_OKAY" \in ap'[q].flags => "ARQ_OKAY" \in ap[q].flags
  <2>1. CASE ap' = ap
    BY <2>1
  <2>2. CASE ctl.active \in Pkts /\ Kind[ctl.active] = "disk"
             /\ ap' = [ap EXCEPT ![ctl.active].flags = @ \cup {"ERROR"}]
    <3>1. ctl.active \notin Packets \cup {Arq}
      BY <2>2, Constants
    <3>2. \A q \in Pkts \cup {Arq} : q # ctl.active => ap'[q] = ap[q]
      BY <1>3, <2>2
    <3>3. ap'[ctl.active].flags = ap[ctl.active].flags \cup {"ERROR"}
      <4>1. ap'[ctl.active] = [ap[ctl.active] EXCEPT !.flags = @ \cup {"ERROR"}]
            /\ ap[ctl.active] \in PktStates
        BY <1>3, <2>2
      <4>. QED
        BY <4>1 DEF PktStates
    <3>. QED
      BY <3>1, <3>2, <3>3, Constants
  <2>. QED
    BY <1>3, <2>1, <2>2 DEF PollDrq
<1>5. (\A d \in Drives : Coherent(d))'
  BY <1>1 DEF JInv, Coherent
<1>6. InStep' /\ Quiet' /\ ArqInStep'
  BY <1>1, <1>2, <1>4 DEF JInv, InStep, Quiet, ArqInStep, UnderWay, WasReset
<1>7. Fresh' /\ SenseReady' /\ Accounted' /\ ArqFetched'
  BY <1>1, <1>2, <1>4, Constants DEF JInv, Fresh, SenseReady, Accounted, ArqFetched
<1>. QED
  BY <1>5, <1>6, <1>7 DEF JInv

(* Wrapping up leaves the controller idle; all that is left to show is     *)
(* about the sense data.                                                   *)
LEMMA DoneData ==
  ASSUME IInv, JInv, call.func = "fini", AllDone(Current),
         (\A d \in Drives : Coherent(d))', UNCHANGED sense,
         \A q \in Packets : q # Current => ap'[q] = ap[q],
         \A q \in Pkts : "ARQ_OKAY" \in ap'[q].flags =>
           "ARQ_OKAY" \in ap[q].flags \/ (q = Current /\ sense[q] = q)
  PROVE  JInv'
<1>1. ctl' = IdleCtl /\ ghd' = [ghd EXCEPT ![Current] = "done"] /\ call' = NoCall
  BY ReturnCall DEF AllDone, Codes
<1>2. ctl'.active = NoPkt /\ call'.func = "start" /\ ~Asking' /\ ~Asking
  BY <1>1 DEF IdleCtl, NoCall, Asking
<1>3. Current \in Pkts
  BY ActiveOne, Constants
<1>4. ghd'[Current] = "done" /\ \A q \in Pkts : q # Current => ghd'[q] = ghd[q]
  BY <1>1, <1>3 DEF IInv, TypeOK
<1>5. InStep' /\ Quiet' /\ ArqInStep' /\ SenseReady' /\ Accounted'
  BY <1>2, Constants DEF InStep, Quiet, ArqInStep, SenseReady, Accounted, UnderWay
<1>6. Fresh'
  BY <1>2, <1>4, Constants DEF JInv, Fresh
<1>7. ArqFetched'
  BY <1>2, <1>4, Constants DEF JInv, ArqFetched
<1>. QED
  BY <1>5, <1>6, <1>7 DEF JInv

LEMMA FsmFiniData ==
  ASSUME IInv, JInv, FsmFini
  PROVE  JInv'
<1>1. Current = ctl.active /\ call.func = "fini"
  BY Constants DEF FsmFini, Current
<1>2. AllDone(Current) /\ UNCHANGED <<ap, dev, sense>>
  BY <1>1 DEF FsmFini
<1>3. (\A d \in Drives : Coherent(d))'
  BY <1>2 DEF JInv, Coherent
<1>. QED
  BY <1>1, <1>2, <1>3, DoneData

LEMMA FsmFiniArqData ==
  ASSUME IInv, JInv, FsmFiniArq
  PROVE  JInv'
<1>1. Current = ctl.fault /\ call.func = "fini" /\ Current \in Pkts /\ ctl.active = Arq
      /\ ap \in [Pkts \cup {Arq} -> PktStates]
  BY ActiveOne, Constants DEF FsmFiniArq, IInv, TypeOK, PktStates
<1>2. AllDone(Current) /\ UNCHANGED <<dev, sense>>
  BY <1>1 DEF FsmFiniArq
<1>3. (\A d \in Drives : Coherent(d))'
  BY <1>2 DEF JInv, Coherent
<1>. DEFINE ok == {"ERROR", "BUS_RESET"} \cap ap[Arq].flags = {}
            flag == IF ok THEN "ARQ_OKAY" ELSE "ARQ_ERROR"
<1>4. ap' = [ap EXCEPT ![Current].flags = @ \cup {flag}]
  BY <1>1 DEF FsmFiniArq
<1>5. flag = "ARQ_OKAY" => sense[Current] = Current
  BY <1>1 DEF JInv, ArqFetched
<1>. HIDE DEF ok, flag
<1>6. ap'[Current].flags = ap[Current].flags \cup {flag}
  <2>1. ap'[Current] = [ap[Current] EXCEPT !.flags = @ \cup {flag}]
        /\ ap[Current] \in PktStates
    BY <1>1, <1>4
  <2>. QED
    BY <2>1 DEF PktStates
<1>7. \A q \in Pkts : q # Current => ap'[q] = ap[q]
  BY <1>1, <1>4
<1>8. \A q \in Pkts : "ARQ_OKAY" \in ap'[q].flags =>
        "ARQ_OKAY" \in ap[q].flags \/ (q = Current /\ sense[q] = q)
  BY <1>1, <1>5, <1>6, <1>7
<1>. QED
  BY <1>1, <1>2, <1>3, <1>7, <1>8, DoneData, Constants

(* The ARQ finds the sense data that the failed command left.              *)
LEMMA FsmStartArqData ==
  ASSUME IInv, IInv', JInv, FsmStartArq
  PROVE  JInv'
<1>. DEFINE p == ctl.active
            d == ctl.drive
            a == [ap EXCEPT ![Arq] = ArqPkt]
<1>1. call.func = "fini" /\ p \in Packets /\ p \in Pkts /\ NeedsArq(p) /\ Current = p
      /\ ~Asking /\ p # Arq
  BY Constants, CtlrAssumption, ActiveOne DEF FsmStartArq, NeedsArq
<1>2. PICK rc \in {"OKAY", "BUSY", "DRQ"} :
        /\ AtapiStart(a, Arq, d, rc)
        /\ IF rc = "BUSY" THEN AllDone(p)
           ELSE /\ ctl' = [ctl EXCEPT !.active = Arq, !.fault = p]
                /\ ghd' = ghd /\ Return(rc)
  BY DEF FsmStartArq
<1>3. sense' = sense /\ d \in Atapi /\ d \in Drives
  BY <1>1, UnderWayDrive DEF FsmStartArq
<1>4. ap \in [Pkts \cup {Arq} -> PktStates] /\ a \in [Pkts \cup {Arq} -> PktStates]
      /\ a[Arq] = ArqPkt /\ \A q \in Pkts : a[q] = ap[q]
  BY CountType, Constants DEF IInv, TypeOK, PktStates, ArqPkt
<1>. HIDE DEF a
<1>5. /\ (\A x \in Drives : Coherent(x))'
      /\ \A q \in Pkts : ap'[q] = ap[q]
      /\ rc # "BUSY" => /\ ap' = a /\ drv'[d] = "cmd" /\ dev'[d].phase = "cmd"
                        /\ dev'[d].for = Arq /\ dev'[d].sense = dev[d].sense
                        /\ Moved(dev'[d]) = 0
  BY <1>2, <1>3, <1>4, AtapiStartData, Constants
<1>6. CASE rc = "BUSY"
  BY <1>1, <1>2, <1>3, <1>5, <1>6, DoneData, Constants
<1>7. CASE rc # "BUSY"
  <2>1. ctl' = [ctl EXCEPT !.active = Arq, !.fault = p] /\ ghd' = ghd /\ Return(rc)
    BY <1>2, <1>7
  <2>2. ctl'.active = Arq /\ ctl'.fault = p /\ ctl'.drive = d
    BY <2>1 DEF IInv, TypeOK
  <2>3. call'.func # "fini" /\ ~Asking'
    BY <1>2, <1>7, <2>1, ReturnCall DEF Codes, NoCall, Asking
  <2>4. ap'[Arq].flags = {} /\ ap'[Arq].resid = Count(Arq)
    BY <1>4, <1>5, <1>7 DEF ArqPkt, Count, Direction
  <2>5. InStep' /\ Quiet'
    <3>1. ~WasReset'
      BY <2>2, <2>4 DEF WasReset
    <3>. QED
      BY <1>5, <1>7, <2>2, <2>4, <3>1 DEF InStep, Quiet
  <2>6. Fresh'
    BY <1>5, <2>1, <2>2, <2>3, Constants DEF JInv, Fresh
  <2>7. SenseReady' /\ Accounted'
    BY <2>3 DEF SenseReady, Accounted
  <2>8. ArqInStep'
    <3>1. dev[d].sense = p
      BY <1>1 DEF JInv, SenseReady
    <3>. QED
      BY <1>5, <1>7, <2>2, <3>1 DEF ArqInStep
  <2>9. ArqFetched'
    BY <1>3, <1>5, <2>1, <2>3 DEF JInv, ArqFetched
  <2>. QED
    BY <1>5, <2>5, <2>6, <2>7, <2>8, <2>9 DEF JInv
<1>. QED
  BY <1>6, <1>7

(* A reset, and nobody waits for data any more.                            *)
LEMMA FsmResetData ==
  ASSUME IInv, JInv, FsmReset
  PROVE  JInv'
<1>1. call.func = "reset" /\ UNCHANGED <<ctl, ghd, sense>>
      /\ ap' = [ap EXCEPT ![ctl.active].flags = @ \cup {"DEV_RESET", "BUS_RESET"}]
      /\ dev' \in [Drives -> {IdleDev} \cup
                     IF Slow THEN {[IdleDev EXCEPT !.phase = "reset"]} ELSE {}]
  BY DEF FsmReset
<1>2. ctl.active \in Pkts \cup {Arq} /\ ap \in [Pkts \cup {Arq} -> PktStates] /\ ~Asking
  BY <1>1, ActiveOne DEF IInv, TypeOK, PktStates, Asking
<1>3. \A d \in Drives : dev'[d].phase \in {"idle", "reset"} /\ ~dev'[d].err
                        /\ dev'[d].left = 0 /\ dev'[d].len = 0
  <2>1. \A e \in {IdleDev, [IdleDev EXCEPT !.phase = "reset"]} :
          e.phase \in {"idle", "reset"} /\ ~e.err /\ e.left = 0 /\ e.len = 0
    BY DEF IdleDev
  <2>2. \A d \in Drives : dev'[d] \in {IdleDev, [IdleDev EXCEPT !.phase = "reset"]}
    BY <1>1
  <2>. QED
    BY <2>1, <2>2
<1>4. (\A d \in Drives : Coherent(d))'
  BY <1>3 DEF Coherent
<1>5. /\ \A q \in Pkts \cup {Arq} : q # ctl.active => ap'[q] = ap[q]
      /\ ap'[ctl.active].flags = ap[ctl.active].flags \cup {"DEV_RESET", "BUS_RESET"}
      /\ ap'[ctl.active].resid = ap[ctl.active].resid
  <2>1. ap'[ctl.active] = [ap[ctl.active] EXCEPT !.flags = @ \cup {"DEV_RESET", "BUS_RESET"}]
        /\ ap[ctl.active] \in PktStates
    BY <1>1, <1>2
  <2>2. /\ ap'[ctl.active].flags = ap[ctl.active].flags \cup {"DEV_RESET", "BUS_RESET"}
        /\ ap'[ctl.active].resid = ap[ctl.active].resid
    BY <2>1 DEF PktStates
  <2>. QED
    BY <1>1, <1>2, <2>2
<1>6. PICK rc \in {"BUSY", "FINI"} : Return(rc)
  BY DEF FsmReset
<1>7. ~Asking'
  BY <1>1, <1>6, ReturnCall DEF Codes, NoCall, Asking
<1>8. WasReset'
  BY <1>1, <1>5 DEF WasReset
<1>9. InStep' /\ ArqInStep' /\ Quiet'
  <2>1. UnderWay' => ctl'.drive \in Drives
    BY <1>1, UnderWayDrive DEF UnderWay
  <2>. QED
    BY <1>3, <1>8, <2>1 DEF InStep, ArqInStep, Quiet
<1>10. Accounted'
  BY <1>8 DEF Accounted, WasReset
<1>11. ctl.active \in Packets => "GOT_STATUS" \notin ap[ctl.active].flags
                                 /\ "GOT_STATUS" \notin ap'[ctl.active].flags
  BY <1>1, <1>5 DEF JInv, Fresh
<1>12. Fresh'
  <2>1. \A q \in Packets : q = ctl.active => ghd'[q] # "queued"
    BY <1>1, ActiveOne, Constants
  <2>. QED
    BY <1>1, <1>5, <1>7, <1>11, <2>1, Constants DEF JInv, Fresh
<1>13. SenseReady'
  BY <1>1, <1>11 DEF SenseReady, NeedsArq
<1>14. ArqFetched'
  <2>1. \A q \in Pkts : "ARQ_OKAY" \in ap'[q].flags => "ARQ_OKAY" \in ap[q].flags
    BY <1>5
  <2>2. ctl'.active = Arq => {"ERROR", "BUS_RESET"} \cap ap'[Arq].flags # {}
    BY <1>1, <1>5
  <2>. QED
    BY <1>1, <2>1, <2>2 DEF JInv, ArqFetched
<1>. QED
  BY <1>4, <1>9, <1>10, <1>12, <1>13, <1>14 DEF JInv

-----------------------------------------------------------------------------
(* Interrupts.                                                             *)

(* A drive that keeps to its turn shows what it is at.                     *)
LEMMA ReadingsInTurn ==
  ASSUME MaxSpurious = 0, NEW d \in Drives, NEW r \in Readings(d)
  PROVE  /\ r.busy <=> IsBusy(d)
         /\ r.busy \in BOOLEAN
         /\ ~r.busy => r.event = Event[dev[d].phase] /\ r.err = dev[d].err
<1>1. CASE IsBusy(d)
  <2>1. r = [busy |-> TRUE, event |-> 0, err |-> FALSE]
    BY <1>1 DEF Readings
  <2>. QED
    BY <1>1, <2>1
<1>2. CASE ~IsBusy(d)
  <2>1. r = [busy |-> FALSE, event |-> Event[dev[d].phase], err |-> dev[d].err]
    BY <1>2 DEF Readings
  <2>. QED
    BY <1>2, <2>1
<1>. QED
  BY <1>1, <1>2

(* The entries of the tables that such a drive takes.                      *)
LEMMA TablesInTurn ==
  /\ Event.idle = 2 /\ Event.cdb = 3 /\ Event.in = 5 /\ Event.out = 1 /\ Event.status = 6
  /\ \A s \in DriveStates : PioAction[s][3] \notin {"CDB", "IN", "OUT", "RE", "REX"}
  /\ PioAction["cmd"][4] = "CDB" /\ PioNextState["cmd"][4] = "cdb"
  /\ \A s \in {"cdb", "in"} : PioAction[s][6] = "IN" /\ PioNextState[s][6] = "in"
  /\ \A s \in {"cdb", "out"} : PioAction[s][2] = "OUT" /\ PioNextState[s][2] = "out"
  /\ \A s \in {"cdb", "in", "out", "dma"} : PioAction[s][7] = "RE"
<1>1. Event.idle = 2 /\ Event.cdb = 3 /\ Event.in = 5 /\ Event.out = 1 /\ Event.status = 6
  BY DEF Event
<1>2. \A s \in DriveStates : PioAction[s][3] \notin {"CDB", "IN", "OUT", "RE", "REX"}
  BY DEF PioAction, DriveStates
<1>3. PioAction["cmd"][4] = "CDB" /\ PioNextState["cmd"][4] = "cdb"
  BY DEF PioAction, PioNextState
<1>4. \A s \in {"cdb", "in"} : PioAction[s][6] = "IN" /\ PioNextState[s][6] = "in"
  BY DEF PioAction, PioNextState
<1>5. \A s \in {"cdb", "out"} : PioAction[s][2] = "OUT" /\ PioNextState[s][2] = "out"
  BY DEF PioAction, PioNextState
<1>6. \A s \in {"cdb", "in", "out", "dma"} : PioAction[s][7] = "RE"
  BY DEF PioAction
<1>. QED
  BY <1>1, <1>2, <1>3, <1>4, <1>5, <1>6

(* So each interrupt finds the driver ready for what the drive asks.       *)
LEMMA IntrInTurn ==
  ASSUME MaxSpurious = 0, IInv, JInv, call.func = "intr", ctl.active \in Packets \cup {Arq},
         NEW r \in Readings(ctl.drive), NEW tran \in BOOLEAN,
         AtapiIntr(ctl.active, ctl.drive, r, tran)
  PROVE  LET p == ctl.active
             d == ctl.drive
         IN \/ Waits(p, d, r, tran) /\ (WasReset \/ drv'[d] = drv[d])
            \/ /\ SendsCdb(p, d, r, tran) /\ ~WasReset
               /\ drv[d] = "cmd" /\ dev[d].phase = "cdb"
               /\ drv'[d] = IF UsesDma(p) THEN "dma" ELSE "cdb"
            \/ /\ MovesData(p, d, r) /\ ~WasReset /\ drv[d] # "cmd"
               /\ dev[d].phase = Direction(p) /\ drv'[d] = Direction(p)
            \/ /\ Ends(p, d, r, tran) /\ ~WasReset
               /\ drv[d] # "cmd" /\ dev[d].phase = "status" /\ r.err = dev[d].err
<1>. DEFINE p == ctl.active
            d == ctl.drive
            s == drv[d]
            ph == dev[d].phase
<1>1. d \in Atapi /\ d \in Drives /\ drv \in [Atapi -> DriveStates] /\ s \in DriveStates
      /\ ph \in Phases /\ UnderWay
  BY UnderWayDrive, DeviceFields DEF IInv, TypeOK, UnderWay
<1>2. /\ r.busy \in BOOLEAN /\ (r.busy <=> IsBusy(d))
      /\ ~r.busy => r.event = Event[ph] /\ r.err = dev[d].err
  BY <1>1, ReadingsInTurn
<1>3. \/ Waits(p, d, r, tran) \/ SendsCdb(p, d, r, tran)
      \/ MovesData(p, d, r) \/ Ends(p, d, r, tran)
  BY <1>2, AtapiIntrCases
<1>4. drv'[d] = IF r.busy THEN s
                ELSE IF Action(d, r) = "CDB" /\ UsesDma(p) THEN "dma"
                     ELSE PioNextState[s][r.event + 1]
  BY <1>1 DEF AtapiIntr, Action
<1>5. CASE r.busy
  BY <1>3, <1>4, <1>5 DEF SendsCdb, MovesData, Ends
<1>6. CASE ~r.busy /\ WasReset
  <2>1. ph = "idle"
    BY <1>1, <1>2, <1>6 DEF JInv, Quiet, IsBusy
  <2>2. r.event = 2
    BY <1>2, <1>6, <2>1, TablesInTurn
  <2>3. Action(d, r) \notin {"CDB", "IN", "OUT", "RE", "REX"}
    BY <1>1, <2>2, TablesInTurn DEF Action
  <2>. QED
    BY <1>3, <1>6, <2>3 DEF SendsCdb, MovesData, Ends
<1>7. CASE ~r.busy /\ ~WasReset
  <2>1. \/ s = "cmd" /\ ph = "cdb"
        \/ /\ s \in IF UsesDma(p) THEN {"dma"} ELSE {"cdb", Direction(p)} \ {"none"}
           /\ ph \in {"in", "out", "status"}
    BY <1>1, <1>2, <1>7 DEF JInv, InStep, IsBusy
  <2>2. Direction(p) \in {"in", "out", "none"} /\ dev[d].for = p
    BY <1>1, <1>7, CountType, Constants DEF JInv, InStep
  <2>3. CASE s = "cmd" /\ ph = "cdb"
    <3>1. r.event = 3 /\ r.event + 1 = 4
      BY <1>2, <1>7, <2>3, TablesInTurn
    <3>2. Action(d, r) = "CDB" /\ PioNextState[s][r.event + 1] = "cdb"
      BY <2>3, <3>1, TablesInTurn DEF Action
    <3>. QED
      BY <1>3, <1>4, <1>7, <2>3, <3>2 DEF Waits, MovesData, Ends
  <2>4. CASE s # "cmd" /\ ph \in {"in", "out"}
    <3>1. ph = Direction(p) /\ ~UsesDma(p)
      BY <1>1, <2>2, <2>4 DEF JInv, Coherent
    <3>2. s \in {"cdb", Direction(p)}
      BY <2>1, <2>4, <3>1
    <3>3. CASE ph = "in"
      <4>1. r.event + 1 = 6
        BY <1>2, <1>7, <3>3, TablesInTurn
      <4>2. Action(d, r) = "IN" /\ PioNextState[s][r.event + 1] = "in"
        BY <3>1, <3>2, <3>3, <4>1, TablesInTurn DEF Action
      <4>. QED
        BY <1>3, <1>4, <1>7, <2>4, <3>1, <3>3, <4>2 DEF Waits, SendsCdb, Ends
    <3>4. CASE ph = "out"
      <4>1. r.event + 1 = 2
        BY <1>2, <1>7, <3>4, TablesInTurn
      <4>2. Action(d, r) = "OUT" /\ PioNextState[s][r.event + 1] = "out"
        BY <3>1, <3>2, <3>4, <4>1, TablesInTurn DEF Action
      <4>. QED
        BY <1>3, <1>4, <1>7, <2>4, <3>1, <3>4, <4>2 DEF Waits, SendsCdb, Ends
    <3>. QED
      BY <2>4, <3>3, <3>4
  <2>5. CASE s # "cmd" /\ ph = "status"
    <3>1. r.event + 1 = 7 /\ r.err = dev[d].err
      BY <1>2, <1>7, <2>5, TablesInTurn
    <3>2. s \in {"cdb", "in", "out", "dma"}
      BY <2>1, <2>2, <2>5
    <3>3. Action(d, r) = "RE"
      BY <3>1, <3>2, TablesInTurn DEF Action
    <3>. QED
      BY <1>3, <1>7, <2>5, <3>1, <3>3 DEF Waits, SendsCdb, MovesData
  <2>. QED
    BY <2>1, <2>2, <2>3, <2>4, <2>5
<1>. QED
  BY <1>5, <1>6, <1>7

(* Reading the status register takes the interrupt and nothing else.       *)
LEMMA ClearFields ==
  ASSUME IInv, NEW d \in Drives, Clear(d)
  PROVE  /\ \A x \in Drives : x # d => dev'[x] = dev[x]
         /\ dev'[d].phase = dev[d].phase /\ dev'[d].len = dev[d].len
         /\ dev'[d].left = dev[d].left /\ dev'[d].block = dev[d].block
         /\ dev'[d].err = dev[d].err /\ dev'[d].for = dev[d].for
         /\ dev'[d].sense = dev[d].sense
         /\ Moved(dev'[d]) = Moved(dev[d])
         /\ \A x \in Drives : Coherent(x) => Coherent(x)'
<1>1. dev \in [Drives -> DeviceStates] /\ dev[d] \in DeviceStates
  BY DEF IInv, DevOK
<1>2. dev'[d] = [dev[d] EXCEPT !.irq = FALSE] /\ \A x \in Drives : x # d => dev'[x] = dev[x]
  BY <1>1 DEF Clear, SetDev
<1>3. /\ dev'[d].phase = dev[d].phase /\ dev'[d].len = dev[d].len
      /\ dev'[d].left = dev[d].left /\ dev'[d].block = dev[d].block
      /\ dev'[d].err = dev[d].err /\ dev'[d].for = dev[d].for
      /\ dev'[d].sense = dev[d].sense
  BY <1>1, <1>2 DEF DeviceStates
<1>4. Moved(dev'[d]) = Moved(dev[d])
  BY <1>3 DEF Moved
<1>5. ASSUME NEW x \in Drives, Coherent(x)
      PROVE  Coherent(x)'
  <2>1. CASE x = d
    BY <1>3, <1>5, <2>1 DEF Coherent
  <2>2. CASE x # d
    BY <1>2, <1>5, <2>2 DEF Coherent
  <2>. QED
    BY <2>1, <2>2
<1>. QED
  BY <1>2, <1>3, <1>4, <1>5

(* What is left to show of an interrupt that does not end the command.     *)
LEMMA StillUnderWay ==
  ASSUME IInv, JInv, call.func = "intr", ctl.active \in Packets \cup {Arq},
         UNCHANGED <<ctl, ghd>>, call' = NoCall,
         (\A d \in Drives : Coherent(d))', InStep', Quiet', ArqInStep',
         \A q \in Pkts \cup {Arq} : q # ctl.active => ap'[q] = ap[q],
         \A f \in {"GOT_STATUS", "ARQ_OKAY"} :
           f \in ap'[ctl.active].flags => f \in ap[ctl.active].flags,
         \A q \in Pkts : sense'[q] = sense[q] \/ (ctl.active = Arq /\ q = ctl.fault)
  PROVE  JInv'
<1>1. call'.func = "start" /\ ~Asking' /\ ~Asking
  BY DEF NoCall, Asking
<1>2. ctl.active \in Packets => ghd[ctl.active] = "active"
                                /\ "GOT_STATUS" \notin ap[ctl.active].flags
  BY ActiveOne, Constants DEF JInv, Fresh
<1>3. Fresh'
  BY <1>1, <1>2, Constants DEF JInv, Fresh
<1>4. SenseReady' /\ Accounted'
  BY <1>1 DEF SenseReady, Accounted
<1>5. ArqFetched'
  <2>1. \A q \in Pkts : "ARQ_OKAY" \in ap'[q].flags => "ARQ_OKAY" \in ap[q].flags
    OBVIOUS
  <2>2. ctl.active = Arq => ghd[ctl.fault] = "active"
    BY ActiveOne
  <2>. QED
    BY <1>1, <2>1, <2>2 DEF JInv, ArqFetched
<1>. QED
  BY <1>3, <1>4, <1>5 DEF JInv

(* The drive is busy, or has forgotten the command in a reset.             *)
LEMMA WaitsData ==
  ASSUME IInv, JInv, call.func = "intr", ctl.active \in Packets \cup {Arq},
         UNCHANGED <<ctl, ghd>>, NEW r, NEW tran \in BOOLEAN,
         Waits(ctl.active, ctl.drive, r, tran), WasReset \/ drv'[ctl.drive] = drv[ctl.drive]
  PROVE  JInv'
<1>. DEFINE p == ctl.active
            d == ctl.drive
<1>1. d \in Drives /\ p \in Pkts \cup {Arq} /\ ap \in [Pkts \cup {Arq} -> PktStates]
      /\ UnderWay
  BY UnderWayDrive, Constants DEF IInv, TypeOK, PktStates, UnderWay
<1>2. Clear(d) /\ sense' = sense /\ ap' = [ap EXCEPT ![p] = Failed(p, tran)]
      /\ \E rc \in {"BUSY", "OKAY"} : Return(rc)
  BY DEF Waits
<1>3. call' = NoCall
  BY <1>2, ReturnCall DEF Codes
<1>4. /\ \A q \in Pkts \cup {Arq} : q # p => ap'[q] = ap[q]
      /\ ap'[p].resid = ap[p].resid
      /\ ap'[p].flags = ap[p].flags \cup (IF tran THEN {"ERROR", "TRAN_ERROR"} ELSE {})
  BY <1>1, <1>2, FailedFields
<1>5. UnderWay' /\ WasReset' = WasReset
  BY <1>3, <1>4 DEF UnderWay, WasReset, NoCall
<1>6. /\ dev'[d].phase = dev[d].phase /\ dev'[d].len = dev[d].len /\ dev'[d].err = dev[d].err
      /\ dev'[d].for = dev[d].for /\ dev'[d].sense = dev[d].sense
      /\ Moved(dev'[d]) = Moved(dev[d]) /\ \A x \in Drives : Coherent(x) => Coherent(x)'
  BY <1>1, <1>2, ClearFields
<1>7. InStep'
  BY <1>1, <1>4, <1>5, <1>6 DEF JInv, InStep
<1>8. Quiet'
  BY <1>1, <1>5, <1>6 DEF JInv, Quiet
<1>9. ArqInStep'
  BY <1>1, <1>2, <1>5, <1>6 DEF JInv, ArqInStep
<1>10. (\A x \in Drives : Coherent(x))'
  BY <1>6 DEF JInv
<1>. QED
  BY <1>2, <1>3, <1>4, <1>7, <1>8, <1>9, <1>10, StillUnderWay

(* The drive gets its CDB and forgets the sense data, unless the CDB asks  *)
(* for them.                                                               *)
LEMMA SendsCdbData ==
  ASSUME IInv, JInv, call.func = "intr", ctl.active \in Packets \cup {Arq},
         UNCHANGED <<ctl, ghd>>, NEW r, NEW tran \in BOOLEAN,
         SendsCdb(ctl.active, ctl.drive, r, tran), ~WasReset,
         drv[ctl.drive] = "cmd", dev[ctl.drive].phase = "cdb",
         drv'[ctl.drive] = IF UsesDma(ctl.active) THEN "dma" ELSE "cdb"
  PROVE  JInv'
<1>. DEFINE p == ctl.active
            d == ctl.drive
<1>1. d \in Drives /\ p \in Pkts \cup {Arq} /\ ap \in [Pkts \cup {Arq} -> PktStates]
      /\ UnderWay /\ dev \in [Drives -> DeviceStates] /\ dev[d] \in DeviceStates
  BY UnderWayDrive, Constants DEF IInv, TypeOK, DevOK, PktStates, UnderWay
<1>2. sense' = sense /\ Return("OKAY")
      /\ ap' = [ap EXCEPT ![p] = [Failed(p, tran) EXCEPT !.flags = @ \cup {"SENT_CMD"}]]
  BY DEF SendsCdb
<1>3. call' = NoCall
  BY <1>2, ReturnCall DEF Codes
<1>4. PICK n \in Nat : /\ dev' = [dev EXCEPT ![d] = Receive(d, p, n)]
                       /\ p = Arq => n > 0
  <2>1. DevLens \subseteq Nat /\ Direction(Arq) = "in"
    BY CtlrAssumption DEF Direction
  <2>2. PICK n \in IF Direction(p) = "none" THEN {0}
                  ELSE DevLens \ (IF p = Arq THEN {0} ELSE {}) :
          dev' = [dev EXCEPT ![d] = Receive(d, p, n)]
    BY DEF SendsCdb, SetDev
  <2>3. n \in Nat /\ (p = Arq => n > 0)
    BY <2>1, <2>2
  <2>. QED
    BY <2>2, <2>3
<1>5. /\ \A q \in Pkts \cup {Arq} : q # p => ap'[q] = ap[q]
      /\ ap'[p].resid = ap[p].resid
      /\ ap'[p].flags = ap[p].flags \cup (IF tran THEN {"ERROR", "TRAN_ERROR"} ELSE {})
                                    \cup {"SENT_CMD"}
  <2>. DEFINE a == Failed(p, tran)
  <2>1. a \in PktStates /\ a.resid = ap[p].resid
        /\ a.flags = ap[p].flags \cup (IF tran THEN {"ERROR", "TRAN_ERROR"} ELSE {})
    BY <1>1, FailedFields
  <2>. HIDE DEF a
  <2>2. ap'[p] = [a EXCEPT !.flags = @ \cup {"SENT_CMD"}]
        /\ \A q \in Pkts \cup {Arq} : q # p => ap'[q] = ap[q]
    BY <1>1, <1>2 DEF a
  <2>3. ap'[p].resid = a.resid /\ ap'[p].flags = a.flags \cup {"SENT_CMD"}
    BY <2>1, <2>2 DEF PktStates
  <2>. QED
    BY <2>1, <2>2, <2>3
<1>6. UnderWay' /\ ~WasReset'
  BY <1>3, <1>5 DEF UnderWay, WasReset, NoCall
<1>7. /\ dev'[d].phase = "busy" /\ dev'[d].for = p /\ dev'[d].len = n /\ dev'[d].left = n
      /\ dev'[d].err = dev[d].err /\ (p = Arq => dev'[d].sense = dev[d].sense)
      /\ \A x \in Drives : x # d => dev'[x] = dev[x]
  <2>1. dev'[d] = [dev[d] EXCEPT !.phase = "busy", !.irq = FALSE, !.for = p, !.len = n,
                                 !.left = n, !.sense = IF p = Arq THEN @ ELSE NoPkt]
        /\ \A x \in Drives : x # d => dev'[x] = dev[x]
    BY <1>1, <1>4 DEF Receive
  <2>. QED
    BY <1>1, <2>1 DEF DeviceStates
<1>8. Moved(dev'[d]) = 0
  BY <1>7 DEF Moved
<1>9. ~dev[d].err
  BY <1>1 DEF JInv, Coherent
<1>10. (\A x \in Drives : Coherent(x))'
  BY <1>1, <1>7, <1>9 DEF JInv, Coherent
<1>11. InStep'
  <2>1. ap[p].resid = Count(p) /\ Count(p) \in Nat
    BY <1>1, CountType DEF JInv, InStep
  <2>2. ap'[p].resid = IF Moved(dev'[d]) < Count(p) THEN Count(p) - Moved(dev'[d]) ELSE 0
    BY <1>5, <1>8, <2>1
  <2>3. p = Arq => dev'[d].len > 0
    BY <1>4, <1>7
  <2>. QED
    BY <1>7, <2>2, <2>3 DEF InStep
<1>12. Quiet'
  BY <1>6 DEF Quiet
<1>13. ArqInStep'
  BY <1>1, <1>7, <1>8, <1>9 DEF JInv, ArqInStep
<1>. QED
  BY <1>2, <1>3, <1>5, <1>10, <1>11, <1>12, <1>13, StillUnderWay

(* A block of data moves; what the request has no room for is dropped, and *)
(* what the request has no data for leaves the drive waiting.              *)
LEMMA MovesDataData ==
  ASSUME IInv, JInv, call.func = "intr", ctl.active \in Packets \cup {Arq},
         UNCHANGED <<ctl, ghd>>, NEW r, MovesData(ctl.active, ctl.drive, r), ~WasReset,
         drv[ctl.drive] # "cmd", dev[ctl.drive].phase = Direction(ctl.active),
         drv'[ctl.drive] = Direction(ctl.active)
  PROVE  JInv'
<1>. DEFINE p == ctl.active
            d == ctl.drive
            e == dev[d]
            f == dev'[d]
<1>1. d \in Drives /\ p \in Pkts \cup {Arq} /\ ap \in [Pkts \cup {Arq} -> PktStates]
      /\ UnderWay /\ dev \in [Drives -> DeviceStates] /\ e \in DeviceStates
      /\ ap[p] \in PktStates /\ sense \in [Pkts -> Owners] /\ ap[p].resid \in Nat
      /\ e.len \in Nat /\ e.left \in Nat /\ e.block \in Nat
  <2>1. d \in Drives /\ p \in Pkts \cup {Arq} /\ ap \in [Pkts \cup {Arq} -> PktStates]
        /\ UnderWay /\ sense \in [Pkts -> Owners] /\ dev \in [Drives -> DeviceStates]
    BY UnderWayDrive, Constants DEF IInv, TypeOK, DevOK, PktStates, UnderWay
  <2>. QED
    BY <2>1, CountType DEF PktStates, DeviceStates
<1>2. ~UsesDma(p) /\ call' = NoCall
  BY ReturnCall DEF MovesData, Codes
<1>3. PICK m \in {0, e.block - ap[p].resid} :
        /\ dev' = [dev EXCEPT ![d] = DrqDone(d, m)]
        /\ Direction(p) \in {"in", "out"}
        /\ m # 0 => ap[p].resid < e.block
        /\ Direction(p) = "out" /\ ap[p].resid < e.block => m = e.block - ap[p].resid
        /\ sense' = IF p = Arq THEN [sense EXCEPT ![ctl.fault] = e.sense] ELSE sense
        /\ m # 0 => Direction(p) = "out"
        /\ ap' = [ap EXCEPT ![p] = Move(@, e.block)]
  <2>1. CASE Direction(p) = "in" /\ PioIn(p, d)
    BY <2>1 DEF PioIn, SetDev
  <2>2. CASE Direction(p) = "out" /\ PioOut(p, d)
    <3>1. p # Arq
      BY <2>2 DEF Direction
    <3>. QED
      BY <1>1, <2>2, <3>1 DEF PioOut, SetDev
  <2>. QED
    BY <2>1, <2>2 DEF MovesData
<1>4. /\ \A q \in Pkts \cup {Arq} : q # p => ap'[q] = ap[q]
      /\ ap'[p].flags = ap[p].flags \cup {"XFERRED_DATA"}
      /\ ap'[p].resid = IF ap[p].resid < e.block THEN 0 ELSE ap[p].resid - e.block
  BY <1>1, <1>3, MoveFields
<1>5. UnderWay' /\ ~WasReset'
  BY <1>2, <1>4 DEF UnderWay, WasReset, NoCall
<1>6. /\ f.phase = (IF m = 0 THEN "busy" ELSE e.phase) /\ f.block = m
      /\ f.for = e.for /\ f.len = e.len /\ f.left = e.left /\ f.err = e.err
      /\ f.sense = e.sense
      /\ \A x \in Drives : x # d => dev'[x] = dev[x]
  <2>1. ~IsBusy(d)
    BY <1>3 DEF IsBusy
  <2>2. f = [e EXCEPT !.phase = IF m = 0 THEN "busy" ELSE @, !.irq = FALSE, !.block = m]
        /\ \A x \in Drives : x # d => dev'[x] = dev[x]
    BY <1>1, <1>3, <2>1 DEF DrqDone
  <2>. QED
    BY <1>1, <2>2 DEF DeviceStates
<1>7. /\ e.left <= e.len /\ e.block + e.left <= e.len /\ ~e.err /\ e.for = p
      /\ p = Arq => e.len > 0
      /\ ap[p].resid = IF Moved(e) < Count(p) THEN Count(p) - Moved(e) ELSE 0
  <2>1. /\ e.left <= e.len /\ e.block + e.left <= e.len /\ ~e.err
    BY <1>1, <1>3 DEF JInv, Coherent
  <2>2. /\ e.for = p /\ (p = Arq => e.len > 0)
        /\ ap[p].resid = IF Moved(e) < Count(p) THEN Count(p) - Moved(e) ELSE 0
    BY <1>1, <1>2 DEF JInv, InStep
  <2>. QED
    BY <2>1, <2>2
<1>8. e.phase \in {"in", "out"} /\ e.phase = Direction(p) /\ Count(p) \in Nat
  BY <1>1, <1>3, CountType
<1>9. (\A x \in Drives : Coherent(x))'
  <2>1. /\ f.left <= f.len
        /\ f.phase \in {"in", "out"} =>
             f.block + f.left <= f.len /\ f.phase = Direction(f.for) /\ ~UsesDma(f.for)
        /\ f.phase # "status" /\ ~f.err
    <3>. HIDE DEF e, f
    <3>. QED
      BY <1>1, <1>2, <1>3, <1>6, <1>7, <1>8
  <2>. QED
    BY <1>6, <2>1 DEF JInv, Coherent
<1>10. InStep'
  <2>1. ap'[p].resid = IF Moved(f) < Count(p) THEN Count(p) - Moved(f) ELSE 0
    <3>1. Moved(e) = e.len - e.left - e.block
      BY <1>8 DEF Moved
    <3>2. Moved(f) = e.len - e.left - m
      <4>. HIDE DEF e, f
      <4>. QED
        BY <1>1, <1>3, <1>6, <1>8 DEF Moved
    <3>3. CASE m = 0
      <4>1. Moved(f) = Moved(e) + e.block
        <5>. HIDE DEF e, f
        <5>. QED
          BY <1>1, <3>1, <3>2, <3>3
      <4>2. Moved(e) \in Int
        <5>. HIDE DEF e, f
        <5>. QED
          BY <1>1, <3>1
      <4>. HIDE DEF e, f
      <4>. QED
        BY <1>1, <1>4, <1>7, <1>8, <4>1, <4>2
    <3>4. CASE m # 0
      <4>1. Moved(f) = Moved(e) + ap[p].resid /\ Moved(e) \in Int
        <5>. HIDE DEF e, f
        <5>. QED
          BY <1>1, <1>3, <3>1, <3>2, <3>4
      <4>. HIDE DEF e, f
      <4>. QED
        BY <1>1, <1>3, <1>4, <1>7, <1>8, <3>4, <4>1
    <3>. QED
      BY <3>3, <3>4
  <2>2. f.phase \in {"busy", "in", "out"} /\ f.for = p /\ (p = Arq => f.len > 0)
    <3>. HIDE DEF e, f
    <3>. QED
      BY <1>6, <1>7, <1>8
  <2>3. drv'[d] = Direction(p) /\ Direction(p) # "none"
    BY <1>3
  <2>. QED
    BY <1>2, <2>1, <2>2, <2>3 DEF InStep
<1>11. Quiet'
  BY <1>5 DEF Quiet
<1>12. ArqInStep'
  <2>. SUFFICES ASSUME p = Arq
                PROVE  f.sense = ctl.fault /\ sense'[ctl.fault] = ctl.fault
    BY DEF ArqInStep
  <2>1. e.sense = ctl.fault /\ ctl.fault \in Pkts
    BY <1>1, <1>7, ActiveOne, Constants DEF JInv, ArqInStep
  <2>. QED
    BY <1>1, <1>3, <1>6, <2>1
<1>13. \A q \in Pkts : sense'[q] = sense[q] \/ (ctl.active = Arq /\ q = ctl.fault)
  BY <1>1, <1>3
<1>. QED
  BY <1>2, <1>4, <1>9, <1>10, <1>11, <1>12, <1>13, StillUnderWay

(* The command ends with the drive's status.                               *)
LEMMA EndsData ==
  ASSUME IInv, JInv, call.func = "intr", ctl.active \in Packets \cup {Arq},
         UNCHANGED <<ctl, ghd>>, NEW r, r.err \in BOOLEAN, NEW tran \in BOOLEAN,
         Ends(ctl.active, ctl.drive, r, tran), ~WasReset,
         drv[ctl.drive] # "cmd", dev[ctl.drive].phase = "status", r.err = dev[ctl.drive].err
  PROVE  JInv'
<1>. DEFINE p == ctl.active
            d == ctl.drive
            e == dev[d]
<1>1. d \in Atapi /\ d \in Drives /\ p \in Pkts \cup {Arq}
      /\ ap \in [Pkts \cup {Arq} -> PktStates] /\ UnderWay
  BY UnderWayDrive, Constants DEF IInv, TypeOK, PktStates, UnderWay
<1>2. Clear(d) /\ sense' = sense /\ Return("FINI")
      /\ ap' = [ap EXCEPT ![p] = Status(Failed(p, tran), r.err, drv[d] = "dma")]
  BY DEF Ends
<1>3. call'.func = "fini" /\ ~Asking' /\ ~Asking
  BY <1>2, ReturnCall DEF Codes, Asking
<1>4. /\ dev'[d].phase = "status" /\ dev'[d].len = e.len /\ dev'[d].sense = e.sense
      /\ \A x \in Drives : Coherent(x) => Coherent(x)'
  BY <1>1, <1>2, ClearFields
<1>5. /\ \A q \in Pkts \cup {Arq} : q # p => ap'[q] = ap[q]
      /\ ap'[p].flags \subseteq ap[p].flags \cup
           {"ERROR", "TRAN_ERROR", "GOT_STATUS", "XFERRED_DATA"}
      /\ e.err => "ERROR" \in ap'[p].flags
      /\ "ERROR" \in ap'[p].flags => ap'[p].err = e.err
      /\ drv[d] # "dma" => ap'[p].resid = ap[p].resid
  <2>. DEFINE a == Failed(p, tran)
  <2>1. a \in PktStates /\ a.resid = ap[p].resid
        /\ a.flags = ap[p].flags \cup (IF tran THEN {"ERROR", "TRAN_ERROR"} ELSE {})
    BY <1>1, FailedFields
  <2>2. ap'[p] = Status(a, r.err, drv[d] = "dma")
        /\ \A q \in Pkts \cup {Arq} : q # p => ap'[q] = ap[q]
    BY <1>1, <1>2
  <2>. HIDE DEF a
  <2>3. /\ ap'[p].flags \subseteq a.flags \cup {"GOT_STATUS", "ERROR", "XFERRED_DATA"}
        /\ "ERROR" \in ap'[p].flags <=> "ERROR" \in a.flags \/ r.err
        /\ "ERROR" \in ap'[p].flags => ap'[p].err = r.err
    BY <2>1, <2>2, StatusFields
  <2>4. drv[d] # "dma" => ap'[p].resid = a.resid
    BY <2>1, <2>2 DEF Status, PktStates
  <2>. QED
    BY <2>1, <2>2, <2>3, <2>4
<1>6. /\ e.for = p /\ (p = Arq => e.len > 0) /\ (~UsesDma(p) => drv[d] # "dma")
      /\ ~UsesDma(p) =>
           ap[p].resid = IF Moved(e) < Count(p) THEN Count(p) - Moved(e) ELSE 0
  <2>1. Direction(p) # "dma"
    BY <1>1, CountType
  <2>. QED
    BY <1>1, <2>1 DEF JInv, InStep
<1>7. (e.err => e.sense = p) /\ (~e.err => e.left = 0 /\ Moved(e) = e.len)
  <2>1. (e.err => e.sense = p) /\ (~e.err => e.left = 0) /\ e.len \in Nat
    BY <1>1, <1>6, DeviceFields DEF JInv, Coherent
  <2>. QED
    BY <2>1 DEF Moved
<1>8. InStep' /\ Quiet' /\ ArqInStep'
  BY <1>3 DEF InStep, Quiet, ArqInStep, UnderWay
<1>9. Fresh'
  <2>1. p \in Packets => ghd[p] = "active"
    BY ActiveOne, Constants
  <2>. QED
    BY <1>3, <1>5, <2>1, Constants DEF JInv, Fresh
<1>10. SenseReady'
  <2>. SUFFICES ASSUME p \in Packets, NeedsArq(p)'
                PROVE  dev'[d].sense = p /\ dev'[d].phase = "status"
    BY DEF SenseReady
  <2>1. e.err
    BY <1>5 DEF NeedsArq
  <2>. QED
    BY <1>4, <1>7, <2>1
<1>11. ArqFetched'
  <2>1. \A q \in Pkts : "ARQ_OKAY" \in ap'[q].flags => "ARQ_OKAY" \in ap[q].flags
    BY <1>5
  <2>2. p = Arq /\ ~e.err => sense[ctl.fault] = ctl.fault
    BY <1>1, <1>6, <1>7 DEF JInv, ArqInStep
  <2>3. p = Arq /\ {"ERROR", "BUS_RESET"} \cap ap'[Arq].flags = {} => ~e.err
    BY <1>5
  <2>. QED
    BY <1>2, <2>1, <2>2, <2>3 DEF JInv, ArqFetched
<1>12. Accounted'
  <2>. SUFFICES ASSUME ~UsesDma(p), {"ERROR", "BUS_RESET"} \cap ap'[p].flags = {}
                PROVE  /\ ap'[p].resid = IF e.len < Count(p) THEN Count(p) - e.len ELSE 0
                       /\ dev'[d].phase = "status"
    BY <1>4 DEF Accounted
  <2>1. ~e.err
    BY <1>5
  <2>. QED
    BY <1>4, <1>5, <1>6, <1>7, <2>1
<1>. QED
  BY <1>4, <1>8, <1>9, <1>10, <1>11, <1>12 DEF JInv

(* A disk's request has no ATAPI command under way, and a drive's steps    *)
(* leave it coherent.                                                      *)
LEMMA DiskIntrData ==
  ASSUME IInv, JInv, call.func = "intr", ctl.active \in Pkts, Kind[ctl.active] = "disk",
         UNCHANGED <<ctl, ghd>>, DiskIntr(ctl.active, ctl.drive)
  PROVE  JInv'
<1>. DEFINE p == ctl.active
            d == ctl.drive
            e == dev[d]
<1>1. d \in Drives /\ p \notin Packets \cup {Arq} /\ ap \in [Pkts \cup {Arq} -> PktStates]
      /\ dev \in [Drives -> DeviceStates] /\ sense' = sense
  <2>1. p # Arq /\ p # NoPkt /\ p \notin Packets
    BY Constants
  <2>2. d = Target[p]
    BY <2>1 DEF IInv, CtlOK, IdleCtl, Current
  <2>. QED
    BY <2>1, <2>2, Constants DEF IInv, TypeOK, DevOK, PktStates, DiskIntr
<1>2. ap' \in {ap, [ap EXCEPT ![p].flags = @ \cup {"ERROR"}]}
      /\ \/ Clear(d)
         \/ e.phase \in {"in", "out"} /\ SetDev(d, IdleDev)
         \/ e.phase \in {"in", "out"} /\ SetDev(d, DrqDone(d, 0))
      /\ \E rc \in {"BUSY", "OKAY", "FINI"} : Return(rc)
  <2>1. CASE IsBusy(d)
    BY <2>1 DEF DiskIntr
  <2>2. CASE ~IsBusy(d) /\ e.phase \in {"in", "out"}
    BY <2>2 DEF DiskIntr
  <2>3. CASE ~IsBusy(d) /\ e.phase \notin {"in", "out"}
    BY <2>3 DEF DiskIntr
  <2>. QED
    BY <2>1, <2>2, <2>3
<1>3. ~Asking' /\ ~Asking
  BY <1>2, ReturnCall DEF Codes, Asking, NoCall
<1>4. /\ \A q \in Pkts \cup {Arq} : q # p => ap'[q] = ap[q]
      /\ "ARQ_OKAY" \in ap'[p].flags => "ARQ_OKAY" \in ap[p].flags
  <2>1. ap'[p] \in {ap[p], [ap[p] EXCEPT !.flags = @ \cup {"ERROR"}]} /\ ap[p] \in PktStates
    BY <1>1, <1>2
  <2>2. "ARQ_OKAY" \in ap'[p].flags => "ARQ_OKAY" \in ap[p].flags
    BY <2>1 DEF PktStates
  <2>. QED
    BY <1>1, <1>2, <2>2
<1>5. (\A x \in Drives : Coherent(x))'
  <2>1. CASE Clear(d)
    BY <1>1, <2>1, ClearFields DEF JInv
  <2>2. CASE e.phase \in {"in", "out"} /\ SetDev(d, IdleDev)
    <3>1. dev'[d] = IdleDev /\ \A x \in Drives : x # d => dev'[x] = dev[x]
      BY <1>1, <2>2 DEF SetDev
    <3>. QED
      BY <3>1 DEF JInv, Coherent, IdleDev
  <2>3. CASE e.phase \in {"in", "out"} /\ SetDev(d, DrqDone(d, 0))
    <3>1. ~IsBusy(d) /\ ~e.err /\ e.left <= e.len /\ e \in DeviceStates
      BY <1>1, <2>3 DEF JInv, Coherent, IsBusy
    <3>2. dev'[d] = [e EXCEPT !.phase = "busy", !.irq = FALSE, !.block = 0]
          /\ \A x \in Drives : x # d => dev'[x] = dev[x]
      BY <1>1, <2>3, <3>1 DEF SetDev, DrqDone
    <3>3. dev'[d].phase = "busy" /\ dev'[d].err = e.err /\ dev'[d].left = e.left
          /\ dev'[d].len = e.len
      BY <3>1, <3>2 DEF DeviceStates
    <3>4. Coherent(d)'
      BY <3>1, <3>3 DEF Coherent
    <3>5. \A x \in Drives : x # d => Coherent(x)'
      BY <3>2 DEF JInv, Coherent
    <3>. QED
      BY <3>4, <3>5
  <2>. QED
    BY <1>2, <2>1, <2>2, <2>3
<1>6. InStep' /\ Quiet' /\ ArqInStep' /\ SenseReady' /\ Accounted'
  BY <1>1 DEF InStep, Quiet, ArqInStep, SenseReady, Accounted, UnderWay
<1>7. Fresh' /\ ArqFetched'
  BY <1>1, <1>3, <1>4, Constants DEF JInv, Fresh, ArqFetched
<1>. QED
  BY <1>5, <1>6, <1>7 DEF JInv

LEMMA FsmIntrData ==
  ASSUME MaxSpurious = 0, IInv, JInv, FsmIntr
  PROVE  JInv'
<1>. DEFINE p == ctl.active
            d == ctl.drive
<1>1. call.func = "intr" /\ UNCHANGED <<ctl, ghd>> /\ p \in Pkts \cup {Arq}
  BY ActiveOne DEF FsmIntr
<1>2. p # Arq => Kind[p] \in {"packet", "disk"}
  BY <1>1, Constants DEF IInv, EnginesOK
<1>3. CASE p # Arq /\ Kind[p] = "disk"
  <2>1. DiskIntr(p, d) /\ p \in Pkts
    BY <1>1, <1>3 DEF FsmIntr
  <2>. QED
    BY <1>1, <1>3, <2>1, DiskIntrData
<1>4. CASE ~(p # Arq /\ Kind[p] = "disk")
  <2>1. p \in Packets \cup {Arq} /\ d \in Drives
    BY <1>1, <1>2, <1>4, Constants, UnderWayDrive
  <2>2. PICK r \in Readings(d), tran \in BOOLEAN : AtapiIntr(p, d, r, tran)
    BY <1>4 DEF FsmIntr
  <2>3. r.err \in BOOLEAN
    BY <2>1, ReadingsType DEF IInv, DevOK, ReadingStates
  <2>. QED
    BY <1>1, <2>1, <2>2, <2>3, IntrInTurn, WaitsData, SendsCdbData, MovesDataData, EndsData
<1>. QED
  BY <1>3, <1>4

-----------------------------------------------------------------------------
(* The theorems.                                                           *)

LEMMA InitJInv == Init => JInv /\ ErrorsTold
<1>. SUFFICES ASSUME Init PROVE JInv /\ ErrorsTold
  OBVIOUS
<1>1. ctl.active = NoPkt /\ call.func = "start" /\ ~Asking
  BY DEF Init, IdleCtl, NoCall, Asking
<1>2. \A p \in Pkts \cup {Arq} : ap[p].flags = {} /\ ap[p].resid = Count(p)
  BY DEF Init
<1>3. \A d \in Drives : Coherent(d)
  BY DEF Init, IdleDev, Coherent
<1>4. InStep /\ Quiet /\ ArqInStep /\ SenseReady /\ Accounted
  BY <1>1, Constants DEF InStep, Quiet, ArqInStep, SenseReady, Accounted, UnderWay
<1>5. Fresh /\ ArqFetched /\ ErrorsTold
  BY <1>1, <1>2, Constants DEF Fresh, ArqFetched, ErrorsTold, Told
<1>. QED
  BY <1>3, <1>4, <1>5 DEF JInv

LEMMA StepJInv ==
  ASSUME MaxSpurious = 0, IInv, IInv', JInv, [Next]_vars
  PROVE  JInv'
<1>1. CASE UNCHANGED vars
  <2>1. (\A d \in Drives : Coherent(d))' /\ InStep' /\ Quiet' /\ ArqInStep'
    BY <1>1 DEF vars, JInv, Coherent, InStep, Quiet, ArqInStep, UnderWay, WasReset
  <2>2. Fresh' /\ SenseReady' /\ ArqFetched' /\ Accounted'
    BY <1>1 DEF vars, JInv, Fresh, Asking, SenseReady, NeedsArq, ArqFetched, Accounted
  <2>. QED
    BY <2>1, <2>2 DEF JInv
<1>2. CASE Drive
  BY <1>2, DriveData
<1>3. CASE ProcessIntr
  <2>1. \E p : p \in Pkts
    <3>1. ctl.active # NoPkt
      BY <1>3, Constants DEF ProcessIntr, IInv, CtlOK, IdleCtl, Current
    <3>. QED
      BY <3>1, ActiveOne DEF IInv, TypeOK, Packets
  <2>. QED
    BY <1>3, <2>1, CallsData
<1>4. ASSUME NEW p \in Pkts, HbaStart(p) \/ ResetBus(p) \/ Submit(p)
      PROVE  JInv'
  BY <1>4, CallsData, SubmitData
<1>5. CASE Fsm
  BY <1>5, FsmStartData, PollDrqData, FsmIntrData, FsmFiniArqData, FsmStartArqData,
     FsmFiniData, FsmResetData DEF Fsm
<1>. QED
  BY <1>1, <1>2, <1>3, <1>4, <1>5 DEF Next

(* Without AC_BSY_WAIT, AP_ERROR on a request that got its status is never *)
(* left over from elsewhere: atapi_status saw the ERR bit, or the DMA of   *)
(* the request failed. Interrupts out of turn do not change that.          *)
THEOREM ErrorsAreRealAlways == ASSUME ~BsyWait PROVE Spec => []ErrorsAreReal
<1>1. Init => IInv /\ ErrorsTold
  BY InitIInv, InitJInv
<1>2. IInv /\ ErrorsTold /\ [Next]_vars => (IInv /\ ErrorsTold)'
  BY StepIInv, StepTold
<1>3. IInv /\ ErrorsTold => ErrorsAreReal
  BY DEF ErrorsTold, Told, ErrorsAreReal
<1>. QED
  BY <1>1, <1>2, <1>3, PTL DEF Spec

(* For drives that keep to their turn, the state machines of atapi_fsm.c   *)
(* stay in step with the drive, and the sense data ata_start_arq fetches   *)
(* are those of the request it is for.                                     *)
THEOREM SenseAlwaysItsOwn == ASSUME MaxSpurious = 0 PROVE Spec => []SenseIsItsOwn
<1>1. Init => IInv /\ JInv
  BY InitIInv, InitJInv
<1>2. IInv /\ JInv /\ [Next]_vars => (IInv /\ JInv)'
  BY StepIInv, StepJInv
<1>3. IInv /\ JInv => SenseIsItsOwn
  BY DEF JInv, ArqFetched, SenseIsItsOwn
<1>. QED
  BY <1>1, <1>2, <1>3, PTL DEF Spec

(* For such drives and requests by PIO, ap_resid of a request that ends    *)
(* well is what the drive left out, however the data came in blocks        *)
(* (atapi_pio_data_in, atapi_pio_data_out, atapi_status). A DMA request is *)
(* taken for complete by atapi_status, so it is excluded.                  *)
THEOREM DataAlwaysAccounted ==
  ASSUME MaxSpurious = 0, \A p \in Packets : ~Dma[p]
  PROVE  Spec => []DataAccounted
<1>1. Init => IInv /\ JInv
  BY InitIInv, InitJInv
<1>2. IInv /\ JInv /\ [Next]_vars => (IInv /\ JInv)'
  BY StepIInv, StepJInv
<1>3. IInv /\ JInv => DataAccounted
  BY DEF IInv, JInv, Accounted, DataAccounted, UsesDma
<1>. QED
  BY <1>1, <1>2, <1>3, PTL DEF Spec
=============================================================================
