--------------------------- MODULE AtaCtlr_proofs ---------------------------
(***************************************************************************)
(* Proofs about module AtaCtlr: its types, that the controller's active    *)
(* request is the one that GHD takes for active, that an idle controller   *)
(* has idle drives and an idle DMA engine, and that it implements          *)
(* HbaService.                                                             *)
(***************************************************************************)
EXTENDS AtaCtlr, TLAPS

-----------------------------------------------------------------------------
(* The inductive invariant. Its parts hold in the middle of a call too.    *)

(* What a drive shows.                                                     *)
Phases == {"idle", "cmd", "cdb", "busy", "in", "out", "status", "reset"}
Owners == Pkts \cup {Arq, NoPkt}
DeviceStates ==
  [phase : Phases, irq : BOOLEAN, len : Nat, left : Nat, block : Nat,
   err : BOOLEAN, for : Owners, sense : Owners]

(* A drive that has data left to move knows in which direction.            *)
Directed(e) == e.left > 0 => e.for # NoPkt /\ Direction(e.for) # "none"

DevOK ==
  /\ dev \in [Drives -> DeviceStates]
  /\ sense \in [Pkts -> Owners]
  /\ \A d \in Drives : Directed(dev[d])

(* The request the controller works on, be it through its ARQ; and the     *)
(* call in which the controller has not looked at the request yet.         *)
Current == IF ctl.active = Arq THEN ctl.fault ELSE ctl.active
Asking  == call.who = "start" /\ call.func = "start"

(* The fields of the controller change together: idle, or all set for one  *)
(* request (ata_ctlr_fsm, ata_start_arq).                                  *)
CtlOK ==
  \/ ctl = IdleCtl
  \/ /\ Current \in Pkts
     /\ ctl.drive = Target[Current] /\ ctl.state = Active[ctl.drive]
     /\ IF ctl.active = Arq THEN ctl.fault \in Packets ELSE ctl.fault = NoPkt

(* What GHD takes for active is what the controller works on or is asked   *)
(* to work on.                                                             *)
HandedOver ==
  \A p \in Pkts : (ghd[p] = "active") = (p = IF Asking THEN call.pkt ELSE Current)

(* A call that got beyond its start works on the active request.           *)
CallOK ==
  /\ call.who = "none" => call = NoCall
  /\ call.func = "start" => call.who \in {"none", "start"}
  /\ Asking => call.pkt \in Pkts /\ ctl = IdleCtl /\ ~call.started
  /\ call.func # "start" => ctl.active # NoPkt
  /\ call.who = "start" /\ ~Asking => call.pkt = Current
  /\ call.who = "start" /\ call.func \in {"intr", "fini"} => call.started
  /\ call.who = "start" => call.func # "reset"

(* Only the active request's drive and DMA are under way, and nothing is   *)
(* by the time the request is wrapped up.                                  *)
EnginesOK ==
  /\ dma => /\ ctl.active \in Pkts /\ Dma[ctl.active]
            /\ Kind[ctl.active] = "packet" => drv[ctl.drive] = "dma"
  /\ \A d \in Atapi : drv[d] # "idle" => ctl.active # NoPkt /\ d = ctl.drive
  /\ call.func = "fini" => ~dma /\ \A d \in Atapi : drv[d] = "idle"
  /\ ctl.active \in Pkts /\ Kind[ctl.active] = "func" => call.func = "fini"

IInv == TypeOK /\ DevOK /\ CtlOK /\ HandedOver /\ CallOK /\ EnginesOK

-----------------------------------------------------------------------------
(* Types.                                                                  *)

PktStates == [flags : SUBSET Flags, err : BOOLEAN, resid : 0 .. Size]
Codes     == {"OKAY", "BUSY", "DRQ", "INTR", "FINI"}
ReadingStates == [busy : BOOLEAN, event : 0 .. 7, err : BOOLEAN]

LEMMA Constants ==
  /\ NoPkt \notin Pkts /\ Arq \notin Pkts /\ NoPkt # Arq
  /\ Packets \subseteq Pkts /\ Atapi \subseteq Drives
  /\ \A p \in Pkts : Target[p] \in Drives
  /\ \A p \in Packets : Target[p] \in Atapi
  /\ \A p \in Pkts : Kind[p] = "disk" => Target[p] \notin Atapi
  /\ \A p \in Pkts : Kind[p] \in {"packet", "disk", "func"}
  /\ \A p \in Pkts : p \in Packets <=> Kind[p] = "packet"
BY CtlrAssumption DEF Packets, Atapi

(* A request moves data in its direction, or none.                         *)
LEMMA CountType ==
  /\ Size \in Nat /\ \A p \in Pkts \cup {Arq} : Count(p) \in 0 .. Size
  /\ \A p \in Pkts \cup {Arq} : Direction(p) \in {"in", "out", "none"}
  /\ \A p \in Pkts \cup {Arq} : UsesDma(p) \in BOOLEAN
BY CtlrAssumption DEF Count, Direction, UsesDma

(* The tables of atapi_fsm.c: wrapping up leaves the drive idle, and a CDB *)
(* is sent from S_CMD only.                                                *)
LEMMA Tables ==
  ASSUME NEW s \in DriveStates, NEW e \in 0 .. 7
  PROVE  /\ PioNextState[s][e + 1] \in DriveStates
         /\ PioAction[s][e + 1] \in {"RE", "REX"} => PioNextState[s][e + 1] = "idle"
         /\ PioAction[s][e + 1] = "CDB" => s = "cmd" /\ e = 3
         /\ s = "dma" => PioAction[s][e + 1] \notin {"CDB", "IN", "OUT"}
         /\ PioAction[s][e + 1] = "IN" => e = 5
         /\ PioAction[s][e + 1] = "OUT" => e = 1
<1>1. e + 1 \in 1 .. 8
  OBVIOUS
<1>2. CASE s = "idle"
  BY <1>1, <1>2 DEF PioAction, PioNextState, DriveStates
<1>3. CASE s = "cmd"
  BY <1>1, <1>3 DEF PioAction, PioNextState, DriveStates
<1>4. CASE s = "cdb"
  BY <1>1, <1>4 DEF PioAction, PioNextState, DriveStates
<1>5. CASE s = "in"
  BY <1>1, <1>5 DEF PioAction, PioNextState, DriveStates
<1>6. CASE s = "out"
  BY <1>1, <1>6 DEF PioAction, PioNextState, DriveStates
<1>7. CASE s = "dma"
  BY <1>1, <1>7 DEF PioAction, PioNextState, DriveStates
<1>. QED
  BY <1>2, <1>3, <1>4, <1>5, <1>6, <1>7 DEF DriveStates

LEMMA IdleDevType ==
  /\ IdleDev \in DeviceStates /\ Directed(IdleDev)
  /\ [IdleDev EXCEPT !.phase = "reset"] \in DeviceStates
  /\ Directed([IdleDev EXCEPT !.phase = "reset"])
<1>1. IdleDev \in DeviceStates
  BY DEF IdleDev, DeviceStates, Phases, Owners
<1>2. [IdleDev EXCEPT !.phase = "reset"] \in DeviceStates
  BY DEF IdleDev, DeviceStates, Phases, Owners
<1>3. Directed(IdleDev) /\ Directed([IdleDev EXCEPT !.phase = "reset"])
  BY DEF IdleDev, Directed
<1>. QED
  BY <1>1, <1>2, <1>3

(* What the registers say is one of the events 0 .. 7.                     *)
LEMMA ReadingsType ==
  ASSUME NEW d \in Drives, dev \in [Drives -> DeviceStates]
  PROVE  Readings(d) \subseteq ReadingStates
<1>1. dev[d].phase \in Phases /\ dev[d].err \in BOOLEAN
  BY DEF DeviceStates
<1>2. CASE IsBusy(d)
  <2>1. [busy |-> TRUE, event |-> 0, err |-> FALSE] \in ReadingStates
    BY DEF ReadingStates
  <2>2. [busy : {FALSE}, event : 0 .. 7, err : BOOLEAN] \subseteq ReadingStates
    BY DEF ReadingStates
  <2>. QED
    BY <1>2, <2>1, <2>2 DEF Readings
<1>3. CASE ~IsBusy(d)
  <2>1. Event[dev[d].phase] \in 0 .. 7
    BY <1>1, <1>3 DEF IsBusy, Phases, Event
  <2>. QED
    BY <1>1, <1>3, <2>1 DEF Readings, ReadingStates
<1>. QED
  BY <1>2, <1>3

(* Status and Move change a request within its type.                       *)
LEMMA StatusType ==
  ASSUME NEW a \in PktStates, NEW err \in BOOLEAN, NEW done \in BOOLEAN
  PROVE  Status(a, err, done) \in PktStates
<1>. DEFINE f == a.flags \cup {"GOT_STATUS"} \cup (IF err THEN {"ERROR"} ELSE {})
<1>1. f \in SUBSET Flags /\ f \cup {"XFERRED_DATA"} \in SUBSET Flags
  BY DEF PktStates, Flags
<1>2. a.err \in BOOLEAN /\ 0 \in 0 .. Size
  BY CountType DEF PktStates
<1>. HIDE DEF f
<1>3. CASE done /\ "TRAN_ERROR" \notin f
  BY <1>1, <1>2, <1>3 DEF Status, PktStates, f
<1>4. CASE ~(done /\ "TRAN_ERROR" \notin f)
  BY <1>1, <1>2, <1>4 DEF Status, PktStates, f
<1>. QED
  BY <1>3, <1>4

LEMMA MoveType ==
  ASSUME NEW a \in PktStates, NEW n \in Nat
  PROVE  Move(a, n) \in PktStates
<1>1. a.flags \cup {"XFERRED_DATA"} \in SUBSET Flags
  BY DEF PktStates, Flags
<1>2. a.resid - (IF a.resid < n THEN a.resid ELSE n) \in 0 .. Size
  BY CountType DEF PktStates
<1>. QED
  BY <1>1, <1>2 DEF Move, PktStates

(* A drive after a step of its own or of the code.                         *)
LEMMA SetDevType ==
  ASSUME DevOK, NEW d \in Drives, NEW e \in DeviceStates, Directed(e), SetDev(d, e)
  PROVE  dev' \in [Drives -> DeviceStates] /\ \A x \in Drives : Directed(dev'[x])
BY DEF SetDev, DevOK

LEMMA ClearType ==
  ASSUME DevOK, NEW d \in Drives
  PROVE  /\ [dev[d] EXCEPT !.irq = FALSE] \in DeviceStates
         /\ Directed([dev[d] EXCEPT !.irq = FALSE])
BY DEF DevOK, DeviceStates, Directed

LEMMA ReceiveType ==
  ASSUME DevOK, NEW d \in Drives, NEW p \in Pkts \cup {Arq}, NEW n \in Nat,
         Direction(p) = "none" => n = 0
  PROVE  Receive(d, p, n) \in DeviceStates /\ Directed(Receive(d, p, n))
<1>1. dev[d] \in DeviceStates /\ Directed(dev[d])
  BY DEF DevOK
<1>2. CASE dev[d].phase # "cdb"
  BY <1>1, <1>2 DEF Receive
<1>3. CASE dev[d].phase = "cdb"
  <2>. DEFINE s == IF p = Arq THEN dev[d].sense ELSE NoPkt
  <2>1. s \in Owners /\ p \in Owners /\ p # NoPkt
    BY <1>1, Constants DEF DeviceStates, Owners
  <2>2. Receive(d, p, n) =
          [dev[d] EXCEPT !.phase = "busy", !.irq = FALSE, !.for = p, !.len = n, !.left = n,
                         !.sense = s]
    BY <1>3 DEF Receive
  <2>. HIDE DEF s
  <2>3. Receive(d, p, n) \in DeviceStates
    BY <1>1, <2>1, <2>2 DEF DeviceStates, Phases
  <2>4. Directed(Receive(d, p, n))
    BY <1>1, <2>1, <2>2 DEF Directed, DeviceStates
  <2>. QED
    BY <2>3, <2>4
<1>. QED
  BY <1>2, <1>3

LEMMA DrqDoneType ==
  ASSUME DevOK, NEW d \in Drives, NEW n \in Nat
  PROVE  DrqDone(d, n) \in DeviceStates /\ Directed(DrqDone(d, n))
BY DEF DevOK, DeviceStates, Directed, DrqDone, Phases

-----------------------------------------------------------------------------
(* The drives' own steps and the calls of GHD.                             *)

(* What is not about the drives does not change with them.                 *)
LEMMA DriveKeeps ==
  ASSUME IInv, Drive
  PROVE  IInv'
<1>1. UNCHANGED <<ctl, drv, ap, dma, call, ghd, sense>>
  BY DEF Drive
<1>2. CtlOK' /\ HandedOver' /\ CallOK' /\ EnginesOK'
  BY <1>1 DEF IInv, CtlOK, HandedOver, CallOK, EnginesOK, Current, Asking
<1>3. PICK d \in Drives :
        DevWakes(d) \/ DevAsksForCdb(d) \/ DevData(d) \/ \E bad \in BOOLEAN : DevEnds(d, bad)
  BY DEF Drive
<1>4. DevOK /\ dev[d] \in DeviceStates /\ Directed(dev[d]) /\ Atapi \subseteq Drives
  BY Constants DEF IInv, DevOK
<1>5. spurious' = spurious /\ errors' \in 0 .. MaxErrors
  <2>1. errors \in 0 .. MaxErrors
    BY DEF IInv, TypeOK
  <2>2. CASE UNCHANGED <<errors, spurious>>
    BY <2>1, <2>2
  <2>3. ASSUME NEW bad \in BOOLEAN, DevEnds(d, bad)
        PROVE  spurious' = spurious /\ errors' \in 0 .. MaxErrors
    BY <2>1, <2>3, CtlrAssumption DEF DevEnds
  <2>. QED
    BY <1>3, <2>2, <2>3 DEF DevWakes, DevAsksForCdb, DevData
<1>6. TypeOK'
  BY <1>1, <1>5 DEF IInv, TypeOK
<1>7. \E e \in DeviceStates : Directed(e) /\ SetDev(d, e)
  <2>1. CASE DevWakes(d)
    BY <2>1, IdleDevType DEF DevWakes
  <2>2. CASE DevAsksForCdb(d)
    <3>. DEFINE irq == d \notin NoCdbIntr
                e == [dev[d] EXCEPT !.phase = "cdb", !.irq = irq]
    <3>1. irq \in BOOLEAN
      OBVIOUS
    <3>. HIDE DEF irq
    <3>2. e \in DeviceStates /\ Directed(e)
      BY <1>4, <3>1 DEF DeviceStates, Phases, Directed
    <3>. QED
      BY <2>2, <3>2 DEF DevAsksForCdb, irq
  <2>3. CASE DevData(d)
    <3>. DEFINE p == dev[d].for
                n == IF dev[d].left < Block THEN dev[d].left ELSE Block
    <3>1. p \in Pkts \cup {Arq} /\ Direction(p) \in {"in", "out"}
      BY <1>4, <2>3, CountType DEF DevData, Directed, DeviceStates, Owners
    <3>2. n \in Nat /\ dev[d].left - n \in Nat
      BY <1>4, CtlrAssumption DEF DeviceStates
    <3>. DEFINE e1 == [dev[d] EXCEPT !.left = 0]
                e2 == [dev[d] EXCEPT !.phase = Direction(p), !.irq = TRUE,
                                     !.block = n, !.left = @ - n]
    <3>3. e1 \in DeviceStates /\ Directed(e1)
      BY <1>4 DEF DeviceStates, Directed
    <3>4. e2 \in DeviceStates /\ Directed(e2)
      <4>1. e2 \in DeviceStates
        <5>. HIDE DEF n, p
        <5>. QED
          BY <1>4, <3>1, <3>2 DEF DeviceStates, Phases
      <4>2. e2.for = p /\ p # NoPkt /\ Direction(p) # "none"
        BY <1>4, <3>1, Constants DEF DeviceStates
      <4>. QED
        BY <4>1, <4>2 DEF Directed
    <3>5. SetDev(d, e1) \/ SetDev(d, e2)
      BY <2>3 DEF DevData
    <3>. QED
      BY <3>3, <3>4, <3>5
  <2>4. ASSUME NEW bad \in BOOLEAN, DevEnds(d, bad)
        PROVE  \E e \in DeviceStates : Directed(e) /\ SetDev(d, e)
    <3>. DEFINE s == IF bad /\ d \in Atapi THEN dev[d].for ELSE dev[d].sense
                e == [dev[d] EXCEPT !.phase = "status", !.irq = TRUE, !.err = bad,
                                    !.sense = s]
    <3>1. s \in Owners
      BY <1>4 DEF DeviceStates
    <3>2. SetDev(d, e)
      BY <2>4 DEF DevEnds
    <3>. HIDE DEF s
    <3>3. e \in DeviceStates /\ Directed(e)
      BY <1>4, <3>1 DEF DeviceStates, Phases, Directed
    <3>. QED
      BY <3>2, <3>3
  <2>. QED
    BY <1>3, <2>1, <2>2, <2>3, <2>4
<1>8. DevOK'
  BY <1>1, <1>4, <1>7, SetDevType DEF DevOK
<1>. QED
  BY <1>2, <1>6, <1>8 DEF IInv

LEMMA HbaStartKeeps ==
  ASSUME IInv, NEW p \in Pkts, HbaStart(p)
  PROVE  IInv'
<1>1. UNCHANGED <<ctl, drv, ap, dma, dev, sense, spurious, errors>>
      /\ call' = [who |-> "start", func |-> "start", pkt |-> p, started |-> FALSE]
      /\ ghd' = [ghd EXCEPT ![p] = "active"]
      /\ call.who = "none" /\ ctl.active = NoPkt
  BY DEF HbaStart
<1>2. TypeOK'
  BY <1>1 DEF IInv, TypeOK, Functions
<1>3. DevOK' /\ CtlOK'
  BY <1>1 DEF IInv, DevOK, CtlOK, Current
<1>4. ctl = IdleCtl /\ Current = NoPkt /\ ~Asking
  BY <1>1, Constants DEF IInv, CtlOK, Current, Asking, IdleCtl
<1>5. HandedOver'
  <2>1. Asking' /\ call'.pkt = p
    BY <1>1 DEF Asking
  <2>2. \A q \in Pkts : ghd[q] # "active"
    BY <1>4, Constants DEF IInv, HandedOver
  <2>. QED
    BY <1>1, <2>1, <2>2 DEF HandedOver, IInv, TypeOK
<1>6. CallOK'
  BY <1>1, <1>4 DEF CallOK, Asking
<1>7. EnginesOK'
  BY <1>1, <1>4, Constants DEF IInv, EnginesOK, IdleCtl
<1>. QED
  BY <1>2, <1>3, <1>5, <1>6, <1>7 DEF IInv

LEMMA ProcessIntrKeeps ==
  ASSUME IInv, ProcessIntr
  PROVE  IInv'
<1>1. UNCHANGED <<ctl, drv, ap, dma, ghd, dev, sense, errors>>
      /\ call' = [who |-> "intr", func |-> "intr", pkt |-> NoPkt, started |-> FALSE]
      /\ call.who = "none" /\ ctl.state # "idle"
  BY DEF ProcessIntr
<1>2. spurious' \in 0 .. MaxSpurious
  BY CtlrAssumption DEF IInv, TypeOK, ProcessIntr
<1>3. TypeOK'
  BY <1>1, <1>2 DEF IInv, TypeOK, Functions
<1>4. DevOK' /\ CtlOK'
  BY <1>1 DEF IInv, DevOK, CtlOK, Current
<1>5. call = NoCall /\ ctl # IdleCtl /\ ctl.active # NoPkt /\ ~Asking /\ ~Asking'
  BY <1>1, Constants DEF IInv, CallOK, CtlOK, Current, Asking, IdleCtl, NoCall
<1>6. HandedOver'
  BY <1>1, <1>5 DEF IInv, HandedOver, Current
<1>7. CallOK'
  BY <1>1, <1>5 DEF CallOK, Asking
<1>8. EnginesOK'
  BY <1>1, <1>5 DEF IInv, EnginesOK, NoCall
<1>. QED
  BY <1>3, <1>4, <1>6, <1>7, <1>8 DEF IInv

(* A timer runs out for a request that the controller has.                 *)
LEMMA ResetBusKeeps ==
  ASSUME IInv, NEW p \in Pkts, ResetBus(p)
  PROVE  IInv'
<1>1. UNCHANGED <<ctl, drv, ap, dma, ghd, dev, sense, spurious, errors>>
      /\ call' = [who |-> "reset", func |-> "reset", pkt |-> NoPkt, started |-> FALSE]
      /\ call.who = "none" /\ ghd[p] = "active"
  BY DEF ResetBus
<1>2. TypeOK'
  BY <1>1 DEF IInv, TypeOK, Functions
<1>3. DevOK' /\ CtlOK'
  BY <1>1 DEF IInv, DevOK, CtlOK, Current
<1>4. call = NoCall /\ ~Asking /\ ~Asking' /\ Current = p /\ ctl.active # NoPkt
  BY <1>1, Constants DEF IInv, CallOK, HandedOver, Current, Asking, NoCall
<1>5. HandedOver'
  BY <1>1, <1>4 DEF IInv, HandedOver, Current
<1>6. CallOK'
  BY <1>1, <1>4 DEF CallOK, Asking
<1>7. EnginesOK'
  BY <1>1, <1>4 DEF IInv, EnginesOK, NoCall
<1>. QED
  BY <1>2, <1>3, <1>5, <1>6, <1>7 DEF IInv

LEMMA SubmitKeeps ==
  ASSUME IInv, NEW p \in Pkts, Submit(p)
  PROVE  IInv'
<1>1. UNCHANGED <<ctl, drv, dma, call, dev, spurious, errors>>
      /\ ghd' = [ghd EXCEPT ![p] = "queued"] /\ ghd[p] = "done"
      /\ ap' = [ap EXCEPT ![p] = [@ EXCEPT !.flags = {}, !.resid = Count(p)]]
      /\ sense' = [sense EXCEPT ![p] = NoPkt]
  BY DEF Submit
<1>2. ap \in [Pkts \cup {Arq} -> PktStates] /\ Count(p) \in 0 .. Size
  BY CountType DEF IInv, TypeOK, PktStates
<1>3. [ap[p] EXCEPT !.flags = {}, !.resid = Count(p)] \in PktStates
  BY <1>2 DEF PktStates
<1>4. ap' \in [Pkts \cup {Arq} -> PktStates]
  BY <1>1, <1>2, <1>3
<1>5. TypeOK'
  BY <1>1, <1>4 DEF IInv, TypeOK, PktStates
<1>6. DevOK'
  BY <1>1 DEF IInv, DevOK, Owners
<1>7. CtlOK' /\ CallOK' /\ EnginesOK'
  BY <1>1 DEF IInv, CtlOK, CallOK, EnginesOK, Current, Asking
<1>8. HandedOver'
  BY <1>1 DEF IInv, TypeOK, HandedOver, Current, Asking
<1>. QED
  BY <1>5, <1>6, <1>7, <1>8 DEF IInv

-----------------------------------------------------------------------------
(* The steps of ata_ctlr_fsm.                                              *)

CallStates == [who : {"none", "start", "intr", "reset"}, func : Functions,
               pkt : Pkts \cup {NoPkt}, started : BOOLEAN]

(* What a return code leaves of the call.                                  *)
LEMMA ReturnCall ==
  ASSUME IInv, NEW rc \in Codes, Return(rc)
  PROVE  /\ call' \in CallStates
         /\ rc \in {"OKAY", "BUSY"} => call' = NoCall
         /\ rc \notin {"OKAY", "BUSY"} => call'.who = call.who /\ call'.pkt = call.pkt
         /\ rc = "DRQ" => call'.func = "drq" /\ call'.started = call.started
         /\ rc = "INTR" => call'.func = "intr" /\ call'.started
         /\ rc = "FINI" => call'.func = "fini" /\ call'.started
<1>1. call \in CallStates
  BY DEF IInv, TypeOK, CallStates
<1>2. CASE rc \in {"OKAY", "BUSY"}
  <2>1. NoCall \in CallStates
    BY DEF NoCall, CallStates, Functions
  <2>. QED
    BY <1>2, <2>1 DEF Return
<1>3. CASE rc = "DRQ"
  <2>1. call' = [call EXCEPT !.func = "drq"]
    BY <1>3 DEF Return
  <2>. QED
    BY <1>1, <1>3, <2>1 DEF CallStates, Functions
<1>4. CASE rc = "INTR"
  <2>1. call' = [call EXCEPT !.func = "intr", !.started = TRUE]
    BY <1>4 DEF Return
  <2>. QED
    BY <1>1, <1>4, <2>1 DEF CallStates, Functions
<1>5. CASE rc = "FINI"
  <2>1. call' = [call EXCEPT !.func = "fini", !.started = TRUE]
    BY <1>5 DEF Return
  <2>. QED
    BY <1>1, <1>5, <2>1 DEF CallStates, Functions
<1>. QED
  BY <1>2, <1>3, <1>4, <1>5 DEF Codes

(* atapi_fsm_start starts only a drive whose state machine is idle.        *)
LEMMA AtapiStartSteps ==
  ASSUME IInv, NEW a \in [Pkts \cup {Arq} -> PktStates], NEW p \in Pkts \cup {Arq},
         NEW d \in Atapi, NEW rc, AtapiStart(a, p, d, rc)
  PROVE  /\ rc \in {"OKAY", "BUSY", "DRQ"}
         /\ ap' \in [Pkts \cup {Arq} -> PktStates]
         /\ drv' \in [Atapi -> DriveStates]
         /\ dev' \in [Drives -> DeviceStates] /\ \A x \in Drives : Directed(dev'[x])
         /\ rc = "BUSY" => drv' = drv
         /\ rc # "BUSY" => drv[d] = "idle" /\ drv' = [drv EXCEPT ![d] = "cmd"]
<1>1. drv \in [Atapi -> DriveStates] /\ DevOK /\ d \in Drives
  BY Constants DEF IInv, TypeOK
<1>2. CASE drv[d] # "idle" \/ IsBusy(d)
  <2>1. Busy(a, p) \subseteq [Pkts \cup {Arq} -> PktStates]
    <3>1. [a[p] EXCEPT !.flags = @ \cup {"ERROR"}] \in PktStates
      BY DEF PktStates, Flags
    <3>. QED
      BY <3>1 DEF Busy
  <2>2. rc = "BUSY" /\ UNCHANGED <<drv, dev>> /\ ap' \in {a} \cup Busy(a, p)
    BY <1>2 DEF AtapiStart
  <2>. QED
    BY <1>1, <2>1, <2>2 DEF DevOK
<1>3. CASE ~(drv[d] # "idle" \/ IsBusy(d))
  <2>. DEFINE e == [IdleDev EXCEPT !.phase = "cmd", !.for = p, !.sense = dev[d].sense]
  <2>1. rc \in {"OKAY", "DRQ"} /\ drv' = [drv EXCEPT ![d] = "cmd"] /\ ap' = a
        /\ SetDev(d, e)
    BY <1>3 DEF AtapiStart
  <2>2. e \in DeviceStates /\ Directed(e)
    <3>1. p \in Owners /\ dev[d].sense \in Owners
      BY <1>1 DEF Owners, DevOK, DeviceStates
    <3>2. e \in DeviceStates
      BY <3>1 DEF IdleDev, DeviceStates, Phases
    <3>3. Directed(e)
      BY DEF IdleDev, Directed
    <3>. QED
      BY <3>2, <3>3
  <2>3. "cmd" \in DriveStates
    BY DEF DriveStates
  <2>. HIDE DEF e
  <2>. QED
    BY <1>1, <1>3, <2>1, <2>2, <2>3, SetDevType
<1>. QED
  BY <1>2, <1>3

LEMMA FsmStartKeeps ==
  ASSUME IInv, FsmStart
  PROVE  IInv'
<1>. DEFINE p == call.pkt
            d == Target[p]
<1>1. Asking /\ p \in Pkts /\ ctl = IdleCtl /\ ctl.active = NoPkt /\ ~call.started
      /\ Current = NoPkt
  BY Constants DEF FsmStart, Asking, IInv, CallOK, IdleCtl, Current
<1>2. ~dma /\ \A x \in Atapi : drv[x] = "idle"
  BY <1>1, Constants DEF IInv, EnginesOK
<1>3. \A q \in Pkts : (ghd[q] = "active") = (q = p)
  BY <1>1 DEF IInv, HandedOver
<1>4. PICK rc \in {"OKAY", "BUSY", "DRQ", "FINI"} :
        /\ \/ Kind[p] = "packet" /\ AtapiStart(ap, p, d, rc)
           \/ Kind[p] = "disk" /\ DiskStart(p, d, rc)
           \/ /\ Kind[p] = "func" /\ rc = "FINI" /\ UNCHANGED <<drv, dev>>
              /\ ap' \in {ap, [ap EXCEPT ![p].flags = @ \cup {"ERROR"}]}
        /\ ctl' = IF rc = "BUSY" THEN IdleCtl
                  ELSE [state |-> Active[d], active |-> p, drive |-> d, fault |-> NoPkt]
        /\ dma' = (dma \/ (rc # "BUSY" /\ Kind[p] = "disk" /\ Dma[p]))
        /\ ghd' = IF rc = "BUSY" THEN [ghd EXCEPT ![p] = "queued"] ELSE ghd
        /\ Return(rc)
  BY <1>1, Constants DEF FsmStart
<1>5. UNCHANGED <<sense, spurious, errors>>
  BY DEF FsmStart
<1>6. ap \in [Pkts \cup {Arq} -> PktStates] /\ drv \in [Atapi -> DriveStates] /\ DevOK
  BY DEF IInv, TypeOK, PktStates
<1>7. /\ ap' \in [Pkts \cup {Arq} -> PktStates] /\ drv' \in [Atapi -> DriveStates]
      /\ dev' \in [Drives -> DeviceStates] /\ \A x \in Drives : Directed(dev'[x])
      /\ rc = "BUSY" \/ Kind[p] # "packet" => drv' = drv
      /\ \A x \in Atapi : drv'[x] # "idle" => rc # "BUSY" /\ x = d
      /\ (rc = "FINI") = (Kind[p] = "func")
  <2>1. CASE Kind[p] = "packet" /\ AtapiStart(ap, p, d, rc)
    <3>1. p \in Pkts \cup {Arq} /\ d \in Atapi
      BY <1>1, <2>1, Constants
    <3>. QED
      BY <1>2, <1>6, <2>1, <3>1, AtapiStartSteps
  <2>2. CASE Kind[p] = "disk" /\ DiskStart(p, d, rc)
    <3>. DEFINE e == [IdleDev EXCEPT !.phase = "busy", !.for = p, !.len = Size, !.left = Size]
    <3>1. d \in Drives /\ dev' \in {dev, [dev EXCEPT ![d] = e]} /\ UNCHANGED <<drv, ap>>
          /\ rc # "FINI"
      BY <1>1, <2>2, Constants DEF DiskStart
    <3>2. e \in DeviceStates
      BY <1>1, CountType DEF IdleDev, DeviceStates, Phases, Owners
    <3>3. Directed(e)
      <4>1. e.for = p /\ p # NoPkt /\ Direction(p) # "none"
        BY <1>1, <2>2, Constants, CtlrAssumption DEF Direction, IdleDev
      <4>. QED
        BY <4>1 DEF Directed
    <3>. HIDE DEF e
    <3>4. dev' \in [Drives -> DeviceStates] /\ \A x \in Drives : Directed(dev'[x])
      BY <1>6, <3>1, <3>2, <3>3 DEF DevOK
    <3>. QED
      BY <1>2, <1>6, <2>2, <3>1, <3>4
  <2>3. CASE /\ Kind[p] = "func" /\ rc = "FINI" /\ UNCHANGED <<drv, dev>>
             /\ ap' \in {ap, [ap EXCEPT ![p].flags = @ \cup {"ERROR"}]}
    <3>1. [ap[p] EXCEPT !.flags = @ \cup {"ERROR"}] \in PktStates
      <4>1. ap[p] \in PktStates
        BY <1>1, <1>6
      <4>. QED
        BY <4>1 DEF PktStates, Flags
    <3>2. ap' \in [Pkts \cup {Arq} -> PktStates]
      BY <1>6, <2>3, <3>1
    <3>. QED
      BY <1>2, <1>6, <2>3, <3>2 DEF DevOK
  <2>. QED
    BY <1>4, <2>1, <2>2, <2>3
<1>8. /\ call' \in CallStates
      /\ rc \in {"OKAY", "BUSY"} => call' = NoCall
      /\ rc \notin {"OKAY", "BUSY"} => call'.who = "start" /\ call'.pkt = p
      /\ rc = "DRQ" => call'.func = "drq"
      /\ rc = "FINI" => call'.func = "fini" /\ call'.started
  <2>1. rc \in Codes /\ call.who = "start"
    BY <1>1 DEF Codes, Asking
  <2>. QED
    BY <1>4, <2>1, ReturnCall
<1>9. ctl' \in [state : {"idle", "active0", "active1"}, active : Pkts \cup {Arq, NoPkt},
                drive : Drives \cup {NoDrive}, fault : Pkts \cup {NoPkt}]
  <2>1. d \in Drives /\ Active[d] \in {"active0", "active1"}
    BY <1>1, Constants, CtlrAssumption DEF Active
  <2>2. CASE rc = "BUSY"
    BY <1>4, <2>2 DEF IdleCtl
  <2>3. CASE rc # "BUSY"
    BY <1>1, <1>4, <2>1, <2>3
  <2>. QED
    BY <2>2, <2>3
<1>10. TypeOK'
  <2>1. dma' \in BOOLEAN
    BY <1>2, <1>4
  <2>2. ghd' \in [Pkts -> {"queued", "active", "done"}]
    BY <1>1, <1>4 DEF IInv, TypeOK
  <2>. QED
    BY <1>5, <1>7, <1>8, <1>9, <2>1, <2>2 DEF IInv, TypeOK, PktStates, CallStates
<1>11. DevOK'
  BY <1>5, <1>7 DEF IInv, DevOK
<1>12. Current' = IF rc = "BUSY" THEN NoPkt ELSE p
  BY <1>1, <1>4, Constants DEF Current, IdleCtl
<1>13. ~Asking'
  BY <1>4, <1>8 DEF Asking, NoCall
<1>14. CtlOK'
  BY <1>1, <1>4, <1>12, Constants DEF CtlOK
<1>15. HandedOver'
  BY <1>1, <1>3, <1>4, <1>12, <1>13, Constants DEF HandedOver, IInv, TypeOK
<1>16. CallOK'
  BY <1>1, <1>4, <1>8, <1>12, <1>13, Constants DEF CallOK, Asking, NoCall
<1>17. EnginesOK'
  <2>1. CASE rc = "BUSY"
    BY <1>2, <1>4, <1>7, <1>8, <2>1, Constants DEF EnginesOK, IdleCtl, NoCall
  <2>2. CASE rc # "BUSY"
    <3>1. ctl'.active = p /\ ctl'.drive = d /\ ctl'.active # NoPkt
      BY <1>1, <1>4, <2>2, Constants
    <3>2. dma' => Kind[p] = "disk" /\ Dma[p]
      BY <1>2, <1>4
    <3>3. call'.func = "fini" => rc = "FINI"
      BY <1>4, <1>8 DEF NoCall
    <3>4. rc = "FINI" => call'.func = "fini" /\ Kind[p] = "func" /\ drv' = drv
      BY <1>7, <1>8
    <3>. QED
      BY <1>1, <1>2, <1>7, <3>1, <3>2, <3>3, <3>4 DEF EnginesOK
  <2>. QED
    BY <2>1, <2>2
<1>. QED
  BY <1>10, <1>11, <1>14, <1>15, <1>16, <1>17 DEF IInv

(* Polling for DRQ.                                                        *)
LEMMA PollDrqKeeps ==
  ASSUME IInv, PollDrq
  PROVE  IInv'
<1>1. call.func = "drq" /\ Return("INTR") /\ ctl.active # NoPkt
  BY DEF PollDrq, IInv, CallOK
<1>2. UNCHANGED <<ctl, drv, dma, ghd, dev, sense, spurious, errors>>
  BY DEF PollDrq
<1>3. ap' = ap \/ ap' = [ap EXCEPT ![ctl.active].flags = @ \cup {"ERROR"}]
  BY DEF PollDrq
<1>4. call' \in CallStates /\ call'.func = "intr" /\ call'.started
      /\ call'.who = call.who /\ call'.pkt = call.pkt
  BY <1>1, ReturnCall DEF Codes
<1>5. call \in CallStates /\ ctl.active \in Pkts \cup {Arq}
  BY <1>1 DEF IInv, TypeOK, CallStates
<1>6. TypeOK'
  <2>1. ap \in [Pkts \cup {Arq} -> PktStates] /\ ap[ctl.active] \in PktStates
    BY <1>5 DEF IInv, TypeOK, PktStates
  <2>2. [ap[ctl.active] EXCEPT !.flags = @ \cup {"ERROR"}] \in PktStates
    BY <2>1 DEF PktStates, Flags
  <2>3. ap' \in [Pkts \cup {Arq} -> PktStates]
    BY <1>3, <2>1, <2>2
  <2>. QED
    BY <1>2, <1>4, <2>3 DEF IInv, TypeOK, CallStates, PktStates
<1>7. DevOK' /\ CtlOK'
  BY <1>2 DEF IInv, DevOK, CtlOK, Current
<1>8. ~Asking /\ ~Asking'
  BY <1>1, <1>4 DEF Asking
<1>9. HandedOver'
  BY <1>2, <1>8 DEF IInv, HandedOver, Current
<1>10. CallOK'
  <2>1. call.who # "none"
    BY <1>1 DEF IInv, CallOK, NoCall
  <2>. QED
    BY <1>1, <1>2, <1>4, <1>8, <2>1 DEF IInv, CallOK, Current
<1>11. EnginesOK'
  BY <1>1, <1>2, <1>4 DEF IInv, EnginesOK
<1>. QED
  BY <1>6, <1>7, <1>9, <1>10, <1>11 DEF IInv

(* Wrapping up a request gives exactly that request back.                  *)
LEMMA DoneKeeps ==
  ASSUME IInv, call.func = "fini", AllDone(Current), DevOK',
         ap' \in [Pkts \cup {Arq} -> PktStates],
         UNCHANGED <<drv, dma, spurious, errors>>
  PROVE  IInv'
<1>1. ctl' = IdleCtl /\ ghd' = [ghd EXCEPT ![Current] = "done"] /\ call' = NoCall
  BY ReturnCall DEF AllDone, Codes
<1>2. ctl.active # NoPkt /\ Current \in Pkts /\ ~Asking
  BY Constants DEF IInv, CallOK, CtlOK, IdleCtl, Asking
<1>3. ~dma /\ \A d \in Atapi : drv[d] = "idle"
  BY DEF IInv, EnginesOK
<1>4. TypeOK'
  <2>1. ctl' \in [state : {"idle", "active0", "active1"}, active : Pkts \cup {Arq, NoPkt},
                  drive : Drives \cup {NoDrive}, fault : Pkts \cup {NoPkt}]
    BY <1>1 DEF IdleCtl
  <2>2. call' \in CallStates
    BY ReturnCall DEF AllDone, Codes
  <2>3. ghd' \in [Pkts -> {"queued", "active", "done"}]
    BY <1>1, <1>2 DEF IInv, TypeOK
  <2>. QED
    BY <2>1, <2>2, <2>3 DEF IInv, TypeOK, PktStates, CallStates
<1>5. ~Asking' /\ Current' = NoPkt /\ CtlOK'
  BY <1>1, Constants DEF Asking, NoCall, CtlOK, Current, IdleCtl
<1>6. HandedOver'
  BY <1>1, <1>2, <1>5, Constants DEF IInv, TypeOK, HandedOver
<1>7. CallOK'
  BY <1>1, <1>5 DEF CallOK, NoCall
<1>8. EnginesOK'
  BY <1>1, <1>3, Constants DEF EnginesOK, NoCall, IdleCtl
<1>. QED
  BY <1>4, <1>5, <1>6, <1>7, <1>8 DEF IInv

LEMMA FsmFiniKeeps ==
  ASSUME IInv, FsmFini
  PROVE  IInv'
<1>1. Current = ctl.active /\ call.func = "fini"
  BY Constants DEF FsmFini, Current
<1>2. AllDone(Current) /\ UNCHANGED <<drv, ap, dma, dev, sense, spurious, errors>>
  BY <1>1 DEF FsmFini
<1>3. DevOK' /\ ap' \in [Pkts \cup {Arq} -> PktStates]
  BY <1>2 DEF IInv, DevOK, TypeOK, PktStates
<1>. QED
  BY <1>1, <1>2, <1>3, DoneKeeps

LEMMA FsmFiniArqKeeps ==
  ASSUME IInv, FsmFiniArq
  PROVE  IInv'
<1>1. Current = ctl.fault /\ call.func = "fini" /\ Current \in Pkts
  BY Constants DEF FsmFiniArq, Current, IInv, CtlOK, IdleCtl
<1>2. AllDone(Current) /\ UNCHANGED <<drv, dma, dev, sense, spurious, errors>>
  BY <1>1 DEF FsmFiniArq
<1>3. DevOK'
  BY <1>2 DEF IInv, DevOK
<1>4. ap' \in [Pkts \cup {Arq} -> PktStates]
  <2>1. PICK f \in {"ARQ_OKAY", "ARQ_ERROR"} :
          ap' = [ap EXCEPT ![Current].flags = @ \cup {f}]
    BY <1>1 DEF FsmFiniArq
  <2>2. ap \in [Pkts \cup {Arq} -> PktStates] /\ ap[Current] \in PktStates
    BY <1>1 DEF IInv, TypeOK, PktStates
  <2>3. [ap[Current] EXCEPT !.flags = @ \cup {f}] \in PktStates
    BY <2>2 DEF PktStates, Flags
  <2>. QED
    BY <2>1, <2>2, <2>3
<1>. QED
  BY <1>1, <1>2, <1>3, <1>4, DoneKeeps

(* An ARQ takes over the request's drive, or the request is given back.    *)
LEMMA FsmStartArqKeeps ==
  ASSUME IInv, FsmStartArq
  PROVE  IInv'
<1>. DEFINE p == ctl.active
            a == [ap EXCEPT ![Arq] = ArqPkt]
<1>1. call.func = "fini" /\ p \in Packets /\ p \in Pkts /\ p # NoPkt /\ Current = p
  BY Constants, CtlrAssumption DEF FsmStartArq, NeedsArq, Current
<1>2. PICK rc \in {"OKAY", "BUSY", "DRQ"} :
        /\ AtapiStart(a, Arq, ctl.drive, rc)
        /\ IF rc = "BUSY" THEN AllDone(p)
           ELSE /\ ctl' = [ctl EXCEPT !.active = Arq, !.fault = p]
                /\ ghd' = ghd /\ Return(rc)
  BY DEF FsmStartArq
<1>3. UNCHANGED <<dma, sense, spurious, errors>>
  BY DEF FsmStartArq
<1>4. ctl.drive = Target[p] /\ ctl.drive \in Atapi /\ ctl.state = Active[ctl.drive]
      /\ ctl # IdleCtl
  BY <1>1, Constants DEF IInv, CtlOK, IdleCtl
<1>5. a \in [Pkts \cup {Arq} -> PktStates]
  BY CountType DEF IInv, TypeOK, PktStates, ArqPkt
<1>6. /\ ap' \in [Pkts \cup {Arq} -> PktStates] /\ drv' \in [Atapi -> DriveStates]
      /\ dev' \in [Drives -> DeviceStates] /\ \A x \in Drives : Directed(dev'[x])
      /\ rc = "BUSY" => drv' = drv
      /\ rc # "BUSY" => drv' = [drv EXCEPT ![ctl.drive] = "cmd"]
  BY <1>2, <1>4, <1>5, AtapiStartSteps
<1>7. DevOK'
  BY <1>3, <1>6 DEF IInv, DevOK
<1>8. CASE rc = "BUSY"
  BY <1>1, <1>2, <1>3, <1>6, <1>7, <1>8, DoneKeeps
<1>9. CASE rc # "BUSY"
  <2>1. ctl' = [ctl EXCEPT !.active = Arq, !.fault = p] /\ ghd' = ghd /\ Return(rc)
    BY <1>2, <1>9
  <2>2. ~dma /\ \A d \in Atapi : drv[d] = "idle"
    BY <1>1 DEF IInv, EnginesOK
  <2>3. /\ call' \in CallStates
        /\ rc = "OKAY" => call' = NoCall
        /\ rc = "DRQ" => /\ call'.who = call.who /\ call'.pkt = call.pkt
                         /\ call'.func = "drq"
    BY <2>1, <1>9, ReturnCall DEF Codes
  <2>4. ctl \in [state : {"idle", "active0", "active1"}, active : Pkts \cup {Arq, NoPkt},
                 drive : Drives \cup {NoDrive}, fault : Pkts \cup {NoPkt}]
    BY DEF IInv, TypeOK
  <2>5. /\ ctl'.active = Arq /\ ctl'.fault = p /\ ctl'.drive = ctl.drive
        /\ ctl'.state = ctl.state
        /\ ctl' \in [state : {"idle", "active0", "active1"}, active : Pkts \cup {Arq, NoPkt},
                     drive : Drives \cup {NoDrive}, fault : Pkts \cup {NoPkt}]
    BY <1>1, <2>1, <2>4
  <2>6. TypeOK'
    BY <1>3, <1>6, <2>1, <2>3, <2>5 DEF IInv, TypeOK, PktStates, CallStates
  <2>7. Current' = p /\ ~Asking /\ ~Asking'
    BY <1>1, <1>2, <1>9, <2>3, <2>5 DEF Current, Asking, NoCall
  <2>8. CtlOK'
    BY <1>1, <1>4, <2>5, <2>7 DEF CtlOK
  <2>9. HandedOver'
    BY <1>1, <2>1, <2>7 DEF IInv, HandedOver
  <2>10. CallOK'
    <3>1. call.who = "none" => call.func # "fini"
      BY DEF IInv, CallOK, NoCall
    <3>2. ctl'.active # NoPkt
      BY <2>5, Constants
    <3>. QED
      BY <1>1, <1>2, <1>9, <2>3, <2>7, <3>1, <3>2 DEF IInv, CallOK, NoCall
  <2>11. EnginesOK'
    <3>1. ~dma' /\ \A d \in Atapi : drv'[d] # "idle" => d = ctl.drive
      BY <1>3, <1>4, <1>6, <1>9, <2>2 DEF IInv, TypeOK
    <3>2. call'.func # "fini" /\ ctl'.active # NoPkt /\ ctl'.active \notin Pkts
      BY <1>2, <1>9, <2>3, <2>5, Constants DEF NoCall
    <3>. QED
      BY <2>5, <3>1, <3>2 DEF EnginesOK
  <2>. QED
    BY <1>7, <2>6, <2>8, <2>9, <2>10, <2>11 DEF IInv
<1>. QED
  BY <1>8, <1>9

(* A reset that works leaves nothing under way; one that fails leaves the  *)
(* request active, and only the DMA engine stopped.                        *)
LEMMA FsmResetKeeps ==
  ASSUME IInv, FsmReset
  PROVE  IInv'
<1>1. call.func = "reset" /\ UNCHANGED <<ctl, ghd, sense, spurious, errors>>
      /\ ap' = [ap EXCEPT ![ctl.active].flags = @ \cup {"DEV_RESET", "BUS_RESET"}]
      /\ dma' = (dma /\ ~UsesDma(ctl.active))
      /\ dev' \in [Drives -> {IdleDev} \cup
                     IF Slow THEN {[IdleDev EXCEPT !.phase = "reset"]} ELSE {}]
  BY DEF FsmReset
<1>2. PICK rc \in {"BUSY", "FINI"} :
        Return(rc) /\ drv' = IF rc = "BUSY" THEN drv ELSE [d \in Atapi |-> "idle"]
  BY DEF FsmReset
<1>3. ctl.active \in Pkts \cup {Arq} /\ call.who # "none" /\ ~Asking /\ call.who # "start"
  BY <1>1 DEF IInv, CallOK, TypeOK, Asking, NoCall
<1>4. ~dma'
  BY <1>1, Constants DEF IInv, EnginesOK, UsesDma
<1>5. /\ call' \in CallStates
      /\ rc = "BUSY" => call' = NoCall
      /\ rc = "FINI" => call'.func = "fini" /\ call'.who = call.who
  BY <1>2, ReturnCall DEF Codes
<1>6. TypeOK'
  <2>1. ap \in [Pkts \cup {Arq} -> PktStates] /\ ap[ctl.active] \in PktStates
    BY <1>3 DEF IInv, TypeOK, PktStates
  <2>2. [ap[ctl.active] EXCEPT !.flags = @ \cup {"DEV_RESET", "BUS_RESET"}] \in PktStates
    BY <2>1 DEF PktStates, Flags
  <2>3. ap' \in [Pkts \cup {Arq} -> PktStates]
    BY <1>1, <2>1, <2>2
  <2>4. drv' \in [Atapi -> DriveStates]
    BY <1>2 DEF IInv, TypeOK, DriveStates
  <2>. QED
    BY <1>1, <1>4, <1>5, <2>3, <2>4 DEF IInv, TypeOK, PktStates, CallStates
<1>7. DevOK'
  <2>1. sense' \in [Pkts -> Owners]
    BY <1>1 DEF IInv, DevOK
  <2>. QED
    BY <1>1, <2>1, IdleDevType DEF DevOK
<1>8. Current' = Current /\ CtlOK'
  BY <1>1 DEF IInv, CtlOK, Current
<1>9. ~Asking'
  BY <1>2, <1>3, <1>5 DEF Asking, NoCall
<1>10. HandedOver'
  BY <1>1, <1>3, <1>8, <1>9 DEF IInv, HandedOver
<1>11. CallOK'
  BY <1>1, <1>2, <1>3, <1>5, <1>9 DEF IInv, CallOK, NoCall
<1>12. EnginesOK'
  <2>1. \A d \in Atapi : drv'[d] # "idle" => drv[d] # "idle" /\ rc = "BUSY"
    BY <1>2
  <2>2. ctl'.active \in Pkts => Kind[ctl'.active] # "func"
    BY <1>1 DEF IInv, EnginesOK
  <2>3. rc = "BUSY" => call'.func # "fini"
    BY <1>5 DEF NoCall
  <2>. QED
    BY <1>1, <1>4, <2>1, <2>2, <2>3 DEF IInv, EnginesOK
<1>. QED
  BY <1>6, <1>7, <1>8, <1>10, <1>11, <1>12 DEF IInv

(* One step of a drive's state machine: what atapi_fsm_intr does by the    *)
(* action of the table.                                                    *)
Failed(p, tran) ==
  [ap[p] EXCEPT !.flags = @ \cup IF tran THEN {"ERROR", "TRAN_ERROR"} ELSE {}]
Action(d, r) == PioAction[drv[d]][r.event + 1]

Waits(p, d, r, tran) ==
  /\ Clear(d) /\ ap' = [ap EXCEPT ![p] = Failed(p, tran)] /\ sense' = sense
  /\ \/ r.busy /\ Return("BUSY")
     \/ /\ ~r.busy /\ Return("OKAY") /\ Action(d, r) \notin {"CDB", "RE", "REX"}
        /\ ~UsesDma(p) => /\ Action(d, r) = "IN" => Direction(p) # "in"
                          /\ Action(d, r) = "OUT" => Direction(p) # "out"
SendsCdb(p, d, r, tran) ==
  /\ ~r.busy /\ Action(d, r) = "CDB" /\ Return("OKAY") /\ sense' = sense
  /\ \E n \in IF Direction(p) = "none" THEN {0} ELSE DevLens \ (IF p = Arq THEN {0} ELSE {}) :
       SetDev(d, Receive(d, p, n))
  /\ ap' = [ap EXCEPT ![p] = [Failed(p, tran) EXCEPT !.flags = @ \cup {"SENT_CMD"}]]
MovesData(p, d, r) ==
  /\ ~r.busy /\ ~UsesDma(p) /\ Return("OKAY")
  /\ \/ Action(d, r) = "IN" /\ Direction(p) = "in" /\ PioIn(p, d)
     \/ Action(d, r) = "OUT" /\ Direction(p) = "out" /\ PioOut(p, d)
Ends(p, d, r, tran) ==
  /\ ~r.busy /\ Action(d, r) \in {"RE", "REX"} /\ Clear(d) /\ Return("FINI")
  /\ ap' = [ap EXCEPT ![p] = Status(Failed(p, tran), r.err, drv[d] = "dma")]
  /\ sense' = sense

LEMMA AtapiIntrCases ==
  ASSUME NEW p, NEW d, NEW r, r.busy \in BOOLEAN, NEW tran, AtapiIntr(p, d, r, tran)
  PROVE  \/ Waits(p, d, r, tran) \/ SendsCdb(p, d, r, tran)
         \/ MovesData(p, d, r) \/ Ends(p, d, r, tran)
BY Zenon DEF AtapiIntr, Failed, Action, Waits, SendsCdb, MovesData, Ends

(* What it may leave behind.                                               *)
LEMMA AtapiIntrSteps ==
  ASSUME IInv, NEW p \in Packets \cup {Arq}, p = ctl.active, NEW d \in Atapi, d = ctl.drive,
         NEW r \in ReadingStates, NEW tran \in BOOLEAN, AtapiIntr(p, d, r, tran)
  PROVE  /\ ap' \in [Pkts \cup {Arq} -> PktStates]
         /\ DevOK'
         /\ drv' \in [Atapi -> DriveStates]
         /\ \A x \in Atapi : x # d => drv'[x] = drv[x]
         /\ dma' \in BOOLEAN
         /\ dma' => UsesDma(p) /\ drv'[d] = "dma"
         /\ \E rc \in {"BUSY", "OKAY", "FINI"} :
              Return(rc) /\ (rc = "FINI" => ~dma' /\ drv'[d] = "idle")
<1>. DEFINE state  == drv[d]
            action == Action(d, r)
            failed == Failed(p, tran)
            next   == IF action = "CDB" /\ UsesDma(p) THEN "dma"
                      ELSE PioNextState[state][r.event + 1]
<1>1. p \in Pkts \cup {Arq} /\ d \in Drives /\ DevOK /\ dev[d] \in DeviceStates
  BY Constants DEF IInv, DevOK
<1>2. ap \in [Pkts \cup {Arq} -> PktStates] /\ ap[p] \in PktStates
  BY <1>1 DEF IInv, TypeOK, PktStates
<1>3. state \in DriveStates /\ drv \in [Atapi -> DriveStates] /\ r.event \in 0 .. 7
      /\ r.busy \in BOOLEAN /\ r.err \in BOOLEAN
  BY DEF IInv, TypeOK, ReadingStates
<1>4. failed \in PktStates
  <2>1. ap[p].flags \cup (IF tran THEN {"ERROR", "TRAN_ERROR"} ELSE {}) \in SUBSET Flags
    BY <1>2 DEF PktStates, Flags
  <2>. QED
    BY <1>2, <2>1 DEF PktStates, Failed
<1>5. next \in DriveStates /\ (action \in {"RE", "REX"} => next = "idle")
      /\ (state = "dma" => action # "CDB")
      /\ (action = "CDB" /\ UsesDma(p) => next = "dma")
  BY <1>3, Tables DEF DriveStates, Action
<1>6. drv' = [drv EXCEPT ![d] = IF r.busy THEN @ ELSE next]
      /\ dma' = IF state = "dma" THEN FALSE
                ELSE dma \/ (~r.busy /\ action = "CDB" /\ UsesDma(p))
  BY DEF AtapiIntr, Action
<1>7. dma => state = "dma"
  BY Constants DEF IInv, EnginesOK
<1>8. \/ Waits(p, d, r, tran) \/ SendsCdb(p, d, r, tran)
      \/ MovesData(p, d, r) \/ Ends(p, d, r, tran)
  BY <1>3, AtapiIntrCases
<1>. HIDE DEF state, action, failed, next
<1>9. ap' \in [Pkts \cup {Arq} -> PktStates] /\ DevOK'
  <2>1. ASSUME Clear(d), sense' = sense
        PROVE  DevOK'
    BY <1>1, <2>1, ClearType, SetDevType DEF Clear, DevOK
  <2>2. CASE Waits(p, d, r, tran)
    BY <1>2, <1>4, <2>1, <2>2 DEF Waits, failed
  <2>3. CASE SendsCdb(p, d, r, tran)
    <3>1. [failed EXCEPT !.flags = @ \cup {"SENT_CMD"}] \in PktStates
      BY <1>4 DEF PktStates, Flags
    <3>2. PICK n \in Nat : SetDev(d, Receive(d, p, n)) /\ (Direction(p) = "none" => n = 0)
      BY <2>3, CtlrAssumption DEF SendsCdb
    <3>3. sense' = sense
          /\ ap' = [ap EXCEPT ![p] = [failed EXCEPT !.flags = @ \cup {"SENT_CMD"}]]
      BY <2>3 DEF SendsCdb, failed
    <3>4. DevOK'
      BY <1>1, <3>2, <3>3, ReceiveType, SetDevType DEF DevOK
    <3>. QED
      BY <1>2, <3>1, <3>3, <3>4
  <2>4. CASE PioIn(p, d) \/ PioOut(p, d)
    <3>1. dev[d].block \in Nat
      BY <1>1 DEF DeviceStates
    <3>2. ap' = [ap EXCEPT ![p] = Move(@, dev[d].block)]
      BY <2>4 DEF PioIn, PioOut
    <3>3. Move(ap[p], dev[d].block) \in PktStates
      BY <1>2, <3>1, MoveType
    <3>4. \E n \in Nat : SetDev(d, DrqDone(d, n))
      <4>1. CASE PioIn(p, d)
        BY <4>1 DEF PioIn
      <4>2. CASE PioOut(p, d)
        <5>1. (IF ap[p].resid < dev[d].block THEN dev[d].block - ap[p].resid ELSE 0) \in Nat
          BY <1>2, <3>1, CountType DEF PktStates
        <5>. QED
          BY <4>2, <5>1 DEF PioOut
      <4>. QED
        BY <2>4, <4>1, <4>2
    <3>5. sense' \in [Pkts -> Owners]
      <4>1. dev[d].sense \in Owners /\ sense \in [Pkts -> Owners]
        BY <1>1 DEF DeviceStates, DevOK
      <4>. QED
        BY <2>4, <4>1 DEF PioIn, PioOut
    <3>6. DevOK'
      BY <1>1, <3>4, <3>5, DrqDoneType, SetDevType DEF DevOK
    <3>. QED
      BY <1>2, <3>2, <3>3, <3>6
  <2>5. CASE Ends(p, d, r, tran)
    <3>1. (drv[d] = "dma") \in BOOLEAN
      OBVIOUS
    <3>2. Status(failed, r.err, drv[d] = "dma") \in PktStates
      BY <1>3, <1>4, <3>1, StatusType
    <3>3. /\ ap' = [ap EXCEPT ![p] = Status(failed, r.err, drv[d] = "dma")]
          /\ Clear(d) /\ sense' = sense
      BY <2>5 DEF Ends, failed
    <3>. QED
      BY <1>2, <2>1, <3>2, <3>3
  <2>. QED
    BY <1>8, <2>2, <2>3, <2>4, <2>5 DEF MovesData
<1>10. drv' \in [Atapi -> DriveStates] /\ \A x \in Atapi : x # d => drv'[x] = drv[x]
  BY <1>3, <1>5, <1>6
<1>11. drv'[d] = IF r.busy THEN state ELSE next
  BY <1>3, <1>6 DEF state
<1>12. dma' \in BOOLEAN
  BY <1>6 DEF IInv, TypeOK
<1>13. dma' => UsesDma(p) /\ drv'[d] = "dma"
  BY <1>5, <1>6, <1>7, <1>11
<1>14. \E rc \in {"BUSY", "OKAY", "FINI"} :
         Return(rc) /\ (rc = "FINI" => ~dma' /\ drv'[d] = "idle")
  <2>1. action \in {"RE", "REX"} /\ ~r.busy => ~dma' /\ drv'[d] = "idle"
    BY <1>5, <1>11, <1>13
  <2>. QED
    BY <1>8, <2>1 DEF Waits, SendsCdb, MovesData, Ends, action
<1>. QED
  BY <1>9, <1>10, <1>12, <1>13, <1>14

(* One interrupt of an ATA request.                                        *)
LEMMA DiskIntrSteps ==
  ASSUME IInv, NEW p \in Pkts, NEW d \in Drives, DiskIntr(p, d)
  PROVE  /\ ap' \in [Pkts \cup {Arq} -> PktStates]
         /\ DevOK' /\ dma' = FALSE /\ drv' = drv
         /\ \E rc \in {"BUSY", "OKAY", "FINI"} : Return(rc)
<1>. DEFINE last == dev[d].phase = "in" /\ dev[d].left = 0
            fail == [ap EXCEPT ![p].flags = @ \cup {"ERROR"}]
<1>1. ap \in [Pkts \cup {Arq} -> PktStates] /\ ap[p] \in PktStates
  BY DEF IInv, TypeOK, PktStates
<1>2. fail \in [Pkts \cup {Arq} -> PktStates]
  <2>1. [ap[p] EXCEPT !.flags = @ \cup {"ERROR"}] \in PktStates
    BY <1>1 DEF PktStates, Flags
  <2>. QED
    BY <1>1, <2>1
<1>3. UNCHANGED <<drv, sense>> /\ dma' = FALSE
  BY DEF DiskIntr
<1>4. DevOK
  BY DEF IInv
<1>5. /\ ap' \in {ap, fail}
      /\ \/ Clear(d)
         \/ SetDev(d, IF last THEN IdleDev ELSE DrqDone(d, 0))
      /\ \E rc \in {"BUSY", "OKAY", "FINI"} : Return(rc)
  <2>1. CASE IsBusy(d)
    BY <2>1 DEF DiskIntr
  <2>2. CASE ~IsBusy(d) /\ dev[d].phase \in {"in", "out"}
    BY <2>2 DEF DiskIntr
  <2>3. CASE ~IsBusy(d) /\ dev[d].phase \notin {"in", "out"}
    BY <2>3 DEF DiskIntr
  <2>. QED
    BY <2>1, <2>2, <2>3
<1>6. DevOK'
  <2>1. CASE Clear(d)
    BY <1>3, <1>4, <2>1, ClearType, SetDevType DEF Clear, DevOK
  <2>2. CASE SetDev(d, IF last THEN IdleDev ELSE DrqDone(d, 0))
    <3>1. SetDev(d, IdleDev) \/ SetDev(d, DrqDone(d, 0))
      BY <2>2
    <3>. QED
      BY <1>3, <1>4, <3>1, IdleDevType, DrqDoneType, SetDevType DEF DevOK
  <2>. QED
    BY <1>5, <2>1, <2>2
<1>. QED
  BY <1>1, <1>2, <1>3, <1>5, <1>6

LEMMA FsmIntrKeeps ==
  ASSUME IInv, FsmIntr
  PROVE  IInv'
<1>. DEFINE p == ctl.active
            d == ctl.drive
<1>1. call.func = "intr" /\ UNCHANGED <<ctl, ghd, spurious>>
  BY DEF FsmIntr
<1>2. p \in Pkts \cup {Arq} /\ call.who # "none" /\ ~Asking /\ ctl # IdleCtl
      /\ Current \in Pkts /\ d = Target[Current] /\ d \in Drives
  BY <1>1, Constants DEF IInv, CallOK, CtlOK, TypeOK, Asking, NoCall, IdleCtl
<1>3. p \in Pkts => p = Current /\ Kind[p] # "func"
  BY <1>1, Constants DEF IInv, EnginesOK, Current
<1>4. errors' \in 0 .. MaxErrors /\ \E rc \in {"BUSY", "OKAY", "FINI"} :
        /\ Return(rc) /\ dma' \in BOOLEAN
        /\ ap' \in [Pkts \cup {Arq} -> PktStates] /\ DevOK'
        /\ drv' \in [Atapi -> DriveStates]
        /\ \A x \in Atapi : x # d => drv'[x] = drv[x]
        /\ dma' => p \in Pkts /\ Dma[p] /\ Kind[p] = "packet" /\ drv'[d] = "dma"
        /\ rc = "FINI" => ~dma' /\ \A x \in Atapi : drv'[x] = "idle"
  <2>1. CASE p # Arq /\ Kind[p] = "disk"
    <3>1. DiskIntr(p, d) /\ errors' = errors /\ p \in Pkts
      BY <1>2, <2>1 DEF FsmIntr
    <3>2. d \notin Atapi
      BY <1>2, <1>3, <2>1, <3>1, Constants
    <3>3. \A x \in Atapi : drv[x] = "idle"
      BY <3>2 DEF IInv, EnginesOK
    <3>4. DevOK' /\ dma' = FALSE /\ drv' = drv /\ ap' \in [Pkts \cup {Arq} -> PktStates]
          /\ \E rc \in {"BUSY", "OKAY", "FINI"} : Return(rc)
      BY <1>2, <3>1, DiskIntrSteps
    <3>5. errors' \in 0 .. MaxErrors /\ drv' \in [Atapi -> DriveStates]
      BY <3>1, <3>4 DEF IInv, TypeOK
    <3>. QED
      BY <3>3, <3>4, <3>5
  <2>2. CASE ~(p # Arq /\ Kind[p] = "disk")
    <3>1. p \in Packets \cup {Arq} /\ d \in Atapi
      BY <1>2, <1>3, <2>2, Constants DEF IInv, CtlOK, Current
    <3>2. PICK r \in Readings(d),
               tran \in (IF UsesDma(p) /\ errors < MaxErrors THEN BOOLEAN ELSE {FALSE}) :
                 /\ AtapiIntr(p, d, r, tran)
                 /\ errors' = IF tran THEN errors + 1 ELSE errors
      BY <2>2 DEF FsmIntr
    <3>3. r \in ReadingStates /\ tran \in BOOLEAN
      BY <1>2, <3>2, ReadingsType DEF IInv, DevOK
    <3>4. errors' \in 0 .. MaxErrors
      <4>1. errors \in 0 .. MaxErrors /\ MaxErrors \in Nat
        BY CtlrAssumption DEF IInv, TypeOK
      <4>2. tran => errors < MaxErrors
        BY <3>2
      <4>. QED
        BY <3>2, <3>3, <4>1, <4>2
    <3>5. /\ ap' \in [Pkts \cup {Arq} -> PktStates] /\ DevOK'
          /\ drv' \in [Atapi -> DriveStates] /\ dma' \in BOOLEAN
          /\ \A x \in Atapi : x # d => drv'[x] = drv[x]
          /\ dma' => UsesDma(p) /\ drv'[d] = "dma"
          /\ \E rc \in {"BUSY", "OKAY", "FINI"} :
               Return(rc) /\ (rc = "FINI" => ~dma' /\ drv'[d] = "idle")
      BY <3>1, <3>2, <3>3, AtapiIntrSteps
    <3>6. UsesDma(p) => p \in Pkts /\ Dma[p] /\ Kind[p] = "packet"
      BY <3>1, Constants DEF UsesDma
    <3>7. \A x \in Atapi : x # d => drv[x] = "idle"
      BY DEF IInv, EnginesOK
    <3>8. PICK rc \in {"BUSY", "OKAY", "FINI"} :
            Return(rc) /\ (rc = "FINI" => ~dma' /\ drv'[d] = "idle")
      BY <3>5
    <3>9. rc = "FINI" => ~dma' /\ \A x \in Atapi : drv'[x] = "idle"
      BY <3>5, <3>7, <3>8
    <3>10. dma' => p \in Pkts /\ Dma[p] /\ Kind[p] = "packet" /\ drv'[d] = "dma"
      BY <3>5, <3>6
    <3>. HIDE DEF p, d
    <3>. QED
      BY <3>4, <3>5, <3>8, <3>9, <3>10
  <2>. QED
    BY <2>1, <2>2
<1>5. PICK rc \in {"BUSY", "OKAY", "FINI"} :
        /\ Return(rc) /\ dma' \in BOOLEAN
        /\ ap' \in [Pkts \cup {Arq} -> PktStates] /\ DevOK'
        /\ drv' \in [Atapi -> DriveStates]
        /\ \A x \in Atapi : x # d => drv'[x] = drv[x]
        /\ dma' => p \in Pkts /\ Dma[p] /\ Kind[p] = "packet" /\ drv'[d] = "dma"
        /\ rc = "FINI" => ~dma' /\ \A x \in Atapi : drv'[x] = "idle"
  BY <1>4
<1>6. /\ call' \in CallStates
      /\ rc # "FINI" => call' = NoCall
      /\ rc = "FINI" => /\ call'.func = "fini" /\ call'.started
                        /\ call'.who = call.who /\ call'.pkt = call.pkt
  BY <1>5, ReturnCall DEF Codes
<1>7. TypeOK'
  BY <1>1, <1>4, <1>5, <1>6 DEF IInv, TypeOK, PktStates, CallStates
<1>8. Current' = Current /\ CtlOK'
  BY <1>1 DEF IInv, CtlOK, Current
<1>9. ~Asking'
  BY <1>6 DEF Asking, NoCall
<1>10. HandedOver'
  BY <1>1, <1>2, <1>8, <1>9 DEF IInv, HandedOver
<1>11. CallOK'
  <2>1. CASE rc # "FINI"
    BY <1>6, <1>9, <2>1 DEF CallOK, NoCall
  <2>2. CASE rc = "FINI"
    BY <1>1, <1>2, <1>6, <1>8, <1>9, <2>2, Constants DEF IInv, CallOK
  <2>. QED
    BY <2>1, <2>2
<1>12. EnginesOK'
  <2>1. \A x \in Atapi : drv'[x] # "idle" => ctl'.active # NoPkt /\ x = ctl'.drive
    BY <1>1, <1>2, <1>5, Constants DEF IInv, EnginesOK
  <2>2. call'.func = "fini" => rc = "FINI"
    BY <1>6 DEF NoCall
  <2>. QED
    BY <1>1, <1>3, <1>5, <2>1, <2>2 DEF EnginesOK
<1>. QED
  BY <1>5, <1>7, <1>8, <1>10, <1>11, <1>12 DEF IInv

-----------------------------------------------------------------------------
(* The results.                                                            *)

LEMMA InitIInv == Init => IInv
<1>. SUFFICES ASSUME Init PROVE IInv
  OBVIOUS
<1>1. ctl = IdleCtl /\ call = NoCall /\ dma = FALSE /\ spurious = 0 /\ errors = 0
  BY DEF Init
<1>2. ap \in [Pkts \cup {Arq} -> PktStates]
  <2>1. \A p \in Pkts \cup {Arq} :
          [flags |-> {}, err |-> FALSE, resid |-> Count(p)] \in PktStates
    BY CountType DEF PktStates
  <2>. QED
    BY <2>1 DEF Init
<1>3. TypeOK
  <2>1. call \in CallStates
    BY <1>1 DEF NoCall, CallStates, Functions
  <2>2. ctl \in [state : {"idle", "active0", "active1"}, active : Pkts \cup {Arq, NoPkt},
                 drive : Drives \cup {NoDrive}, fault : Pkts \cup {NoPkt}]
    BY <1>1 DEF IdleCtl
  <2>3. drv \in [Atapi -> DriveStates] /\ ghd \in [Pkts -> {"queued", "active", "done"}]
    BY DEF Init, DriveStates
  <2>4. 0 \in 0 .. MaxSpurious /\ 0 \in 0 .. MaxErrors
    BY CtlrAssumption
  <2>. QED
    BY <1>1, <1>2, <2>1, <2>2, <2>3, <2>4 DEF TypeOK, PktStates, CallStates
<1>4. DevOK
  BY IdleDevType DEF Init, DevOK, Owners
<1>5. Current = NoPkt /\ ~Asking /\ CtlOK
  BY <1>1, Constants DEF Current, Asking, CtlOK, IdleCtl, NoCall
<1>6. HandedOver
  BY <1>5, Constants DEF Init, HandedOver
<1>7. CallOK /\ EnginesOK
  BY <1>1, <1>5, Constants DEF Init, CallOK, EnginesOK, NoCall, IdleCtl
<1>. QED
  BY <1>3, <1>4, <1>5, <1>6, <1>7 DEF IInv

LEMMA StepIInv == IInv /\ [Next]_vars => IInv'
<1>. SUFFICES ASSUME IInv, [Next]_vars PROVE IInv'
  OBVIOUS
<1>1. CASE UNCHANGED vars
  BY <1>1 DEF vars, IInv, TypeOK, DevOK, CtlOK, HandedOver, CallOK, EnginesOK, Current, Asking
<1>2. CASE Next
  BY <1>2, DriveKeeps, FsmStartKeeps, PollDrqKeeps, FsmIntrKeeps, FsmFiniArqKeeps,
     FsmStartArqKeeps, FsmFiniKeeps, FsmResetKeeps, ProcessIntrKeeps, HbaStartKeeps,
     ResetBusKeeps, SubmitKeeps
  DEF Next, Fsm
<1>. QED
  BY <1>1, <1>2

(* The inductive invariant, for any drives and requests, and for drives    *)
(* and interrupts that do not keep to the protocol (ata_ctlr_fsm,          *)
(* atapi_fsm_intr).                                                        *)
THEOREM IInvAlways == Spec => []IInv
<1>. QED
  BY InitIInv, StepIInv, PTL DEF Spec

(* Every variable keeps its type; ap_resid in particular never gets        *)
(* negative (atapi_pio_data_in, atapi_pio_data_out).                       *)
THEOREM TypeCorrect == Spec => []TypeOK
<1>1. IInv => TypeOK
  BY DEF IInv
<1>. QED
  BY <1>1, IInvAlways, PTL

(* The request that an interrupt or a reset completes is the one that GHD  *)
(* takes for active (ata_ctlr_fsm, ata_start_arq).                         *)
THEOREM OneActiveAlways == Spec => []OneActive
<1>1. IInv => OneActive
  <2>. SUFFICES ASSUME IInv, call.who = "none" PROVE OneActive
    BY DEF OneActive
  <2>1. ~Asking /\ \A p \in Pkts : (ghd[p] = "active") = (p = Current)
    BY DEF IInv, HandedOver, Asking
  <2>2. CASE ctl = IdleCtl
    BY <2>1, <2>2, Constants DEF OneActive, Current, IdleCtl
  <2>3. CASE ctl # IdleCtl
    <3>1. Current \in Pkts /\ ctl.drive = Target[Current] /\ ctl.state = Active[ctl.drive]
          /\ IF ctl.active = Arq THEN ctl.fault \in Packets ELSE ctl.fault = NoPkt
      BY <2>3 DEF IInv, CtlOK
    <3>2. ctl.state # "idle"
      BY <3>1, Constants, CtlrAssumption DEF Active
    <3>3. {p \in Pkts : ghd[p] = "active"} = {Current}
      BY <2>1, <3>1
    <3>4. ctl.active # NoPkt /\ (ctl.active = Arq) = (ctl.fault # NoPkt)
      BY <3>1, Constants DEF Current
    <3>. QED
      BY <3>1, <3>2, <3>3, <3>4, Constants DEF OneActive, Current
  <2>. QED
    BY <2>2, <2>3
<1>. QED
  BY <1>1, IInvAlways, PTL

(* No drive's state machine stays outside S_IDLE, and the DMA engine does  *)
(* not run on, when the controller is done (atapi_fsm_reset).              *)
THEOREM IdleDrivesAlways == Spec => []IdleDrives
<1>1. IInv => IdleDrives
  <2>. SUFFICES ASSUME IInv, call.who = "none", ctl.state = "idle"
                PROVE  ~dma /\ \A d \in Atapi : drv[d] = "idle"
    BY DEF IdleDrives
  <2>1. ctl = IdleCtl
    <3>1. ctl # IdleCtl => ctl.state \in {"active0", "active1"}
      BY Constants, CtlrAssumption DEF IInv, CtlOK, Active
    <3>. QED
      BY <3>1
  <2>2. ctl.active = NoPkt
    BY <2>1 DEF IdleCtl
  <2>. QED
    BY <2>2, Constants DEF IInv, EnginesOK
<1>. QED
  BY <1>1, IInvAlways, PTL

-----------------------------------------------------------------------------
(* The refinement: each step of the controller is a step of HbaService for *)
(* the request at hand, or none.                                           *)

LEMMA ReqTyped ==
  ASSUME IInv, NEW p \in Pkts
  PROVE  /\ Req[p] \in {"queued", "starting", "active", "done"}
         /\ Req[p] \in {"starting", "active"} <=> ghd[p] = "active"
         /\ ghd[p] # "active" => Req[p] = ghd[p]
<1>1. ghd[p] \in {"queued", "active", "done"}
  BY DEF IInv, TypeOK
<1>. QED
  BY <1>1 DEF Req

(* A request's own step, with the others where they were.                  *)
LEMMA OneMoves ==
  ASSUME NEW p \in Pkts, NEW s, NEW t, Req[p] \in s, Req'[p] = t,
         \A q \in Pkts : q # p => Req'[q] = Req[q]
  PROVE  Service!Move(p, s, t)
<1>1. Req' = [Req EXCEPT ![p] = t]
  BY DEF Req
<1>. QED
  BY <1>1 DEF Service!Move

(* Only the request at hand is starting or active.                         *)
LEMMA OthersRest ==
  ASSUME IInv, IInv', NEW p \in Pkts, \A q \in Pkts : q # p => ghd'[q] = ghd[q],
         p = (IF Asking THEN call.pkt ELSE Current)
  PROVE  \A q \in Pkts : q # p => Req'[q] = Req[q]
<1>. SUFFICES ASSUME NEW q \in Pkts, q # p PROVE Req'[q] = Req[q]
  OBVIOUS
<1>1. ghd[q] # "active" /\ ghd'[q] # "active"
  BY DEF IInv, HandedOver
<1>. QED
  BY <1>1 DEF Req

(* Wrapping up completes the request.                                      *)
LEMMA DoneCompletes ==
  ASSUME IInv, IInv', call.func = "fini", AllDone(Current)
  PROVE  Service!Next
<1>1. Current \in Pkts /\ ~Asking /\ ghd' = [ghd EXCEPT ![Current] = "done"]
  BY Constants DEF IInv, CallOK, CtlOK, IdleCtl, Asking, AllDone
<1>2. ghd[Current] = "active" /\ ghd'[Current] = "done"
  BY <1>1 DEF IInv, TypeOK, HandedOver
<1>3. Req[Current] \in {"starting", "active"} /\ Req'[Current] = "done"
  BY <1>1, <1>2 DEF Req
<1>4. \A q \in Pkts : q # Current => Req'[q] = Req[q]
  <2>1. \A q \in Pkts : q # Current => ghd'[q] = ghd[q]
    BY <1>1 DEF IInv, TypeOK
  <2>. QED
    BY <1>1, <2>1, OthersRest
<1>5. Service!Complete(Current)
  BY <1>1, <1>3, <1>4, OneMoves DEF Service!Complete
<1>. QED
  BY <1>1, <1>5 DEF Service!Next

(* Where GHD's view stays, a call either stays what it is or gets beyond   *)
(* the start of its request.                                               *)
Continues ==
  call'.who = "start" /\ ~call'.started =>
    call.who = "start" /\ ~call.started /\ call'.pkt = call.pkt

LEMMA QuietStep ==
  ASSUME IInv, IInv', ghd' = ghd, Continues
  PROVE  Service!Next \/ UNCHANGED Req
<1>. DEFINE p == IF Asking THEN call.pkt ELSE Current
<1>1. \A q \in Pkts : q # p => Req'[q] = Req[q]
  <2>1. \A q \in Pkts : q # p => ghd[q] # "active" /\ ghd'[q] # "active"
    BY DEF IInv, HandedOver
  <2>. QED
    BY <2>1 DEF Req
<1>2. CASE p \in Pkts /\ Req'[p] # Req[p]
  <2>1. Req[p] = "starting" /\ Req'[p] = "active"
    BY <1>2 DEF Req, Continues
  <2>2. Service!Accept(p)
    BY <1>1, <1>2, <2>1, OneMoves DEF Service!Accept
  <2>. QED
    BY <1>2, <2>2 DEF Service!Next
<1>3. CASE ~(p \in Pkts /\ Req'[p] # Req[p])
  <2>1. \A q \in Pkts : Req'[q] = Req[q]
    BY <1>1, <1>3
  <2>. QED
    BY <2>1 DEF Req
<1>. QED
  BY <1>2, <1>3

LEMMA FsmStartServes ==
  ASSUME IInv, IInv', FsmStart
  PROVE  Service!Next \/ UNCHANGED Req
<1>. DEFINE p == call.pkt
<1>1. Asking /\ p \in Pkts /\ ~call.started /\ call.who = "start"
  BY DEF FsmStart, Asking, IInv, CallOK
<1>2. PICK rc \in {"OKAY", "BUSY", "DRQ", "FINI"} :
        /\ ghd' = IF rc = "BUSY" THEN [ghd EXCEPT ![p] = "queued"] ELSE ghd
        /\ Return(rc)
  BY DEF FsmStart
<1>3. CASE rc # "BUSY"
  <2>1. Continues
    BY <1>1, <1>2, ReturnCall DEF Continues, Codes, NoCall
  <2>. QED
    BY <1>2, <1>3, <2>1, QuietStep
<1>4. CASE rc = "BUSY"
  <2>1. ghd' = [ghd EXCEPT ![p] = "queued"]
    BY <1>2, <1>4
  <2>2. ghd[p] = "active" /\ ghd'[p] = "queued" /\ \A q \in Pkts : q # p => ghd'[q] = ghd[q]
    BY <1>1, <2>1 DEF IInv, TypeOK, HandedOver
  <2>3. Req[p] = "starting" /\ Req'[p] = "queued"
    BY <1>1, <2>2 DEF Req
  <2>4. \A q \in Pkts : q # p => Req'[q] = Req[q]
    BY <1>1, <2>2, OthersRest
  <2>5. Service!Refuse(p)
    BY <1>1, <2>3, <2>4, OneMoves DEF Service!Refuse
  <2>. QED
    BY <1>1, <2>5 DEF Service!Next
<1>. QED
  BY <1>3, <1>4

LEMMA FsmStartArqServes ==
  ASSUME IInv, IInv', FsmStartArq
  PROVE  Service!Next \/ UNCHANGED Req
<1>1. call.func = "fini" /\ ctl.active \in Pkts /\ Current = ctl.active
  BY Constants DEF FsmStartArq, Current
<1>2. PICK rc \in {"OKAY", "BUSY", "DRQ"} :
        IF rc = "BUSY" THEN AllDone(ctl.active) ELSE ghd' = ghd /\ Return(rc)
  BY DEF FsmStartArq
<1>3. CASE rc = "BUSY"
  BY <1>1, <1>2, <1>3, DoneCompletes
<1>4. CASE rc # "BUSY"
  <2>1. Continues
    BY <1>2, <1>4, ReturnCall DEF Continues, Codes, NoCall
  <2>. QED
    BY <1>2, <1>4, <2>1, QuietStep
<1>. QED
  BY <1>3, <1>4

LEMMA FsmIntrServes ==
  ASSUME IInv, IInv', FsmIntr
  PROVE  Service!Next \/ UNCHANGED Req
<1>1. PICK rc \in {"BUSY", "OKAY", "FINI"} : Return(rc)
  <2>1. CASE DiskIntr(ctl.active, ctl.drive)
    BY <2>1 DEF DiskIntr
  <2>2. ASSUME NEW r, NEW tran, AtapiIntr(ctl.active, ctl.drive, r, tran)
        PROVE  \E rc \in {"BUSY", "OKAY", "FINI"} : Return(rc)
    BY <2>2, Zenon DEF AtapiIntr
  <2>. QED
    BY <2>1, <2>2 DEF FsmIntr
<1>2. Continues
  BY <1>1, ReturnCall DEF Continues, Codes, NoCall
<1>. QED
  BY <1>2, QuietStep DEF FsmIntr

LEMMA CallsServe ==
  ASSUME IInv, IInv', NEW p \in Pkts, HbaStart(p) \/ Submit(p) \/ ResetBus(p)
  PROVE  Service!Next \/ UNCHANGED Req
<1>1. CASE HbaStart(p)
  <2>1. \A q \in Pkts : ghd[q] # "active"
    BY <1>1, Constants DEF HbaStart, IInv, HandedOver, CtlOK, Current, Asking, IdleCtl
  <2>2. ~Service!Busy
    BY <2>1, ReqTyped DEF Service!Busy
  <2>3. ghd[p] = "queued" /\ ghd'[p] = "active" /\ (\A q \in Pkts : q # p => ghd'[q] = ghd[q])
        /\ call'.who = "start" /\ call'.pkt = p /\ ~call'.started /\ call.who = "none"
    BY <1>1 DEF HbaStart, IInv, TypeOK
  <2>4. Req[p] = "queued" /\ Req'[p] = "starting" /\ \A q \in Pkts : q # p => Req'[q] = Req[q]
    BY <2>1, <2>3 DEF Req
  <2>5. Service!Start(p)
    BY <2>2, <2>4, OneMoves DEF Service!Start
  <2>. QED
    BY <2>5 DEF Service!Next
<1>2. CASE Submit(p)
  <2>1. ghd[p] = "done" /\ ghd'[p] = "queued" /\ call' = call
        /\ \A q \in Pkts : q # p => ghd'[q] = ghd[q]
    BY <1>2 DEF Submit, IInv, TypeOK
  <2>2. Req[p] = "done" /\ Req'[p] = "queued" /\ \A q \in Pkts : q # p => Req'[q] = Req[q]
    BY <2>1 DEF Req
  <2>3. Service!Resubmit(p)
    BY <2>2, OneMoves DEF Service!Resubmit
  <2>. QED
    BY <2>3 DEF Service!Next
<1>3. CASE ResetBus(p)
  BY <1>3, QuietStep DEF ResetBus, Continues
<1>. QED
  BY <1>1, <1>2, <1>3

LEMMA StepServes ==
  ASSUME IInv, IInv', [Next]_vars
  PROVE  Service!Next \/ UNCHANGED Req
<1>1. CASE UNCHANGED vars
  BY <1>1 DEF vars, Req
<1>2. CASE Drive
  BY <1>2 DEF Drive, Req
<1>3. CASE PollDrq
  <2>1. Continues
    BY <1>3, ReturnCall DEF PollDrq, Continues, Codes
  <2>. QED
    BY <1>3, <2>1, QuietStep DEF PollDrq
<1>4. CASE FsmFini
  <2>1. Current = ctl.active
    BY <1>4, Constants DEF FsmFini, Current
  <2>. QED
    BY <1>4, <2>1, DoneCompletes DEF FsmFini
<1>5. CASE FsmFiniArq
  <2>1. Current = ctl.fault
    BY <1>5 DEF FsmFiniArq, Current
  <2>. QED
    BY <1>5, <2>1, DoneCompletes DEF FsmFiniArq
<1>6. CASE FsmReset
  <2>1. PICK rc \in {"BUSY", "FINI"} : Return(rc)
    BY <1>6 DEF FsmReset
  <2>2. Continues
    BY <2>1, ReturnCall DEF Continues, Codes, NoCall
  <2>. QED
    BY <1>6, <2>2, QuietStep DEF FsmReset
<1>7. CASE ProcessIntr
  BY <1>7, QuietStep DEF ProcessIntr, Continues
<1>. QED
  BY <1>1, <1>2, <1>3, <1>4, <1>5, <1>6, <1>7, FsmStartServes, FsmIntrServes,
     FsmStartArqServes, CallsServe
  DEF Next, Fsm

(* The controller works on one request at a time, refuses a request only   *)
(* while it is asked to start it, and completes each request it has        *)
(* started once (ata_hba_start, ata_ctlr_fsm).                             *)
THEOREM CtlrImplementsService == Spec => ImplementsService
<1>1. Init => Service!Init
  <2>. SUFFICES ASSUME Init PROVE Service!Init
    OBVIOUS
  <2>1. Req = [p \in Pkts |-> "queued"]
    BY DEF Init, Req
  <2>. QED
    BY <2>1 DEF Service!Init
<1>2. IInv /\ IInv' /\ [Next]_vars => [Service!Next]_Req
  BY StepServes
<1>. QED
  BY <1>1, <1>2, IInvAlways, PTL DEF Spec, ImplementsService, Service!Spec
=============================================================================
