------------------------------- MODULE AtaCtlr -------------------------------
(***************************************************************************)
(* The controller of two drives: the controller's state machine            *)
(* (ata_common.c), which starts requests, hands interrupts to the active   *)
(* one, fetches sense data after an error (ARQ) and resets the bus, and    *)
(* the state machine of each ATAPI drive (atapi_fsm.c). The PIO and DMA of *)
(* ATA disks is module DadkTransfer and only its return codes matter here; *)
(* queues and timers are module Ghd.                                       *)
(*                                                                         *)
(* GHD calls ata_hba_start, ata_process_intr and ata_reset_bus one at a    *)
(* time, under the HBA mutex. Each loops over ata_ctlr_fsm until it        *)
(* returns OKAY or BUSY; the loop's state is the variable call.            *)
(***************************************************************************)
EXTENDS Integers, FiniteSets

CONSTANTS
  Pkts, Arq, NoPkt,  \* requests, ac_arq_pktp, NULL
  Drives, NoDrive,
  Target,            \* the drive of each request
  Kind,              \* "packet" (ATAPI), "disk" (ATA) or "func" (ata_queue_cmd)
  Dir,               \* "in", "out" or "none": AP_READ, AP_WRITE, neither
  Dma,               \* ap_pciide_dma
  ArqOn,             \* AP_ARQ_ON_ERROR
  NoCdbIntr,         \* the drives with AD_NO_CDB_INTR
  BsyWait,           \* AC_BSY_WAIT
  Size, DevLens,     \* data units of a request; and what a drive may transfer
  Block,             \* units per DRQ block
  Slow,              \* may a drive be busy for longer than the code waits?
  MaxSpurious,       \* bound: interrupts out of turn
  MaxErrors          \* bound: commands that end with an error

Packets == {p \in Pkts : Kind[p] = "packet"}
Atapi   == {Target[p] : p \in Packets}       \* the ATAPI drives

ASSUME CtlrAssumption ==
  /\ Drives \subseteq {0, 1}
  /\ Arq \notin Pkts /\ NoPkt \notin Pkts \cup {Arq} /\ NoDrive \notin Drives
  /\ Target \in [Pkts -> Drives] /\ Dma \in [Pkts -> BOOLEAN]
  /\ Kind \in [Pkts -> {"packet", "disk", "func"}]
  /\ Dir \in [Pkts -> {"in", "out", "none"}]
  /\ \A p \in Pkts : Kind[p] = "disk" => Target[p] \notin Atapi /\ Dir[p] # "none"
  /\ \A p \in Pkts : Dma[p] => Dir[p] # "none"
  /\ ArqOn \subseteq Packets /\ NoCdbIntr \subseteq Atapi
  /\ Size \in Nat \ {0} /\ Block \in Nat \ {0} /\ DevLens \subseteq Nat
  /\ BsyWait \in BOOLEAN /\ Slow \in BOOLEAN
  /\ MaxSpurious \in Nat /\ MaxErrors \in Nat

VARIABLES
  ctl,      \* ac_state, ac_active_pktp, ac_active_drvp, ac_fault_pktp
  drv,      \* ad_state of each ATAPI drive
  ap,       \* the ata_pkt of each request
  dma,      \* is the DMA engine running?
  call,     \* the call GHD is making, and how far it is
  ghd,      \* what GHD takes the request for
  dev,      \* the drives
  sense,    \* history: whose sense data a request received
  spurious, errors  \* budgets used

vars == <<ctl, drv, ap, dma, call, ghd, dev, sense, spurious, errors>>

Flags == {"ERROR", "TRAN_ERROR", "SENT_CMD", "XFERRED_DATA", "GOT_STATUS", "BUS_RESET",
          "DEV_RESET", "ARQ_OKAY", "ARQ_ERROR"}
Functions == {"start", "drq", "intr", "fini", "reset"}  \* ATA_FSM_..., and
                     \* "drq" for a start that polls for DRQ
DriveStates == {"idle", "cmd", "cdb", "in", "out", "dma"}  \* S_...
Active == [d \in {0, 1} |-> IF d = 0 THEN "active0" ELSE "active1"]  \* AS_...
NoCall == [who |-> "none", func |-> "start", pkt |-> NoPkt, started |-> FALSE]
IdleCtl == [state |-> "idle", active |-> NoPkt, drive |-> NoDrive, fault |-> NoPkt]
IdleDev == [phase |-> "idle", irq |-> FALSE, len |-> 0, left |-> 0, block |-> 0,
            err |-> FALSE, for |-> NoPkt, sense |-> NoPkt]

Direction(p) == IF p = Arq THEN "in" ELSE Dir[p]
UsesDma(p)   == p # Arq /\ Dma[p]
Count(p)     == IF Direction(p) = "none" THEN 0 ELSE Size  \* ap_bcount

Init ==
  /\ ctl = IdleCtl
  /\ drv = [d \in Atapi |-> "idle"]
  /\ ap = [p \in Pkts \cup {Arq} |-> [flags |-> {}, err |-> FALSE, resid |-> Count(p)]]
  /\ dma = FALSE
  /\ call = NoCall
  /\ ghd = [p \in Pkts |-> "queued"]
  /\ dev = [d \in Drives |-> IdleDev]
  /\ sense = [p \in Pkts |-> NoPkt]
  /\ spurious = 0 /\ errors = 0

-----------------------------------------------------------------------------
(* The drives. An ATAPI drive takes a PACKET command, asks for its CDB,    *)
(* moves blocks of data and ends with status; an ATA drive interrupts once *)
(* for each step of its request.                                           *)

IsBusy(d) == dev[d].phase \in {"cmd", "busy", "reset"}
SetDev(d, new) == dev' = [dev EXCEPT ![d] = new]

DevAsksForCdb(d) ==
  /\ dev[d].phase = "cmd"
  /\ SetDev(d, [dev[d] EXCEPT !.phase = "cdb", !.irq = d \notin NoCdbIntr])
  /\ UNCHANGED <<errors, spurious>>

(* The data moves by DMA while the drive is busy, else in blocks.          *)
DevData(d) ==
  /\ dev[d].phase = "busy" /\ dev[d].left > 0
  /\ LET p == dev[d].for
         n == IF dev[d].left < Block THEN dev[d].left ELSE Block
     IN IF UsesDma(p)
        THEN dma /\ SetDev(d, [dev[d] EXCEPT !.left = 0])
        ELSE SetDev(d, [dev[d] EXCEPT !.phase = Direction(p), !.irq = TRUE,
                                      !.block = n, !.left = @ - n])
  /\ UNCHANGED <<errors, spurious>>

DevEnds(d, bad) ==
  /\ dev[d].phase = "busy" /\ (bad \/ dev[d].left = 0)
  /\ bad => errors < MaxErrors
  /\ errors' = IF bad THEN errors + 1 ELSE errors
  /\ SetDev(d, [dev[d] EXCEPT !.phase = "status", !.irq = TRUE, !.err = bad,
                              !.sense = IF bad /\ d \in Atapi THEN dev[d].for ELSE @])
  /\ UNCHANGED spurious

DevWakes(d) ==  \* long after its reset
  /\ dev[d].phase = "reset" /\ SetDev(d, IdleDev)
  /\ UNCHANGED <<errors, spurious>>

Drive ==
  /\ \E d \in Drives :
       DevWakes(d) \/ DevAsksForCdb(d) \/ DevData(d) \/ \E bad \in BOOLEAN : DevEnds(d, bad)
  /\ UNCHANGED <<ctl, drv, ap, dma, call, ghd, sense>>

(* The CDB arrives at a drive that waits for it. REQUEST SENSE returns the *)
(* sense data of the command before and any command drops it.              *)
Receive(d, p, n) ==
  IF dev[d].phase # "cdb" THEN dev[d]
  ELSE [dev[d] EXCEPT !.phase = "busy", !.irq = FALSE, !.for = p, !.len = n, !.left = n,
                      !.sense = IF p = Arq THEN @ ELSE NoPkt]

-----------------------------------------------------------------------------
(* atapi_fsm.c.                                                            *)

(* atapi_PioAction and atapi_PioNextState: by state, the entries of the    *)
(* events 0 .. 7 (DRQ, CoD and IO), in this order.                         *)
PioActionDropsData == [  \* a slip: data after the first block is not read
  idle |-> <<"NADA", "NADA", "NADA", "NADA", "NADA", "NADA", "NADA", "NADA">>,
  cmd  |-> <<"NADA", "NADA", "NADA", "CDB",  "NADA", "NADA", "RE",   "NADA">>,
  cdb  |-> <<"REX",  "OUT",  "NADA", "NADA", "IDLE", "IN",   "RE",   "UNK">>,
  in   |-> <<"REX",  "UNK",  "IDLE", "UNK",  "IDLE", "IDLE", "RE",   "UNK">>,
  out  |-> <<"REX",  "OUT",  "IDLE", "UNK",  "IDLE", "UNK",  "RE",   "UNK">>,
  dma  |-> <<"REX",  "UNK",  "UNK",  "UNK",  "UNK",  "UNK",  "RE",   "UNK">>]
PioAction == [
  idle |-> <<"NADA", "NADA", "NADA", "NADA", "NADA", "NADA", "NADA", "NADA">>,
  cmd  |-> <<"NADA", "NADA", "NADA", "CDB",  "NADA", "NADA", "RE",   "NADA">>,
  cdb  |-> <<"REX",  "OUT",  "NADA", "NADA", "IDLE", "IN",   "RE",   "UNK">>,
  in   |-> <<"REX",  "UNK",  "IDLE", "UNK",  "IDLE", "IN",   "RE",   "UNK">>,
  out  |-> <<"REX",  "OUT",  "IDLE", "UNK",  "IDLE", "UNK",  "RE",   "UNK">>,
  dma  |-> <<"REX",  "UNK",  "UNK",  "UNK",  "UNK",  "UNK",  "RE",   "UNK">>]
PioNextState == [
  idle |-> <<"idle", "idle", "idle", "idle", "idle", "idle", "idle", "idle">>,
  cmd  |-> <<"cdb",  "cdb",  "cdb",  "cdb",  "cdb",  "cdb",  "idle", "idle">>,
  cdb  |-> <<"idle", "out",  "cdb",  "cdb",  "cdb",  "in",   "idle", "idle">>,
  in   |-> <<"idle", "idle", "in",   "idle", "in",   "in",   "idle", "idle">>,
  out  |-> <<"idle", "out",  "out",  "idle", "out",  "idle", "idle", "idle">>,
  dma  |-> <<"idle", "dma",  "dma",  "dma",  "dma",  "dma",  "idle", "dma">>]

(* What the registers say: busy; or an event, and the ERR bit. A drive     *)
(* that bounces BSY shows anything.                                        *)
Event == [idle |-> 2, cdb |-> 3, in |-> 5, out |-> 1, status |-> 6]
Readings(d) ==
  IF IsBusy(d)
  THEN {[busy |-> TRUE, event |-> 0, err |-> FALSE]} \cup
       (IF MaxSpurious = 0 THEN {} ELSE [busy : {FALSE}, event : 0 .. 7, err : BOOLEAN])
  ELSE {[busy |-> FALSE, event |-> Event[dev[d].phase], err |-> dev[d].err]}

(* atapi_status.                                                           *)
Status(a, err, dmaCompletion) ==
  LET f == a.flags \cup {"GOT_STATUS"} \cup (IF err THEN {"ERROR"} ELSE {})
  IN IF dmaCompletion /\ "TRAN_ERROR" \notin f
     THEN [flags |-> f \cup {"XFERRED_DATA"}, resid |-> 0,
           err |-> IF "ERROR" \in f THEN err ELSE a.err]
     ELSE [a EXCEPT !.flags = f, !.err = IF "ERROR" \in f THEN err ELSE @]

(* atapi_pio_data_in dumps what does not fit; atapi_pio_data_out has       *)
(* nothing to give for it and leaves the drive waiting.                    *)
MoveAll(a, block) ==  \* a slip: ap_resid is not looked at
  [a EXCEPT !.flags = @ \cup {"XFERRED_DATA"}, !.resid = @ - block]
Move(a, block) ==
  LET k == IF a.resid < block THEN a.resid ELSE block
  IN [a EXCEPT !.flags = @ \cup {"XFERRED_DATA"}, !.resid = @ - k]
DrqDone(d, left) ==
  [dev[d] EXCEPT !.phase = IF left = 0 /\ ~IsBusy(d) THEN "busy" ELSE @,
                 !.irq = FALSE, !.block = left]
PioIn(p, d) ==
  /\ sense' = IF p = Arq THEN [sense EXCEPT ![ctl.fault] = dev[d].sense] ELSE sense
  /\ ap' = [ap EXCEPT ![p] = Move(@, dev[d].block)]
  /\ SetDev(d, DrqDone(d, 0))
PioOut(p, d) ==
  /\ sense' = sense
  /\ ap' = [ap EXCEPT ![p] = Move(@, dev[d].block)]
  /\ SetDev(d, DrqDone(d, IF ap[p].resid < dev[d].block
                          THEN dev[d].block - ap[p].resid ELSE 0))

(* What a return code makes of the call that is going on, in all three     *)
(* loops.                                                                  *)
Return(rc) ==
  call' = CASE rc \in {"OKAY", "BUSY"} -> NoCall
            [] rc = "DRQ"  -> [call EXCEPT !.func = "drq"]
            [] rc = "INTR" -> [call EXCEPT !.func = "intr", !.started = TRUE]
            [] rc = "FINI" -> [call EXCEPT !.func = "fini", !.started = TRUE]
Clear(d) == SetDev(d, [dev[d] EXCEPT !.irq = FALSE])

(* atapi_fsm_intr: one action of the table. Reading the status clears the  *)
(* drive's interrupt, and the chip's error latch fails a DMA request.      *)
AtapiIntr(p, d, r, tran) ==
  LET state  == drv[d]
      action == PioAction[state][r.event + 1]
      failed == [ap[p] EXCEPT !.flags = @ \cup IF tran THEN {"ERROR", "TRAN_ERROR"}
                                                ELSE {}]
      next   == IF action = "CDB" /\ UsesDma(p) THEN "dma"
                ELSE PioNextState[state][r.event + 1]
      data   == \/ action = "IN" /\ Direction(p) = "in" /\ ~UsesDma(p)
                \/ action = "OUT" /\ Direction(p) = "out" /\ ~UsesDma(p)
  IN /\ drv' = [drv EXCEPT ![d] = IF r.busy THEN @ ELSE next]
     /\ dma' = IF state = "dma" THEN FALSE
               ELSE dma \/ (~r.busy /\ action = "CDB" /\ UsesDma(p))
     /\ ~(data /\ ~r.busy) => sense' = sense
     /\ CASE r.busy ->
               Clear(d) /\ ap' = [ap EXCEPT ![p] = failed] /\ Return("BUSY")
          [] ~r.busy /\ action = "CDB" ->
               /\ \E n \in IF Direction(p) = "none" THEN {0} ELSE DevLens \ (IF p = Arq THEN {0} ELSE {}) :
                    SetDev(d, Receive(d, p, n))
               /\ ap' = [ap EXCEPT ![p] = [failed EXCEPT !.flags = @ \cup {"SENT_CMD"}]]
               /\ Return("OKAY")
          [] ~r.busy /\ data ->
               (IF action = "IN" THEN PioIn(p, d) ELSE PioOut(p, d)) /\ Return("OKAY")
          [] ~r.busy /\ action \in {"RE", "REX"} ->
               /\ Clear(d)
               /\ ap' = [ap EXCEPT ![p] = Status(failed, r.err, state = "dma")]
               /\ Return("FINI")
          [] OTHER ->
               Clear(d) /\ ap' = [ap EXCEPT ![p] = failed] /\ Return("OKAY")

(* atapi_fsm_start of a request whose ata_pkt is a.ap[p].                  *)
Busy(a, p) ==  \* which wait runs out decides on AP_ERROR
  IF BsyWait THEN {a, [a EXCEPT ![p].flags = @ \cup {"ERROR"}]} ELSE {a}
AtapiStartKeepsState(a, p, d, rc) ==  \* a slip: ad_state stays S_CMD
  IF drv[d] # "idle" \/ IsBusy(d)
  THEN /\ rc = "BUSY" /\ dev' = dev
       /\ drv' = [drv EXCEPT ![d] = IF @ = "idle" THEN "cmd" ELSE @]
       /\ ap' \in IF drv[d] # "idle" THEN {a} ELSE Busy(a, p)
  ELSE /\ rc = IF d \in NoCdbIntr THEN "DRQ" ELSE "OKAY"
       /\ drv' = [drv EXCEPT ![d] = "cmd"] /\ ap' = a
       /\ SetDev(d, [IdleDev EXCEPT !.phase = "cmd", !.for = p, !.sense = dev[d].sense])
AtapiStart(a, p, d, rc) ==
  IF drv[d] # "idle" \/ IsBusy(d)
  THEN /\ rc = "BUSY" /\ UNCHANGED <<drv, dev>>
       /\ ap' \in IF drv[d] # "idle" THEN {a} ELSE Busy(a, p)
  ELSE /\ rc = IF d \in NoCdbIntr THEN "DRQ" ELSE "OKAY"
       /\ drv' = [drv EXCEPT ![d] = "cmd"] /\ ap' = a
       /\ SetDev(d, [IdleDev EXCEPT !.phase = "cmd", !.for = p, !.sense = dev[d].sense])

-----------------------------------------------------------------------------
(* ATA requests, to the extent that the controller sees them.              *)

DiskStart(p, d, rc) ==
  /\ rc = IF IsBusy(d) THEN "BUSY"
          ELSE IF Dir[p] = "out" /\ ~Dma[p] THEN "DRQ" ELSE "OKAY"
  /\ dev' = IF IsBusy(d) THEN dev
            ELSE [dev EXCEPT ![d] = [IdleDev EXCEPT !.phase = "busy", !.for = p,
                                                    !.len = Size, !.left = Size]]
  /\ UNCHANGED <<drv, ap>>

(* ata_disk_intr and ata_disk_intr_pio_in, _pio_out, _dma.                 *)
DiskIntr(p, d) ==
  LET last == dev[d].phase = "in" /\ dev[d].left = 0
      fail == [ap EXCEPT ![p].flags = @ \cup {"ERROR"}]
  IN /\ dma' = FALSE /\ UNCHANGED <<drv, sense>>
     /\ CASE IsBusy(d) -> Clear(d) /\ ap' = fail /\ Return("BUSY")
          [] dev[d].phase \in {"in", "out"} ->
               /\ ap' = ap
               /\ SetDev(d, IF last THEN IdleDev ELSE DrqDone(d, 0))
               /\ Return(IF last THEN "FINI" ELSE "OKAY")
          [] OTHER ->
               /\ Clear(d)
               /\ ap' = IF dev[d].err \/ dev[d].phase = "idle" THEN fail ELSE ap
               /\ Return("FINI")

-----------------------------------------------------------------------------
(* ata_ctlr_fsm.                                                           *)

FsmStart ==
  /\ call.func = "start" /\ call.who = "start"
  /\ LET p == call.pkt
         d == Target[p]
     IN \E rc \in {"OKAY", "BUSY", "DRQ", "FINI"} :
          /\ CASE Kind[p] = "packet" -> AtapiStart(ap, p, d, rc)
               [] Kind[p] = "disk"   -> DiskStart(p, d, rc)
               [] Kind[p] = "func"   ->
                    /\ rc = "FINI" /\ UNCHANGED <<drv, dev>>
                    /\ ap' \in {ap, [ap EXCEPT ![p].flags = @ \cup {"ERROR"}]}
          /\ ctl' = IF rc = "BUSY" THEN IdleCtl
                    ELSE [state |-> Active[d], active |-> p, drive |-> d, fault |-> NoPkt]
          /\ dma' = (dma \/ (rc # "BUSY" /\ Kind[p] = "disk" /\ Dma[p]))
          /\ ghd' = IF rc = "BUSY" THEN [ghd EXCEPT ![p] = "queued"] ELSE ghd
          /\ Return(rc)
  /\ UNCHANGED <<sense, spurious, errors>>

(* The start function polls for DRQ: atapi_start_cmd of a drive that does  *)
(* not interrupt for its CDB, ata_disk_start_pio_out.                      *)
PollDrq ==
  /\ call.func = "drq"
  /\ LET p == ctl.active
         d == ctl.drive
     IN /\ Slow \/ ~IsBusy(d)
        /\ ap' = IF p # Arq /\ Kind[p] = "disk" /\ dev[d].phase # "out"
                 THEN [ap EXCEPT ![p].flags = @ \cup {"ERROR"}] ELSE ap
        /\ Return("INTR")
  /\ UNCHANGED <<ctl, drv, dma, ghd, dev, sense, spurious, errors>>

FsmIntr ==
  /\ call.func = "intr"
  /\ LET p == ctl.active
         d == ctl.drive
     IN IF p # Arq /\ Kind[p] = "disk"
        THEN DiskIntr(p, d) /\ errors' = errors
        ELSE \E r \in Readings(d),
                tran \in (IF UsesDma(p) /\ errors < MaxErrors THEN BOOLEAN ELSE {FALSE}) :
               /\ AtapiIntr(p, d, r, tran)
               /\ errors' = IF tran THEN errors + 1 ELSE errors
  /\ UNCHANGED <<ctl, ghd, spurious>>

(* AC_FINI. Wrapping up a request gives it back to GHD.                    *)
AllDone(p) == ctl' = IdleCtl /\ ghd' = [ghd EXCEPT ![p] = "done"] /\ Return("OKAY")

NeedsArq(p) ==
  p \in ArqOn /\ {"GOT_STATUS", "ERROR"} \subseteq ap[p].flags /\ ap[p].err

FsmFiniArqIgnoresReset ==  \* a slip: only AP_ERROR makes an ARQ fail
  /\ call.func = "fini" /\ ctl.active = Arq
  /\ LET p  == ctl.fault
         ok == "ERROR" \notin ap[Arq].flags
     IN /\ ap' = [ap EXCEPT ![p].flags = @ \cup {IF ok THEN "ARQ_OKAY" ELSE "ARQ_ERROR"}]
        /\ AllDone(p)
  /\ UNCHANGED <<drv, dma, dev, sense, spurious, errors>>
FsmFiniArq ==
  /\ call.func = "fini" /\ ctl.active = Arq
  /\ LET p  == ctl.fault
         ok == {"ERROR", "BUS_RESET"} \cap ap[Arq].flags = {}
     IN /\ ap' = [ap EXCEPT ![p].flags = @ \cup {IF ok THEN "ARQ_OKAY" ELSE "ARQ_ERROR"}]
        /\ AllDone(p)
  /\ UNCHANGED <<drv, dma, dev, sense, spurious, errors>>

(* ata_start_arq.                                                          *)
ArqPkt == [flags |-> {}, err |-> FALSE, resid |-> Size]
FsmStartArqKeepsFault ==  \* a slip: ac_fault_pktp survives an ARQ that is refused
  /\ call.func = "fini" /\ ctl.active \in Pkts /\ NeedsArq(ctl.active)
  /\ LET p == ctl.active
     IN \E rc \in {"OKAY", "BUSY", "DRQ"} :
          /\ AtapiStart([ap EXCEPT ![Arq] = ArqPkt], Arq, ctl.drive, rc)
          /\ IF rc = "BUSY"
             THEN /\ ctl' = [IdleCtl EXCEPT !.fault = p]
                  /\ ghd' = [ghd EXCEPT ![p] = "done"] /\ Return("OKAY")
             ELSE /\ ctl' = [ctl EXCEPT !.active = Arq, !.fault = p]
                  /\ ghd' = ghd /\ Return(rc)
  /\ UNCHANGED <<dma, sense, spurious, errors>>
FsmStartArq ==
  /\ call.func = "fini" /\ ctl.active \in Pkts /\ NeedsArq(ctl.active)
  /\ LET p == ctl.active
     IN \E rc \in {"OKAY", "BUSY", "DRQ"} :
          /\ AtapiStart([ap EXCEPT ![Arq] = ArqPkt], Arq, ctl.drive, rc)
          /\ IF rc = "BUSY" THEN AllDone(p)
             ELSE /\ ctl' = [ctl EXCEPT !.active = Arq, !.fault = p]
                  /\ ghd' = ghd /\ Return(rc)
  /\ UNCHANGED <<dma, sense, spurious, errors>>

FsmFini ==
  /\ call.func = "fini" /\ ctl.active \in Pkts /\ ~NeedsArq(ctl.active)
  /\ AllDone(ctl.active)
  /\ UNCHANGED <<drv, ap, dma, dev, sense, spurious, errors>>

(* AC_RESET_A. A software reset fails when drive 1, alone on the bus, does *)
(* not answer in time; else ata_wait3 gives up on a slow drive in silence, *)
(* and a DEVICE RESET of each ATAPI drive follows. AC_RESET_I is not       *)
(* reached: GHD resets the bus only for a request that is active.          *)
FsmReset ==
  /\ call.func = "reset"
  /\ ap' = [ap EXCEPT ![ctl.active].flags = @ \cup {"DEV_RESET", "BUS_RESET"}]
  /\ dma' = (dma /\ ~UsesDma(ctl.active))
  /\ dev' \in [Drives -> {IdleDev} \cup
                 IF Slow THEN {[IdleDev EXCEPT !.phase = "reset"]} ELSE {}]
  /\ \/ Slow /\ 0 \notin Drives /\ drv' = drv /\ Return("BUSY")
     \/ drv' = [d \in Atapi |-> "idle"] /\ Return("FINI")
  /\ UNCHANGED <<ctl, ghd, sense, spurious, errors>>

-----------------------------------------------------------------------------
(* The calls that GHD makes, and the target drivers that submit again.     *)

(* ata_hba_start.                                                          *)
HbaStartIgnoresActive(p) ==  \* a slip: ac_active_pktp is not looked at
  /\ call.who = "none" /\ ghd[p] = "queued"
  /\ call' = [who |-> "start", func |-> "start", pkt |-> p, started |-> FALSE]
  /\ ghd' = [ghd EXCEPT ![p] = "active"]
  /\ UNCHANGED <<ctl, drv, ap, dma, dev, sense, spurious, errors>>
HbaStart(p) ==
  /\ call.who = "none" /\ ghd[p] = "queued" /\ ctl.active = NoPkt
  /\ call' = [who |-> "start", func |-> "start", pkt |-> p, started |-> FALSE]
  /\ ghd' = [ghd EXCEPT ![p] = "active"]
  /\ UNCHANGED <<ctl, drv, ap, dma, dev, sense, spurious, errors>>

(* ata_get_status and ata_process_intr.                                    *)
ProcessIntr ==
  /\ call.who = "none" /\ ctl.state # "idle"
  /\ IF dev[ctl.drive].irq THEN spurious' = spurious
     ELSE spurious < MaxSpurious /\ spurious' = spurious + 1
  /\ call' = [who |-> "intr", func |-> "intr", pkt |-> NoPkt, started |-> FALSE]
  /\ UNCHANGED <<ctl, drv, ap, dma, ghd, dev, sense, errors>>

(* ata_timeout_func and ata_reset_bus: the timer of a request ran out.     *)
ResetBus(p) ==
  /\ call.who = "none" /\ ghd[p] = "active"
  /\ call' = [who |-> "reset", func |-> "reset", pkt |-> NoPkt, started |-> FALSE]
  /\ UNCHANGED <<ctl, drv, ap, dma, ghd, dev, sense, spurious, errors>>

(* atapi_tran_start, ata_disk_iosetup.                                     *)
SubmitKeepsFlags(p) ==  \* a slip: the flags of the last time are not cleared
  /\ ghd[p] = "done"
  /\ ghd' = [ghd EXCEPT ![p] = "queued"]
  /\ ap' = [ap EXCEPT ![p] = [@ EXCEPT !.resid = Count(p)]]
  /\ sense' = [sense EXCEPT ![p] = NoPkt]
  /\ UNCHANGED <<ctl, drv, dma, call, dev, spurious, errors>>
Submit(p) ==
  /\ ghd[p] = "done"
  /\ ghd' = [ghd EXCEPT ![p] = "queued"]
  /\ ap' = [ap EXCEPT ![p] = [@ EXCEPT !.flags = {}, !.resid = Count(p)]]
  /\ sense' = [sense EXCEPT ![p] = NoPkt]
  /\ UNCHANGED <<ctl, drv, dma, call, dev, spurious, errors>>

Fsm == FsmStart \/ PollDrq \/ FsmIntr \/ FsmFiniArq \/ FsmStartArq \/ FsmFini \/ FsmReset
Next ==
  \/ Drive \/ Fsm \/ ProcessIntr
  \/ \E p \in Pkts : HbaStart(p) \/ ResetBus(p) \/ Submit(p)
Spec == Init /\ [][Next]_vars

(* The drives answer and their interrupts are served; nothing is assumed   *)
(* of the timers.                                                          *)
FairSpec == Spec /\ WF_vars(Drive) /\ WF_vars(Fsm) /\ WF_vars(ProcessIntr)

-----------------------------------------------------------------------------
(* Properties.                                                             *)

TypeOK ==
  /\ ctl \in [state : {"idle", "active0", "active1"}, active : Pkts \cup {Arq, NoPkt},
              drive : Drives \cup {NoDrive}, fault : Pkts \cup {NoPkt}]
  /\ drv \in [Atapi -> DriveStates]
  /\ ap \in [Pkts \cup {Arq} -> [flags : SUBSET Flags, err : BOOLEAN, resid : 0 .. Size]]
  /\ dma \in BOOLEAN /\ spurious \in 0 .. MaxSpurious /\ errors \in 0 .. MaxErrors
  /\ call \in [who : {"none", "start", "intr", "reset"}, func : Functions,
               pkt : Pkts \cup {NoPkt}, started : BOOLEAN]
  /\ ghd \in [Pkts -> {"queued", "active", "done"}]

(* Between calls the controller is active exactly for the request that GHD *)
(* takes for active, be it through its ARQ, and ac_fault_pktp is set       *)
(* exactly while an ARQ runs: the request that a reset or an interrupt     *)
(* completes is the right one (ata_ctlr_fsm).                              *)
OneActive ==
  call.who = "none" =>
    /\ (ctl.active = Arq) = (ctl.fault # NoPkt)
    /\ {p \in Pkts : ghd[p] = "active"} =
         (IF ctl.active = Arq THEN {ctl.fault} ELSE {ctl.active}) \ {NoPkt}
    /\ (ctl.state = "idle") = (ctl.active = NoPkt)

(* When the controller is idle so is every ATAPI drive's state machine and *)
(* the DMA engine: otherwise atapi_fsm_start would refuse every request    *)
(* from then on (atapi_fsm_start, atapi_fsm_reset).                        *)
IdleDrives ==
  call.who = "none" /\ ctl.state = "idle" => ~dma /\ \A d \in Atapi : drv[d] = "idle"

(* Sense data that is handed up with a request is that request's own: no   *)
(* other command reached the drive between the failure and the ARQ, and    *)
(* the ARQ was not cut short (ata_ctlr_fsm, ata_start_arq).                *)
SenseIsItsOwn ==
  \A p \in Pkts : ghd[p] = "done" /\ "ARQ_OKAY" \in ap[p].flags => sense[p] = p

(* A request that comes back with AP_ERROR after the drive gave its status *)
(* met an error, in that status or on the way.                             *)
ErrorsAreReal ==
  \A p \in Packets :
    ghd[p] = "done" /\ {"ERROR", "GOT_STATUS"} \subseteq ap[p].flags =>
      ap[p].err \/ "TRAN_ERROR" \in ap[p].flags

(* ap_resid never leaves the range of the request's size, like every field *)
(* its type, and that of a request that ends well says what the drive left *)
(* out: "Otherwise, it all transferred" (atapi_status, atapi_pio_data_in). *)
DataAccounted ==
  /\ TypeOK
  /\ call.func = "fini" /\ ctl.active \in Packets
       /\ {"ERROR", "BUS_RESET"} \cap ap[ctl.active].flags = {} =>
     LET n == dev[ctl.drive].len
         c == Count(ctl.active)
     IN ap[ctl.active].resid = IF n < c THEN c - n ELSE 0

(* A started request ends without the help of its timer, as long as drives *)
(* keep to the protocol, or else its drive waits for the rest of a write   *)
(* that is longer than the request (atapi_PioAction, atapi_PioNextState,   *)
(* atapi_pio_data_out).                                                    *)
Starved(p) ==
  LET d == Target[p]
  IN dev[d].for = p /\ dev[d].phase = "out" /\ ap[p].resid = 0
Served == \A p \in Pkts : ghd[p] = "active" ~> ghd[p] # "active" \/ Starved(p)

(* The controller is what module Ghd takes it for.                         *)
Req == [p \in Pkts |->
          IF ghd[p] = "active" /\ call.who = "start" /\ call.pkt = p /\ ~call.started
          THEN "starting" ELSE ghd[p]]
Service == INSTANCE HbaService WITH req <- Req
ImplementsService == Service!Spec
=============================================================================
