-------------------------------- MODULE Cmdk --------------------------------
(***************************************************************************)
(* The disk driver of cmdk.c, a unit per instance: probe, attach and       *)
(* detach, the accounts of opens, the cached label, the bad block table    *)
(* that DKIOCADDBAD reloads, and the device identity that attach and       *)
(* DKIOCSVTOC look for.                                                    *)
(*                                                                         *)
(* External: specfs, which calls cmdkclose for the last close of a         *)
(* partition as a device of one type but for every layered close, and      *)
(* neither opens nor closes it twice at a time; the framework, which       *)
(* detaches no unit that is open; and cmlb, which reads the label when it  *)
(* is asked about a partition and holds none.                              *)
(***************************************************************************)
EXTENDS Naturals, FiniteSets

CONSTANTS
  Units,       \* instance numbers
  Parts,       \* partitions
  RegTypes,    \* types of open that are not layered: OTYP_BLK, OTYP_CHR, ...
  Callers,     \* threads in an ioctl
  MaxOpens,    \* bound: opens of a partition and type, and such pairs open
  MaxVersion   \* bound: bad block tables written to the disk

ASSUME UnitAssumption ==
  Units \subseteq Nat /\ "lyr" \notin RegTypes /\ MaxVersion \in Nat

OTypes   == RegTypes \cup {"lyr"}
NoTable  == 0   \* dk_alts_hdl is NULL; on the disk, no table that is sane
NoDevid  == "none"

VARIABLES
  soft,     \* the soft state of each unit
  got,      \* what probe and attach acquired for it
  maxinst,  \* cmdk_max_instance
  dk,       \* struct cmdk of each unit
  opens,    \* specfs: opens of each partition and type
  exclusive, \* specfs: those among them with FEXCL
  closing,  \* closes that are last but have yet to invalidate the label
  call,     \* the ioctl of each caller
  walk,     \* the table that a holder of dk_bbh_mutex as reader looks into
  altsver,  \* the version of the table on the disk
  diskid,   \* the devid on the disk
  least,    \* history: the version on the disk before the last ADDBAD
  spoiled   \* history: I/O errors on the devid, or setups that overlapped

unitVars == <<soft, got, maxinst, dk>>
specVars == <<opens, exclusive, closing>>
diskVars == <<altsver, diskid, least, spoiled>>
cmdkVars == <<soft, got, maxinst, dk, opens, exclusive, closing, call, walk,
              altsver, diskid, least, spoiled>>

Fresh == [flag |-> {}, reg |-> [o \in RegTypes |-> {}],
          lyr |-> [p \in Parts |-> 0], exl |-> {},
          label |-> "invalid", alts |-> NoTable, devid |-> NoDevid]
Idle  == [op |-> "none", at |-> "none", unit |-> 0, from |-> 0, read |-> 0,
          alone |-> TRUE]

CmdkInit ==
  /\ soft = [u \in Units |-> "none"] /\ got = [u \in Units |-> {}]
  /\ maxinst = 0 /\ dk = [u \in Units |-> Fresh]
  /\ opens = [u \in Units |-> [x \in Parts \X OTypes |-> 0]]
  /\ exclusive = [u \in Units |-> {}] /\ closing = [u \in Units |-> {}]
  /\ call = [c \in Callers |-> Idle]
  /\ walk = [u \in Units |-> NoTable]
  /\ altsver = [u \in Units |-> NoTable]
  /\ \E id \in {NoDevid, "written"} : diskid = [u \in Units |-> id]
  /\ least = [u \in Units |-> NoTable] /\ spoiled = {}

Opened(u) == {x \in Parts \X OTypes : opens[u][x] > 0}
InCall(u) == {c \in Callers : call[c].op # "none" /\ call[c].unit = u}

(* cmlb_validate and cmlb_partinfo: with no label it is read, if it can be. *)
Labels(u) == {dk[u].label} \cup IF dk[u].label = "invalid" THEN {"read"} ELSE {}

-----------------------------------------------------------------------------
(* probe, attach, detach                                                   *)

(* cmdk_create_obj: the queue and flow control of the unit, and its dadk,  *)
(* given the property that is missing or unknown, if one is: when that is  *)
(* "flow_control", the queue is there already.                             *)
CreateObj(r, bad) ==
  CASE bad = "queue"        -> r
    [] bad = "flow_control" -> r \cup {"queobj"}
    [] bad = "none"         -> r \cup {"queobj", "flcobj", "tgobj"}
(* cmdk_destroy_obj, with dadk_cleanup, which frees the former two. The    *)
(* bad block table is not cmdk_bbh_ops's to free.                          *)
Cleanup(r)    == r \ {"flcobj", "queobj"}
DestroyObj(r) == Cleanup(r) \ {"tgobj"}

(* dk_alts_hdl and dk_devid, as something to be freed.                     *)
Table(r, v)  == IF v = NoTable THEN r \ {"alts"} ELSE r \cup {"alts"}
Devid(r, id) == IF id = NoDevid THEN r ELSE r \cup {"devid"}

(* dadk_open and dadk_close, by the statistics they start and stop.        *)
DadkOpen(r)  == r \cup {"kstat"}
DadkClose(r) == r \ {"kstat"}

(* cmdkprobe, given what dadk_probe returns; when that fails everything is *)
(* undone, when cmdk_create_obj does, only the locks are.                  *)
(* The new soft state knows nothing of what an earlier one may have left.  *)
Probe(u, ok) ==
  /\ soft[u] = "none"
  /\ \/ /\ ok
        /\ soft' = [soft EXCEPT ![u] = "probed"]
        /\ got' = [got EXCEPT ![u] = CreateObj({"locks"}, "none")]
        /\ dk' = [dk EXCEPT ![u] = Fresh]
     \/ \E objs \in {CreateObj({"locks"}, "queue"), CreateObj({"locks"}, "flow_control"),
                     DestroyObj(CreateObj({"locks"}, "none"))} :
          /\ got' = [got EXCEPT ![u] = objs \ {"locks"}]
          /\ UNCHANGED <<soft, dk>>
  /\ UNCHANGED <<maxinst, specVars, call, walk, diskVars>>

(* What cmdk_devid_setup may leave, as the devid of the unit, the one on   *)
(* the disk, and whether an I/O error had a part in it: the model and      *)
(* serial number; else what is on the disk; else a new one that is written *)
(* there, unless there is no room for it.                                  *)
DevidRead(u) == IF diskid[u] = NoDevid THEN {} ELSE {<<diskid[u], diskid[u], FALSE>>}

DevidSetupBlind(u, new) ==  \* a slip: the disk is not looked at
  {<<"serial", diskid[u], FALSE>>, <<NoDevid, diskid[u], FALSE>>}
  \cup {<<new, new, FALSE>>, <<new, diskid[u], TRUE>>}
DevidSetup(u, new) ==
  {<<"serial", diskid[u], FALSE>>, <<NoDevid, diskid[u], FALSE>>}
  \cup DevidRead(u)
  \cup {<<new, new, diskid[u] # NoDevid>>, <<new, diskid[u], TRUE>>}

(* fail2 of cmdkattach, when dadk_open failed, and fail1, when cmlb_attach *)
(* did, which closes the target first.                                     *)
AttachFails(u) ==
  \E opened \in BOOLEAN :
    LET r == IF opened THEN DadkClose((DadkOpen(got[u]) \cup {"cmlb"}) \ {"cmlb"})
             ELSE got[u]
    IN got' = [got EXCEPT ![u] = DestroyObj(r) \ {"locks"}]

(* cmdkattach, under dk_mutex. The counts per slice of a table stay when   *)
(* it is given up as in BbhInstall.                                        *)
AsAttached(u, l, a, id) ==
  [dk[u] EXCEPT !.flag = @ \cup {"CMDK_TGDK_OPEN"}, !.label = l, !.alts = a, !.devid = id]
AttachUnit(u) ==
  /\ soft[u] = "probed"
  /\ \/ /\ soft' = [soft EXCEPT ![u] = "attached"]
        /\ \E l \in Labels(u), a \in {NoTable, altsver[u]}, d \in DevidSetup(u, "attach"),
              slc \in SUBSET {"slc"} :
             /\ a # NoTable => l # "invalid" /\ slc # {}
             /\ slc # {} => altsver[u] # NoTable
             /\ LET r == DadkOpen(got[u]) \cup {"cmlb"} \cup slc
                IN got' = [got EXCEPT ![u] = Devid(Table(r, a), d[1])]
             /\ dk' = [dk EXCEPT ![u] = AsAttached(u, l, a, d[1])]
             /\ diskid' = [diskid EXCEPT ![u] = d[2]]
             /\ spoiled' = IF d[3] THEN spoiled \cup {u} ELSE spoiled
        /\ maxinst' = IF u > maxinst THEN u ELSE maxinst
     \/ /\ soft' = [soft EXCEPT ![u] = "none"]
        /\ AttachFails(u)
        /\ UNCHANGED <<dk, diskid, spoiled, maxinst>>
  /\ UNCHANGED <<specVars, call, walk, altsver, least>>

(* cmdkdetach looks for an open unit below the highest; CMDK_OPEN is never *)
(* cleared, so a unit counts as open once it was. Nothing gives back the   *)
(* bad block table, its counts per slice (cmdk_bbh_free_alts, which would, *)
(* is not called), and the devid.                                          *)
DetachUnit(u) ==
  /\ soft[u] = "attached" /\ Opened(u) = {} /\ closing[u] = {}  \* the framework
  /\ \A i \in Units : i < maxinst /\ soft[i] # "none" => "CMDK_OPEN" \notin dk[i].flag
  /\ soft' = [soft EXCEPT ![u] = "none"]
  /\ LET r == IF "CMDK_TGDK_OPEN" \in dk[u].flag THEN DadkClose(got[u]) ELSE got[u]
     IN got' = [got EXCEPT ![u] = DestroyObj(r) \ {"cmlb", "locks"}]
  /\ dk' = [dk EXCEPT ![u] = Fresh]
  /\ least' = [least EXCEPT ![u] = NoTable]
  /\ UNCHANGED <<maxinst, specVars, call, walk, altsver, diskid, spoiled>>

-----------------------------------------------------------------------------
(* open and close                                                          *)

MayOpenForgetsLyr(u, p, excl) ==  \* a slip: layered opens do not bar FEXCL
  /\ p \notin dk[u].exl
  /\ excl => \A o \in RegTypes : p \notin dk[u].reg[o]
(* The exclusive-open tests of cmdkopen.                                   *)
MayOpen(u, p, excl) ==
  /\ p \notin dk[u].exl
  /\ excl => dk[u].lyr[p] = 0 /\ \A o \in RegTypes : p \notin dk[u].reg[o]

(* cmdkopen, under dk_mutex. With no label, or none of its own partitions, *)
(* it is a non-blocking open.                                              *)
AsOpened(u, p, o, excl, l) ==
  [dk[u] EXCEPT !.label = l, !.flag = @ \cup {"CMDK_OPEN"},
                !.reg = [q \in RegTypes |-> IF q = o THEN @[q] \cup {p} ELSE @[q]],
                !.lyr[p] = IF o = "lyr" THEN @ + 1 ELSE @,
                !.exl = IF excl THEN @ \cup {p} ELSE @]
Open(u, p, o, excl) ==
  /\ soft[u] = "attached" /\ <<p, o>> \notin closing[u]
  /\ MayOpen(u, p, excl)
  /\ \E l \in Labels(u) : dk' = [dk EXCEPT ![u] = AsOpened(u, p, o, excl, l)]
  /\ opens' = [opens EXCEPT ![u][<<p, o>>] = @ + 1]
  /\ exclusive' = [exclusive EXCEPT ![u] = IF excl THEN @ \cup {<<p, o>>} ELSE @]
  /\ UNCHANGED <<soft, got, maxinst, closing, call, walk, diskVars>>

(* A use of the label: an open that fails, cmdkstrategy, cmdkdump,         *)
(* cmdk_prop_op, DKIOCSTATE, DKIOCPARTINFO.                                *)
UseLabel(u) ==
  /\ soft[u] = "attached"
  /\ \E l \in Labels(u) : dk' = [dk EXCEPT ![u].label = l]
  /\ UNCHANGED <<soft, got, maxinst, specVars, call, walk, diskVars>>

Closed(u, p, o) ==
  [dk[u] EXCEPT !.reg = [q \in RegTypes |-> IF q = o THEN @[q] \ {p} ELSE @[q]],
                !.lyr[p] = IF o = "lyr" /\ @ > 0 THEN @ - 1 ELSE @,
                !.exl = @ \ {p}]
LastCloseEarly(u, d) ==  \* a slip: the tests see the accounts before the close
  /\ \A p \in Parts : dk[u].lyr[p] = 0
  /\ \A o \in RegTypes : dk[u].reg[o] = {}
(* lastclose of cmdkclose, given the unit after the close.                 *)
LastClose(u, d) ==
  /\ \A p \in Parts : d.lyr[p] = 0
  /\ \A o \in RegTypes : d.reg[o] = {}

(* A close. cmdkclose, under dk_mutex, if specfs calls it; the label that  *)
(* was read for these opens is then to be forgotten.                       *)
Close(u, p, o) ==
  LET n     == opens[u][<<p, o>>]
      d     == Closed(u, p, o)
      left  == [opens EXCEPT ![u][<<p, o>>] = n - 1]
  IN /\ n > 0 /\ <<p, o>> \notin closing[u]
     /\ (\A x \in Parts \X OTypes : left[u][x] = 0) =>   \* an open in use stays
          InCall(u) = {} /\ walk[u] = NoTable
     /\ opens' = left
     /\ exclusive' = [exclusive EXCEPT ![u] = @ \ {<<p, o>>}]
     /\ IF o = "lyr" \/ n = 1
        THEN /\ dk' = [dk EXCEPT ![u] = IF (\A x \in Parts \X OTypes : left[u][x] = 0)
                                             /\ d.label = "read"
                                        THEN [d EXCEPT !.label = "stale"] ELSE d]
             /\ closing' = [closing EXCEPT ![u] = IF LastClose(u, d) THEN @ \cup {<<p, o>>}
                                                  ELSE @]
        ELSE UNCHANGED <<dk, closing>>
     /\ UNCHANGED <<soft, got, maxinst, call, walk, diskVars>>

(* The end of cmdkclose, with no mutex held.                               *)
Invalidate(u, x) ==
  /\ x \in closing[u]
  /\ closing' = [closing EXCEPT ![u] = @ \ {x}]
  /\ dk' = [dk EXCEPT ![u].label = "invalid"]
  /\ UNCHANGED <<soft, got, maxinst, opens, exclusive, call, walk, diskVars>>

-----------------------------------------------------------------------------
(* the bad block table                                                     *)

(* addbadsec writes a table.                                               *)
WriteTable(u) ==
  /\ Opened(u) # {} /\ altsver[u] < MaxVersion
  /\ altsver' = [altsver EXCEPT ![u] = @ + 1]
  /\ UNCHANGED <<unitVars, specVars, call, walk, diskid, least, spoiled>>

(* A caller enters an ioctl; others of its kind are told they have company. *)
Enter(c, u, op, at) ==
  LET same == {b \in InCall(u) : call[b].op = op}
      with == [b \in Callers |->
                 IF b \in same THEN [call[b] EXCEPT !.alone = FALSE] ELSE call[b]]
  IN /\ call[c].op = "none" /\ Opened(u) # {}
     /\ call' = [with EXCEPT ![c] = [op |-> op, at |-> at, unit |-> u, read |-> 0,
                                     from |-> altsver[u], alone |-> same = {}]]

(* DKIOCADDBAD.                                                            *)
AddBad(c, u) ==
  /\ Enter(c, u, "addbad", "read")
  /\ UNCHANGED <<unitVars, specVars, walk, diskVars>>

(* The first half of cmdk_bbh_reopen, under no lock: the slice is found    *)
(* and the header of its table read, ...                                   *)
BbhHeader(c) ==
  LET u == call[c].unit
  IN /\ call[c].op = "addbad" /\ call[c].at = "read"
     /\ \E l \in Labels(u), v \in {NoTable, altsver[u]} :
          /\ l = "invalid" => v = NoTable
          /\ dk' = [dk EXCEPT ![u].label = l]
          /\ call' = [call EXCEPT ![c].at = IF v = NoTable THEN "install" ELSE "table",
                                 ![c].read = v]
     /\ UNCHANGED <<soft, got, maxinst, specVars, walk, diskVars>>

(* ... then the entries, as many as it says and from where it says. They   *)
(* may be newer; the table counts as old as its header. Or one of the two  *)
(* cannot be used.                                                         *)
BbhTable(c) ==
  /\ call[c].op = "addbad" /\ call[c].at = "table"
  /\ \E v \in {NoTable, call[c].read} :
       call' = [call EXCEPT ![c].at = "install", ![c].read = v]
  /\ UNCHANGED <<unitVars, specVars, walk, diskVars>>

BbhLockShared(u) == TRUE  \* a slip: the lock is taken as reader
(* rw_enter(RW_WRITER) waits for the readers.                              *)
BbhLock(u) == walk[u] = NoTable

InstalledOnce(u, v) ==  \* a slip: a table that is there is kept
  IF dk[u].alts = NoTable THEN v ELSE dk[u].alts
(* The table that was there is freed.                                      *)
Installed(u, v) == v

(* Its second half, with dk_bbh_mutex as writer. Slices that cannot be     *)
(* found any more give the new table up, too, but not the counts.          *)
BbhInstall(c) ==
  LET u == call[c].unit
      r == IF call[c].read = NoTable THEN got[u] ELSE got[u] \cup {"slc"}
  IN /\ call[c].op = "addbad" /\ call[c].at = "install" /\ BbhLock(u)
     /\ \E v \in {NoTable, call[c].read} :
          /\ dk' = [dk EXCEPT ![u].alts = Installed(u, v)]
          /\ got' = [got EXCEPT ![u] = Table(r, Installed(u, v))]
          /\ least' = [least EXCEPT ![u] = IF call[c].alone THEN call[c].from ELSE @]
     /\ call' = [call EXCEPT ![c] = Idle]
     /\ UNCHANGED <<soft, maxinst, specVars, walk, altsver, diskid, spoiled>>

(* cmdk_bbh_gethandle: a look without the lock, one with it, and a walk    *)
(* through the table that ends with rw_exit.                               *)
Walk(u) ==
  /\ Opened(u) # {} /\ walk[u] = NoTable /\ dk[u].alts # NoTable
  /\ walk' = [walk EXCEPT ![u] = dk[u].alts]
  /\ UNCHANGED <<unitVars, specVars, call, diskVars>>

WalkDone(u) ==
  /\ walk[u] # NoTable
  /\ walk' = [walk EXCEPT ![u] = NoTable]
  /\ UNCHANGED <<unitVars, specVars, call, diskVars>>

-----------------------------------------------------------------------------
(* the device identity                                                     *)

(* DKIOCSVTOC: cmlb writes a label, or fails, then cmdk_devid_setup, which *)
(* is done if there is a devid.                                            *)
SetVtoc(c, u) ==
  /\ \E l \in {dk[u].label, "read"} : dk' = [dk EXCEPT ![u].label = l]
  /\ IF dk[u].devid = NoDevid
     THEN Enter(c, u, "svtoc", "setup")
     ELSE call[c].op = "none" /\ Opened(u) # {} /\ UNCHANGED call
  /\ UNCHANGED <<soft, got, maxinst, specVars, walk, diskVars>>

Register(c, u, id) ==
  /\ dk' = [dk EXCEPT ![u].devid = id]
  /\ got' = [got EXCEPT ![u] = Devid(@, id)]
  /\ call' = [call EXCEPT ![c] = Idle]
  /\ spoiled' = IF call[c].alone THEN spoiled ELSE spoiled \cup {u}

(* cmdk_devid_modser and cmdk_devid_read; when both fail, a block that     *)
(* could not be read counts as one with no devid.                          *)
DevidLook(c) ==
  LET u == call[c].unit
  IN /\ call[c].op = "svtoc" /\ call[c].at = "setup"
     /\ \/ Register(c, u, "serial")
        \/ diskid[u] # NoDevid /\ Register(c, u, diskid[u])
        \/ /\ call' = [call EXCEPT ![c].at = "write"] /\ UNCHANGED <<dk, got>>
           /\ spoiled' = IF diskid[u] # NoDevid \/ ~call[c].alone
                         THEN spoiled \cup {u} ELSE spoiled
     /\ UNCHANGED <<soft, maxinst, specVars, walk, altsver, diskid, least>>

(* cmdk_devid_fabricate: a new devid goes to the disk; whether it got      *)
(* there is not asked. With no block for it, there is none.                *)
DevidWrite(c) ==
  LET u == call[c].unit
  IN /\ call[c].op = "svtoc" /\ call[c].at = "write"
     /\ \/ /\ diskid' = [diskid EXCEPT ![u] = c]
           /\ spoiled' = IF call[c].alone THEN spoiled ELSE spoiled \cup {u}
           /\ call' = [call EXCEPT ![c].at = "keep"] /\ UNCHANGED <<dk, got>>
        \/ /\ spoiled' = spoiled \cup {u}
           /\ call' = [call EXCEPT ![c].at = "keep"] /\ UNCHANGED <<dk, got, diskid>>
        \/ UNCHANGED diskid /\ Register(c, u, NoDevid)
     /\ UNCHANGED <<soft, maxinst, specVars, walk, altsver, least>>

DevidKeep(c) ==
  /\ call[c].op = "svtoc" /\ call[c].at = "keep"
  /\ Register(c, call[c].unit, c)
  /\ UNCHANGED <<soft, maxinst, specVars, walk, altsver, diskid, least>>

-----------------------------------------------------------------------------
UnitStep(u) ==
  \/ AttachUnit(u) \/ DetachUnit(u) \/ UseLabel(u) \/ WriteTable(u)
  \/ \E p \in Parts, o \in OTypes :
       \/ Close(u, p, o) \/ Invalidate(u, <<p, o>>)
       \/ /\ Cardinality(Opened(u)) < MaxOpens /\ opens[u][<<p, o>>] < MaxOpens
          /\ \E excl \in BOOLEAN : Open(u, p, o, excl)
  \/ Walk(u) \/ WalkDone(u)
  \/ \E c \in Callers : AddBad(c, u) \/ SetVtoc(c, u)

CallStep(c) ==
  BbhHeader(c) \/ BbhTable(c) \/ BbhInstall(c) \/ DevidLook(c) \/ DevidWrite(c) \/ DevidKeep(c)

-----------------------------------------------------------------------------
Devids == {NoDevid, "written", "attach", "serial"} \cup Callers
Dks == [flag : SUBSET {"CMDK_OPEN", "CMDK_TGDK_OPEN"},
        reg : [RegTypes -> SUBSET Parts], lyr : [Parts -> Nat], exl : SUBSET Parts,
        label : {"invalid", "read", "stale"}, alts : 0 .. MaxVersion, devid : Devids]
Things == {"locks", "queobj", "flcobj", "tgobj", "kstat", "cmlb", "slc", "alts", "devid"}
Calls == [op : {"none", "addbad", "svtoc"}, unit : Units \cup {0},
          at : {"none", "read", "table", "install", "setup", "write", "keep"},
          from : 0 .. MaxVersion, read : 0 .. MaxVersion, alone : BOOLEAN]

CmdkTypeOK ==
  /\ soft \in [Units -> {"none", "probed", "attached"}] /\ maxinst \in Units \cup {0}
  /\ got \in [Units -> SUBSET Things]
  /\ dk \in [Units -> Dks] /\ call \in [Callers -> Calls]
  /\ opens \in [Units -> [Parts \X OTypes -> Nat]]
  /\ exclusive \in [Units -> SUBSET (Parts \X OTypes)]
  /\ closing \in [Units -> SUBSET (Parts \X OTypes)]
  /\ walk \in [Units -> 0 .. MaxVersion] /\ altsver \in [Units -> 0 .. MaxVersion]
  /\ diskid \in [Units -> Devids] /\ least \in [Units -> 0 .. MaxVersion]
  /\ spoiled \subseteq Units

(* Of a unit that is gone, after a detach or a probe or attach that failed *)
(* at any point, nothing is left that these acquired but the queue of a    *)
(* cmdk_create_obj that failed, or else the bad block table, its counts    *)
(* and the devid. While it is attached, no table is lost: there is one to  *)
(* be freed if dk_alts_hdl names one, and the counts that                  *)
(* cmdk_bbh_gethandle reads are there with it (cmdk_bbh_reopen).           *)
UnitsGivenBack ==
  \A u \in Units :
    /\ soft[u] = "none" => got[u] = {"queobj"} \/ got[u] \subseteq {"slc", "alts", "devid"}
    /\ "alts" \in got[u] => "slc" \in got[u]
    /\ soft[u] = "attached" => ("alts" \in got[u] <=> dk[u].alts # NoTable)

(* The accounts of cmdkopen and cmdkclose agree with what is open, though  *)
(* cmdkclose is not told of every close, and clears the exclusive bit for  *)
(* whoever closes. An exclusive open is the only open of its partition.    *)
OpensAccounted ==
  \A u \in Units :
    /\ \A o \in RegTypes : dk[u].reg[o] = {p \in Parts : opens[u][<<p, o>>] > 0}
    /\ \A p \in Parts : dk[u].lyr[p] = opens[u][<<p, "lyr">>]
    /\ dk[u].exl = {x[1] : x \in exclusive[u]}
    /\ \A x \in exclusive[u] :
         \A o \in OTypes : opens[u][<<x[1], o>>] = IF o = x[2] THEN 1 ELSE 0

(* A label read before the last close is used after it only as long as a   *)
(* cmdkclose is on its way to cmlb_invalidate: whoever opens the disk then *)
(* sees the label that is on it.                                           *)
LabelFresh == \A u \in Units : dk[u].label = "stale" => closing[u] # {}

(* After a DKIOCADDBAD that overlapped no other, the table in use, if      *)
(* there is one, is no older than what was on the disk when the ioctl      *)
(* began.                                                                  *)
BbhFresh ==
  \A u \in Units : dk[u].alts # NoTable => dk[u].alts >= least[u]

(* The table that cmdk_bbh_gethandle walks through is not freed under it.  *)
BbhStable == \A u \in Units : walk[u] # NoTable => dk[u].alts = walk[u]
=============================================================================
