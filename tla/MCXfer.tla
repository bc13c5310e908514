------------------------------- MODULE MCXfer -------------------------------
(***************************************************************************)
(* Disks for module DadkTransfer under TLC. The transfer begins at sector  *)
(* 8 of a slice that begins at sector 6. With registers of four values and *)
(* two heads, 28-bit mode reaches sector 126 and a 16-bit word holds 15.   *)
(*                                                                         *)
(* A transfer of six sectors meets all the cases of cmdk_bbh_gethandle,    *)
(* alone and in a row, and the search goes left, right and out of range.   *)
(* Alternates of the 48-bit disk lie beyond what 28 bits address. The      *)
(* other disks cover the addressing modes: 48-bit words to be ignored, no  *)
(* room to double the heads, CHS with valid and with invalid current       *)
(* words, and a BIOS that agrees with the disk or does not. One of them    *)
(* has no bad sectors, so that DMA meets a section with ap_count 0.        *)
(***************************************************************************)
EXTENDS DadkTransfer

MCNoTable == <<>>
MCTables ==
  { MCNoTable,
    <<Entry(1, 1, 230), Entry(17, 17, 232)>>,                  \* none here
    <<Entry(7, 16, 230)>>,                                     \* all
    <<Entry(6, 8, 230), Entry(9, 9, 240), Entry(11, 12, 250)>>, \* head, middle
    <<Entry(9, 10, 230), Entry(11, 15, 240)>>,                 \* middle, tail
    <<Entry(3, 3, 230), Entry(4, 4, 231), Entry(5, 5, 232),    \* only the
      Entry(6, 7, 233), Entry(10, 10, 236)>> }                 \* last
MCNear == <<Entry(9, 10, 30), Entry(11, 15, 40)>>

Bios(c, h, s) == [cyl |-> c, head |-> h, sec |-> s]
(* ATA-7 with 300 sectors.                                                 *)
MCBig == [versions |-> {4, 5, 6, 7}, lba |-> TRUE, valid |-> TRUE,
          curcyls |-> 15, curheads |-> 2, cursectrk |-> 3, cursccp |-> 90,
          fixcyls |-> 15, heads |-> 2, sectors |-> 3,
          cap28 |-> Max28, ext48 |-> TRUE, cap48 |-> 300]
MCOld == [MCBig EXCEPT !.versions = {}, !.lba = FALSE, !.ext48 = FALSE,
                       !.cap28 = 0, !.cap48 = 0]

Disk(id, bios, table) == [id |-> id, bios |-> bios, table |-> table]
MCDisks ==
  {Disk(MCBig, NoBios, t) : t \in MCTables} \cup
  { Disk([MCBig EXCEPT !.cap28 = 120], NoBios, MCNear),
    Disk([MCBig EXCEPT !.cap48 = 120, !.cap28 = 120, !.fixcyls = 0],
         Bios(8, 3, 4), MCNear),
    Disk([MCBig EXCEPT !.heads = 8, !.sectors = 1], NoBios, MCNear),
    Disk([MCBig EXCEPT !.versions = {3}, !.lba = FALSE, !.fixcyls = 8],
         Bios(7, 2, 3), MCNear),
    Disk(MCOld, NoBios, MCNear), Disk(MCOld, NoBios, MCNoTable),
    Disk([MCOld EXCEPT !.cursccp = 91, !.fixcyls = 8], Bios(5, 2, 3), MCNear),
    Disk([MCOld EXCEPT !.curcyls = 8, !.cursccp = 48], Bios(4, 4, 3), MCNear) }
MCPlain == {Disk(MCBig, NoBios, MCNoTable)}
MCRemap == {Disk(MCBig, NoBios, t) : t \in MCTables}
=============================================================================
