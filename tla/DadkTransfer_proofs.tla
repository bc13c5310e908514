------------------------ MODULE DadkTransfer_proofs ------------------------
(***************************************************************************)
(* Proofs about module DadkTransfer and the algorithms it is built on:     *)
(* the search and the cookies of module BadBlocks and the addressing of    *)
(* module AtaGeometry, for transfers, tables and disks of any size.        *)
(***************************************************************************)
EXTENDS DadkTransfer, SequenceTheorems, WellFoundedInduction, TLAPS

(***************************************************************************)
(* The inductive invariant. Its parts are predicates on the direction dr,  *)
(* the DMA choice m, the disk d, the packet p, the drive v and the sectors *)
(* mv that have moved, so that they read alike before and after a step.    *)

CookieSet == [sector : Nat, seclen : Nat \ {0}]
PktSet ==
  [byteleft : 0 .. N, bytexfer : 0 .. N, srtsec : Nat, secleft : 0 .. N,
   retry : 0 .. RetryCount + 1, cp_resid : Nat,
   flags : SUBSET {"ERROR", "TIMEOUT", "BUS_RESET"},
   error : {"none", "UNC", "ABRT", "BUSY"},
   v_addr : 0 .. N, v_addr_sav : 0 .. N, resid : Nat,
   bytes_per_block : {1, Factor}, count : 0 .. MaxTransfer, startsec : Nat,
   wrt_count : 0 .. N, sg : 0 .. N, cursor : 0 .. N, cookies : Seq(CookieSet),
   h_idx : Nat]
DevSet ==
  [state : {"idle", "busy", "drq", "error", "error_drq"}, lba : Nat,
   left : 0 .. N, first : Nat, block : 0 .. N, irq : BOOLEAN,
   error : {"none", "UNC", "ABRT", "bus"}]

Types ==
  /\ at \in Places /\ dir \in Dirs /\ dma \in Dmas /\ disk \in Disks
  /\ pkt \in PktSet /\ dev \in DevSet
  /\ bp \in [resid : Nat, error : {"none", "EIO", "ENXIO"}]
  /\ errors \in 0 .. MaxErrors /\ faulted \in BOOLEAN /\ slow \in 0 .. MaxSlow
  /\ alts = SliceEntries(disk.table, SliceFirst, SliceLast)

(* Where sector i is on the disk, whether it has been moved to its place,  *)
(* and whether the n sectors from a on have.                               *)
Place(d, i) == Home(d.table, FirstSec + i)
Kept(dr, d, mv, i) ==
  LET to   == IF dr = "read" THEN i ELSE Place(d, i)
      from == IF dr = "read" THEN Place(d, i) ELSE i
  IN to \in DOMAIN mv /\ mv[to] = from
Held(dr, d, mv, a, n) == \A i \in a .. a + n - 1 : Kept(dr, d, mv, i)

(* Sectors of the sections before this one, and those of this one that     *)
(* count as moved.                                                         *)
Before(p)  == N - p.byteleft
Counted(p) == p.bytexfer - p.resid

(* Cookies cut a transfer if those before the k-th hold start[k] sectors.  *)
Cut(d, cs, start) ==
  /\ start \in [1 .. Len(cs) + 1 -> 0 .. N]
  /\ start[1] = 0 /\ start[Len(cs) + 1] = N
  /\ \A k \in 1 .. Len(cs) :
       /\ start[k + 1] = start[k] + cs[k].seclen
       /\ \A j \in 0 .. cs[k].seclen - 1 : Place(d, start[k] + j) = cs[k].sector + j

(* What is left of the cookie at hand ends at sector e, and the cookies    *)
(* behind it go on there.                                                  *)
Behind(d, p, e) ==
  \E start \in [1 .. Len(p.cookies) + 1 -> 0 .. N] :
    /\ Cut(d, p.cookies, start)
    /\ p.h_idx \in 1 .. Len(p.cookies) + 1 /\ start[p.h_idx] = e

(* The section that is set up: where it lies, in its cookie and on disk.   *)
Lies(m, d, p) ==
  /\ p.bytexfer > 0 /\ p.bytexfer <= MaxTransfer /\ p.startsec = p.srtsec
  /\ p.count = IF Ext48(d.id) THEN p.bytexfer ELSE p.bytexfer % Reg
  /\ p.bytexfer <= p.secleft /\ Before(p) + p.secleft <= N
  /\ \A j \in 0 .. p.secleft - 1 : Place(d, Before(p) + j) = p.srtsec + j
  /\ IF p.cookies = <<>> THEN Before(p) + p.secleft = N
     ELSE Behind(d, p, Before(p) + p.secleft)
  /\ IF m
     THEN p.cookies = <<>> /\ p.sg = Before(p) /\ p.cursor = Before(p) + p.bytexfer
     ELSE p.v_addr_sav = Before(p)

(* The residual of a section that met trouble (u) and whose count register *)
(* does not hold its length is not to be relied on (Misled).               *)
Hit == errors + slow > 0
Mis(m, p, u) == m /\ p.count = 0 /\ u

(* How far it is. A DMA that is tried again keeps the resid of the failure.*)
Progress(a, m, p, u) ==
  /\ Mis(m, p, u) \/ (p.resid <= p.bytexfer /\ p.cp_resid <= p.bytexfer)
  /\ p.retry <= RetryCount
  /\ ~m => p.v_addr = Before(p) + Counted(p)
  /\ a \in {"queued", "poll_start", "intr"} /\ ~m => p.resid = p.bytexfer
  /\ a \in {"poll_start", "intr"} => p.wrt_count = 0
  /\ a \in {"complete", "backoff"} => p.cp_resid = p.resid
  /\ a = "complete" /\ p.flags = {} => p.resid = 0

(* What the flags say, where the request is.                               *)
Flags(a, dr, m, p) ==
  /\ a \in {"queued", "poll_start"} => p.flags = {}
  /\ a \in {"wait", "intr", "poll_next"} => p.flags \subseteq {"ERROR"}
  /\ a \in {"poll_start", "intr", "poll_next"} => dr = "write" /\ ~m
  /\ a = "backoff" => "ERROR" \in p.flags

(* An error of a DMA has been counted.                                     *)
Trouble(m, p, v, u) == m /\ ("ERROR" \in p.flags \/ v.error # "none") => u

(* How far the drive is.                                                   *)
Reading(a, dr, m, p, v) ==
  a = "wait" /\ dr = "read" /\ ~m =>
    /\ p.resid > 0 /\ v.left = p.resid
    /\ v.lba = p.startsec + Counted(p)
    /\ v.state # "idle" /\ (v.irq => v.state # "busy")
    /\ v.state = "drq" /\ v.irq => v.block = Least(v.left, Factor)

Chunk(a, p) == IF a = "poll_next" THEN 0 ELSE p.wrt_count  \* not yet confirmed
Polling == {"poll_start", "intr", "poll_next"}
Writing(a, dr, m, p, v) ==
  a \in {"wait"} \cup Polling /\ dr = "write" /\ ~m =>
    /\ p.resid > 0 /\ Chunk(a, p) <= p.resid
    /\ v.left = p.resid - Chunk(a, p)
    /\ v.lba = p.startsec + Counted(p) + Chunk(a, p)
    /\ v.first \in p.startsec + Counted(p) .. v.lba
    /\ v.irq => v.state # "busy" /\ (a \in Polling => v.state = "error")
    /\ v.irq /\ v.state # "error" => v.first = v.lba
    /\ v.state = "drq" /\ (v.irq \/ a \in Polling) => v.block = Least(v.left, Factor)
    /\ a = "poll_next" /\ v.state = "busy" => p.wrt_count = 0 /\ p.resid = p.bytexfer
Written(a, dr, m, d, p, v, mv) ==
  a \in {"wait"} \cup Polling /\ dr = "write" /\ ~m /\ v.state # "error" =>
    Held(dr, d, mv, Before(p) + Counted(p), Chunk(a, p))

DmaRuns(a, dr, m, d, p, v, mv, f) ==
  a = "wait" /\ m =>
    /\ v.irq <=> v.state # "busy"
    /\ v.left = p.bytexfer
    /\ ~v.irq => v.lba = p.startsec
    /\ v.irq /\ v.error = "none" => Held(dr, d, mv, Before(p), p.bytexfer)
    /\ v.irq /\ v.error \in {"UNC", "ABRT"} =>
         /\ v.lba \in p.startsec .. p.startsec + p.bytexfer - 1
         /\ Held(dr, d, mv, Before(p), v.lba - p.startsec)
    /\ v.irq /\ v.error \in {"none", "bus"} => v.lba = p.startsec + p.bytexfer - 1
    /\ v.irq /\ v.error = "bus" => f

Working == {"poll_start", "intr", "poll_next", "wait"}
Drives(a, dr, m, v) ==
  /\ v.state = "busy" => a \in Working
  /\ v.state = "error_drq" => ErrorData /\ dr = "read" /\ ~m
  /\ v.error = "bus" => m

(* What counts as moved is in place, and nothing is moved elsewhere.       *)
MovedIn(dr, d, mv) ==
  IF dr = "read" THEN DOMAIN mv \subseteq 0 .. N - 1
  ELSE /\ DOMAIN mv \subseteq {Place(d, i) : i \in 0 .. N - 1}
       /\ \A i \in DOMAIN mv : mv[i] \in 0 .. N - 1
Over(dr, m) == IF ErrorData /\ dr = "read" /\ ~m THEN Factor ELSE 0
Doubt(a, dr, m, p) == IF "ERROR" \in p.flags /\ a # "wait" THEN Over(dr, m) ELSE 0
Sure(a, dr, m, d, p, mv, f, u) ==
  /\ Held(dr, d, mv, 0, Before(p))
  /\ ~(m /\ f) /\ ~Mis(m, p, u) =>
       Held(dr, d, mv, Before(p), Counted(p) - Doubt(a, dr, m, p))
  /\ a = "complete" /\ p.flags = {} => Held(dr, d, mv, Before(p), p.bytexfer)

(* No DMA meets a bad sector.                                              *)
Unmapped == dma => GetHandle(alts, FirstSec, N) = <<>>

Going ==
  /\ Lies(dma, disk, pkt) /\ Progress(at, dma, pkt, Hit) /\ Flags(at, dir, dma, pkt)
  /\ Sure(at, dir, dma, disk, pkt, moved, faulted, Hit)
  /\ bp = [resid |-> 0, error |-> "none"]
DriveInv ==
  /\ Reading(at, dir, dma, pkt, dev) /\ Writing(at, dir, dma, pkt, dev)
  /\ Written(at, dir, dma, disk, pkt, dev, moved)
  /\ DmaRuns(at, dir, dma, disk, pkt, dev, moved, faulted)
  /\ Drives(at, dir, dma, dev)
Ended ==
  at = "finished" => Misled \/ {pkt.resid, pkt.cp_resid, bp.resid} \subseteq 0 .. N
TransferInv ==
  /\ Types /\ MovedIn(dir, disk, moved) /\ DriveInv /\ Trouble(dma, pkt, dev, Hit)
  /\ at # "finished" => Going
  /\ ErrorBlock /\ Correct /\ ErrorResid /\ Ended
-----------------------------------------------------------------------------
(* Recursive functions. The library's theorems on induction and recursion  *)
(* take operators; these take sets and functions.                          *)

Less == {p \in Nat \X Nat : p[1] < p[2]}

(* A set of naturals has a least element.                                  *)
LEMMA LeastNat ==
  ASSUME NEW T, T \subseteq Nat, T # {}
  PROVE  \E x \in T : \A y \in T : x <= y
<1>1. Less = OpToRel(<, Nat)
  BY Zenon DEF Less, OpToRel
<1>2. IsWellFoundedOn(Less, Nat)
  BY <1>1, NatLessThanWellFounded, Zenon
<1>3. PICK x \in T : \A y \in T : ~ (<<y, x>> \in Less)
  BY <1>2, WFMin, Zenon
<1>4. \A y \in T : ~(y < x)
  BY <1>3 DEF Less
<1>. QED
  BY <1>4

(* So a set that has n when it has all smaller naturals has them all.      *)
LEMMA SetInduction ==
  ASSUME NEW S, \A n \in Nat : (\A m \in Nat : m < n => m \in S) => n \in S
  PROVE  \A n \in Nat : n \in S
<1>. DEFINE T == {n \in Nat : n \notin S}
<1>1. SUFFICES ASSUME T # {} PROVE FALSE
  OBVIOUS
<1>2. PICK x \in T : \A y \in T : x <= y
  BY <1>1, LeastNat
<1>3. \A m \in Nat : m < x => m \in S
  BY <1>2
<1>. QED
  BY <1>2, <1>3

(* D[<<f, x>>] depends on f at the elements of lower rank only.            *)
Recursive(S, V, rank, D) ==
  /\ V # {} /\ rank \in [S -> Nat] /\ D \in [[S -> V] \X S -> V]
  /\ \A g, h \in [S -> V] : \A x \in S :
       (\A y \in S : rank[y] < rank[x] => g[y] = h[y]) => D[<<g, x>>] = D[<<h, x>>]

UpTo(S, rank, D, f, n) == \A x \in S : rank[x] < n => f[x] = D[<<f, x>>]

(* What obeys the recursion up to a rank is unique up to it.               *)
LEMMA RecursionUnique ==
  ASSUME NEW S, NEW V, NEW rank, NEW D, Recursive(S, V, rank, D),
         NEW n \in Nat, NEW f \in [S -> V], NEW g \in [S -> V],
         UpTo(S, rank, D, f, n), UpTo(S, rank, D, g, n)
  PROVE  \A x \in S : rank[x] < n => f[x] = g[x]
<1>. DEFINE Same == {m \in Nat : \A x \in S : rank[x] = m /\ m < n => f[x] = g[x]}
<1>1. ASSUME NEW m \in Nat, \A k \in Nat : k < m => k \in Same
      PROVE  m \in Same
  <2>1. SUFFICES ASSUME NEW x \in S, rank[x] = m, m < n PROVE f[x] = g[x]
    OBVIOUS
  <2>2. \A y \in S : rank[y] < rank[x] => f[y] = g[y]
    BY <1>1, <2>1 DEF Recursive
  <2>3. D[<<f, x>>] = D[<<g, x>>]
    BY <2>2 DEF Recursive
  <2>. QED
    BY <2>1, <2>3 DEF UpTo
<1>2. \A m \in Nat : m \in Same
  <2>. HIDE DEF Same
  <2>. QED
    BY <1>1, SetInduction
<1>. QED
  BY <1>2 DEF Recursive

(* A recursion defines a function.                                         *)
LEMMA RecursionDefines ==
  ASSUME NEW S, NEW V, NEW rank, NEW D, Recursive(S, V, rank, D)
  PROVE  \E f \in [S -> V] : \A x \in S : f[x] = D[<<f, x>>]
<1>. DEFINE Has == {n \in Nat : \E f \in [S -> V] : UpTo(S, rank, D, f, n)}
<1>1. ASSUME NEW n \in Nat, \A m \in Nat : m < n => m \in Has
      PROVE  n \in Has
  <2>1. CASE n = 0
    <3>1. PICK v \in V : TRUE
      BY DEF Recursive
    <3>2. [x \in S |-> v] \in [S -> V]
      OBVIOUS
    <3>3. UpTo(S, rank, D, [x \in S |-> v], n)
      BY <2>1 DEF UpTo, Recursive
    <3>. QED
      BY <3>2, <3>3
  <2>2. CASE n # 0
    <3>1. n - 1 \in Nat /\ n - 1 < n
      BY <2>2
    <3>2. PICK f \in [S -> V] : UpTo(S, rank, D, f, n - 1)
      BY <1>1, <3>1
    <3>. DEFINE h == [x \in S |-> IF rank[x] < n - 1 THEN f[x] ELSE D[<<f, x>>]]
    <3>3. \A x \in S : <<f, x>> \in [S -> V] \X S
      OBVIOUS
    <3>4. h \in [S -> V]
      BY <3>3 DEF Recursive
    <3>5. ASSUME NEW x \in S, rank[x] < n PROVE h[x] = D[<<h, x>>]
      <4>1. \A y \in S : rank[y] < rank[x] => f[y] = h[y]
        BY <3>5 DEF Recursive
      <4>2. D[<<f, x>>] = D[<<h, x>>]
        <5>. HIDE DEF h
        <5>. QED
          BY <3>4, <4>1 DEF Recursive
      <4>3. h[x] = D[<<f, x>>]
        BY <3>2 DEF UpTo
      <4>. QED
        BY <4>2, <4>3
    <3>. QED
      BY <3>4, <3>5 DEF UpTo
  <2>. QED
    BY <2>1, <2>2
<1>2. \A n \in Nat : n \in Has
  <2>. HIDE DEF Has
  <2>. QED
    BY <1>1, SetInduction
<1>. DEFINE F(n) == CHOOSE f \in [S -> V] : UpTo(S, rank, D, f, n)
            u == [x \in S |-> F(rank[x] + 1)[x]]
<1>3. \A n \in Nat : F(n) \in [S -> V] /\ UpTo(S, rank, D, F(n), n)
  BY <1>2
<1>4. \A x \in S : rank[x] \in Nat /\ rank[x] + 1 \in Nat
  BY DEF Recursive
<1>. HIDE DEF F
<1>5. u \in [S -> V]
  BY <1>3, <1>4
<1>6. ASSUME NEW x \in S PROVE u[x] = D[<<u, x>>]
  <2>. DEFINE g == F(rank[x] + 1)
  <2>1. g \in [S -> V] /\ UpTo(S, rank, D, g, rank[x] + 1) /\ u[x] = g[x]
    BY <1>3, <1>4
  <2>2. ASSUME NEW y \in S, rank[y] < rank[x] PROVE g[y] = u[y]
    <3>. DEFINE k == F(rank[y] + 1)
    <3>1. k \in [S -> V] /\ UpTo(S, rank, D, k, rank[y] + 1) /\ u[y] = k[y]
      BY <1>3, <1>4
    <3>2. rank[y] + 1 \in Nat /\ rank[y] < rank[y] + 1 /\ rank[x] \in Nat
      BY <1>4
    <3>. HIDE DEF g, k
    <3>3. UpTo(S, rank, D, g, rank[y] + 1)
      BY <2>1, <2>2, <1>4 DEF UpTo
    <3>4. \A z \in S : rank[z] < rank[y] + 1 => g[z] = k[z]
      BY <2>1, <3>1, <3>2, <3>3, RecursionUnique
    <3>. QED
      BY <3>1, <3>2, <3>4
  <2>3. g[x] = D[<<g, x>>]
    BY <2>1, <1>4 DEF UpTo
  <2>. HIDE DEF g, u
  <2>4. D[<<g, x>>] = D[<<u, x>>]
    BY <1>5, <2>1, <2>2 DEF Recursive
  <2>. QED
    BY <2>1, <2>3, <2>4
<1>. HIDE DEF u
<1>. QED
  BY <1>5, <1>6

(***************************************************************************)
(* Powers of two, and the largest of them that is at most n.               *)

Pow2 == {n \in Nat \ {0} : \A T \in SUBSET Nat :
           1 \in T /\ (\A m \in T : 2 * m \in T) => n \in T}

(* A power of two is 1 or twice a power of two.                            *)
LEMMA Pow2Half ==
  /\ 1 \in Pow2 /\ \A n \in Pow2 : 2 * n \in Pow2
  /\ \A n \in Pow2 : n = 1 \/ (n \div 2 \in Pow2 /\ n = 2 * (n \div 2))
<1>1. 1 \in Pow2
  BY DEF Pow2
<1>2. ASSUME NEW n \in Pow2 PROVE 2 * n \in Pow2
  BY DEF Pow2
<1>. DEFINE T == {m \in Pow2 : m = 1 \/ (m \div 2 \in Pow2 /\ m = 2 * (m \div 2))}
<1>3. 1 \in T
  BY <1>1
<1>4. ASSUME NEW m \in T PROVE 2 * m \in T
  <2>1. m \in Nat /\ m \in Pow2
    BY DEF Pow2
  <2>2. (2 * m) \div 2 = m
    BY <2>1
  <2>. QED
    BY <2>1, <2>2, <1>2
<1>5. T \in SUBSET Nat
  BY DEF Pow2
<1>6. ASSUME NEW n \in Pow2 PROVE n \in T
  <2>. HIDE DEF T
  <2>. QED
    BY <1>3, <1>4, <1>5 DEF Pow2
<1>. QED
  BY <1>1, <1>2, <1>6

(* TopPower as the recursion it is.                                        *)
LEMMA TopPowerUnfold ==
  ASSUME NEW n \in Nat \ {0}
  PROVE  \E p \in [1 .. n -> 1 .. n] :
           /\ TopPower(n) = p[1]
           /\ \A k \in 1 .. n : p[k] = IF 2 * k > n THEN k ELSE p[2 * k]
<1>. DEFINE S == 1 .. n
            rank == [k \in S |-> n - k]
            D == [q \in [S -> S] \X S |-> IF 2 * q[2] > n THEN q[2] ELSE q[1][2 * q[2]]]
            P == CHOOSE p : p = [k \in S |-> IF 2 * k > n THEN k ELSE p[2 * k]]
<1>1. Recursive(S, S, rank, D)
  <2>1. S # {} /\ rank \in [S -> Nat]
    OBVIOUS
  <2>2. D \in [[S -> S] \X S -> S]
    <3>1. ASSUME NEW f \in [S -> S], NEW k \in S, ~(2 * k > n) PROVE f[2 * k] \in S
      BY <3>1
    <3>. QED
      BY <3>1
  <2>3. ASSUME NEW g \in [S -> S], NEW h \in [S -> S], NEW k \in S,
               \A y \in S : rank[y] < rank[k] => g[y] = h[y]
        PROVE  D[<<g, k>>] = D[<<h, k>>]
    <3>1. CASE 2 * k > n
      BY <3>1
    <3>2. CASE ~(2 * k > n)
      <4>1. 2 * k \in S /\ rank[2 * k] < rank[k]
        BY <3>2
      <4>. QED
        BY <3>2, <4>1, <2>3
    <3>. QED
      BY <3>1, <3>2
  <2>. QED
    BY <2>1, <2>2, <2>3 DEF Recursive
<1>2. PICK f \in [S -> S] : \A k \in S : f[k] = D[<<f, k>>]
  <2>. HIDE DEF S, rank, D
  <2>. QED
    BY <1>1, RecursionDefines
<1>3. \A k \in S : D[<<f, k>>] = IF 2 * k > n THEN k ELSE f[2 * k]
  OBVIOUS
<1>4. f = [k \in S |-> IF 2 * k > n THEN k ELSE f[2 * k]]
  BY <1>2, <1>3
<1>5. P = [k \in S |-> IF 2 * k > n THEN k ELSE P[2 * k]]
  BY <1>4, Zenon
<1>6. TopPower(n) = P[1]
  BY Zenon DEF TopPower
<1>. HIDE DEF P
<1>7. \A k \in S : P[k] = IF 2 * k > n THEN k ELSE P[2 * k]
  BY <1>5
<1>8. ASSUME NEW k \in S PROVE P[k] \in S
  <2>. DEFINE G == {m \in Nat : \A j \in S : n - j = m => P[j] \in S}
  <2>1. ASSUME NEW m \in Nat, \A i \in Nat : i < m => i \in G PROVE m \in G
    <3>1. SUFFICES ASSUME NEW j \in S, n - j = m PROVE P[j] \in S
      OBVIOUS
    <3>2. CASE 2 * j > n
      BY <3>2, <1>7
    <3>3. CASE ~(2 * j > n)
      <4>1. 2 * j \in S /\ n - 2 * j \in Nat /\ n - 2 * j < m
        BY <3>3, <3>1
      <4>2. P[2 * j] \in S
        BY <4>1, <2>1
      <4>. QED
        BY <3>3, <1>7, <4>2
    <3>. QED
      BY <3>2, <3>3
  <2>2. \A m \in Nat : m \in G
    <3>. HIDE DEF G
    <3>. QED
      BY <2>1, SetInduction
  <2>3. n - k \in G
    <3>1. n - k \in Nat
      OBVIOUS
    <3>. HIDE DEF G
    <3>. QED
      BY <2>2, <3>1
  <2>. QED
    BY <2>3
<1>9. P \in [S -> S]
  BY <1>5, <1>8
<1>. QED
  BY <1>6, <1>7, <1>9

(* TopPower is what its name says.                                         *)
LEMMA TopPowerTop ==
  ASSUME NEW n \in Nat \ {0}
  PROVE  TopPower(n) \in 1 .. n /\ TopPower(n) \in Pow2 /\ 2 * TopPower(n) > n
<1>1. PICK p \in [1 .. n -> 1 .. n] :
           /\ TopPower(n) = p[1]
           /\ \A k \in 1 .. n : p[k] = IF 2 * k > n THEN k ELSE p[2 * k]
  BY TopPowerUnfold
<1>. DEFINE G == {m \in Nat : \A j \in 1 .. n : n - j = m /\ j \in Pow2 =>
                                p[j] \in Pow2 /\ 2 * p[j] > n}
<1>2. ASSUME NEW m \in Nat, \A i \in Nat : i < m => i \in G PROVE m \in G
  <2>1. SUFFICES ASSUME NEW j \in 1 .. n, n - j = m, j \in Pow2
                 PROVE p[j] \in Pow2 /\ 2 * p[j] > n
    OBVIOUS
  <2>2. CASE 2 * j > n
    BY <2>1, <2>2, <1>1
  <2>3. CASE ~(2 * j > n)
    <3>1. 2 * j \in 1 .. n /\ n - 2 * j \in Nat /\ n - 2 * j < m /\ 2 * j \in Pow2
      BY <2>1, <2>3, Pow2Half
    <3>2. p[2 * j] \in Pow2 /\ 2 * p[2 * j] > n
      BY <3>1, <1>2
    <3>. QED
      BY <2>3, <1>1, <3>2
  <2>. QED
    BY <2>2, <2>3
<1>3. \A m \in Nat : m \in G
  <2>. HIDE DEF G
  <2>. QED
    BY <1>2, SetInduction
<1>4. n - 1 \in G
  <2>. HIDE DEF G
  <2>. QED
    BY <1>3
<1>5. p[1] \in Pow2 /\ 2 * p[1] > n
  BY <1>4, Pow2Half
<1>. QED
  BY <1>1, <1>5
(***************************************************************************)
(* The search of cmdk_bbh_bsearch.                                         *)

Probes(cnt) == {p \in (1 .. cnt) \X (0 .. cnt) \X (0 .. cnt) : p[2] <= p[1]}
ProbeAt(tbl, key, rest, p) == Probe(tbl, key, rest, p[1], p[2], p[3])
Agree(tbl, g, h, p) == \A q \in Probes(Len(tbl)) : q[2] < p[2] => g[q] = h[q]

(* A probe returns an index, or what the probes it goes on to return.      *)
LEMMA ProbeType ==
  ASSUME NEW tbl, Len(tbl) \in Nat, NEW key,
         NEW rest \in [Probes(Len(tbl)) -> 0 .. Len(tbl)],
         NEW p \in Probes(Len(tbl))
  PROVE  ProbeAt(tbl, key, rest, p) \in 0 .. Len(tbl)
<1>. DEFINE cnt == Len(tbl)  half == p[2] \div 2
            up == IF p[1] + half <= cnt THEN p[1] + half ELSE p[1]
<1>1. cnt \in Nat /\ p[1] \in 1 .. cnt /\ p[2] \in 0 .. p[1] /\ p[3] \in 0 .. cnt
  BY DEF Probes
<1>2. half \in 0 .. p[2] /\ 2 * half <= p[2] /\ (p[2] # 0 => half < p[2])
  BY <1>1
<1>3. p[2] # 0 => rest[<<p[1] - half, half, p[1]>>] \in 0 .. cnt
  <2>. HIDE DEF half
  <2>1. p[2] # 0 => <<p[1] - half, half, p[1]>> \in Probes(cnt)
    BY <1>1, <1>2 DEF Probes
  <2>. QED
    BY <2>1
<1>4. rest[<<up, half, p[3]>>] \in 0 .. cnt
  <2>1. up \in 1 .. cnt /\ half <= up
    <3>. HIDE DEF half
    <3>. QED
      BY <1>1, <1>2
  <2>. HIDE DEF half, up
  <2>2. <<up, half, p[3]>> \in Probes(cnt)
    BY <1>1, <1>2, <2>1 DEF Probes
  <2>. QED
    BY <2>2
<1>5. p[1] \in 0 .. cnt /\ p[3] \in 0 .. cnt
  BY <1>1
<1>. QED
  BY <1>3, <1>4, <1>5 DEF Probe, ProbeAt

(* A search depends on the rest only from intervals that are shorter.      *)
LEMMA ProbeRest ==
  ASSUME NEW tbl, Len(tbl) \in Nat, NEW key, NEW g, NEW h,
         NEW p \in Probes(Len(tbl)), Agree(tbl, g, h, p)
  PROVE  ProbeAt(tbl, key, g, p) = ProbeAt(tbl, key, h, p)
<1>. DEFINE cnt == Len(tbl)  half == p[2] \div 2
            up == IF p[1] + half <= cnt THEN p[1] + half ELSE p[1]
            l == <<p[1] - half, half, p[1]>>
            r == <<up, half, p[3]>>
<1>1. cnt \in Nat /\ p[1] \in 1 .. cnt /\ p[2] \in 0 .. p[1] /\ p[3] \in 0 .. cnt
  BY DEF Probes
<1>2. half \in 0 .. p[2] /\ 2 * half <= p[2] /\ (p[2] # 0 => half < p[2])
  BY <1>1
<1>3. p[2] # 0 => g[l] = h[l]
  <2>. HIDE DEF half
  <2>1. p[2] # 0 => l \in Probes(cnt) /\ l[2] = half
    BY <1>1, <1>2 DEF Probes
  <2>. QED
    BY <2>1, <1>2 DEF Agree
<1>4. p[2] # 0 => g[r] = h[r]
  <2>1. up \in 1 .. cnt /\ half <= up
    <3>. HIDE DEF half
    <3>. QED
      BY <1>1, <1>2
  <2>. HIDE DEF half, up
  <2>2. r \in Probes(cnt) /\ r[2] = half
    BY <1>1, <1>2, <2>1 DEF Probes
  <2>. QED
    BY <2>2, <1>2 DEF Agree
<1>. QED
  BY <1>3, <1>4 DEF Probe, ProbeAt

(* The search as the recursion it is.                                      *)
LEMMA BsearchUnfold ==
  ASSUME NEW tbl, Len(tbl) \in Nat \ {0}, NEW key
  PROVE  \E step :
           /\ Bsearch(tbl, key) = step[<<TopPower(Len(tbl)), TopPower(Len(tbl)), 0>>]
           /\ \A p \in Probes(Len(tbl)) : step[p] = ProbeAt(tbl, key, step, p)
<1>. DEFINE cnt == Len(tbl)
            S == Probes(cnt)
            V == 0 .. cnt
            rank == [p \in S |-> p[2]]
            D == [q \in [S -> V] \X S |-> ProbeAt(tbl, key, q[1], q[2])]
            P == CHOOSE f : f = [p \in S |-> Probe(tbl, key, f, p[1], p[2], p[3])]
<1>1. Recursive(S, V, rank, D)
  <2>1. V # {} /\ rank \in [S -> Nat]
    BY DEF Probes
  <2>2. D \in [[S -> V] \X S -> V]
    <3>1. ASSUME NEW q \in [S -> V] \X S PROVE ProbeAt(tbl, key, q[1], q[2]) \in V
      <4>1. q[1] \in [S -> V] /\ q[2] \in S
        OBVIOUS
      <4>. QED
        BY <4>1, ProbeType
    <3>. QED
      BY <3>1
  <2>3. ASSUME NEW g \in [S -> V], NEW h \in [S -> V], NEW p \in S,
               \A y \in S : rank[y] < rank[p] => g[y] = h[y]
        PROVE  D[<<g, p>>] = D[<<h, p>>]
    <3>1. Agree(tbl, g, h, p)
      BY <2>3 DEF Agree
    <3>2. ProbeAt(tbl, key, g, p) = ProbeAt(tbl, key, h, p)
      BY <3>1, ProbeRest
    <3>. QED
      BY <3>2
  <2>. QED
    BY <2>1, <2>2, <2>3 DEF Recursive
<1>2. PICK f \in [S -> V] : \A p \in S : f[p] = D[<<f, p>>]
  <2>. HIDE DEF S, V, rank, D
  <2>. QED
    BY <1>1, RecursionDefines
<1>3. \A p \in S : D[<<f, p>>] = ProbeAt(tbl, key, f, p)
  OBVIOUS
<1>4. f = [p \in S |-> ProbeAt(tbl, key, f, p)]
  BY <1>2, <1>3
<1>5. P = [p \in S |-> ProbeAt(tbl, key, P, p)]
  BY <1>4, Zenon DEF ProbeAt
<1>6. Bsearch(tbl, key) = P[<<TopPower(cnt), TopPower(cnt), 0>>]
  BY Zenon DEF Bsearch, Probes
<1>. HIDE DEF P
<1>. QED
  BY <1>5, <1>6

(* What holds of a probe: the entries below its reach end before the key,  *)
(* and the first entry behind the key is in its reach.                     *)
Reach(tbl, key, p) ==
  /\ p[2] \in Pow2
  /\ \A k \in 1 .. p[1] - p[2] : tbl[k].bad_end < key
  /\ IF p[3] = 0 THEN p[1] + p[2] > Len(tbl)
     ELSE p[3] <= p[1] + p[2] /\ key < tbl[p[3]].bad_start

(* What the search returns: nothing before it ends at the key or later.    *)
First(tbl, key, r) ==
  /\ r \in 0 .. Len(tbl)
  /\ \A k \in 1 .. Len(tbl) : r = 0 \/ k < r => tbl[k].bad_end < key

(* A sorted table: its fields, and the order of its clusters.              *)
LEMMA SortedOrder ==
  ASSUME NEW tbl, Sorted(tbl)
  PROVE  /\ Len(tbl) \in Nat
         /\ \A k \in 1 .. Len(tbl) :
              /\ tbl[k].bad_start \in Nat /\ tbl[k].bad_end \in Nat
              /\ tbl[k].good_start \in Nat
              /\ tbl[k].bad_start <= tbl[k].bad_end
         /\ \A j, k \in 1 .. Len(tbl) : j < k => tbl[j].bad_end < tbl[k].bad_start
<1>. DEFINE E == [bad_start : Nat, bad_end : Nat, good_start : Nat]
<1>1. Len(tbl) \in Nat /\ \A k \in 1 .. Len(tbl) : tbl[k] \in E
  <2>1. tbl \in Seq(E)
    BY DEF Sorted
  <2>. HIDE DEF E
  <2>. QED
    BY <2>1
<1>. QED
  BY <1>1 DEF Sorted

(* A probe's answer is right if those it can go on to are.                 *)
LEMMA ProbeFirst ==
  ASSUME NEW tbl, Sorted(tbl), NEW key \in Nat, NEW rest,
         NEW p \in Probes(Len(tbl)), Reach(tbl, key, p),
         \A q \in Probes(Len(tbl)) :
           q[2] < p[2] /\ Reach(tbl, key, q) => First(tbl, key, rest[q])
  PROVE  First(tbl, key, ProbeAt(tbl, key, rest, p))
<1>. DEFINE cnt == Len(tbl)  half == p[2] \div 2  e == tbl[p[1]]
            up == IF p[1] + half <= cnt THEN p[1] + half ELSE p[1]
            l == <<p[1] - half, half, p[1]>>
            r == <<up, half, p[3]>>
<1>1. cnt \in Nat /\ p[1] \in 1 .. cnt /\ p[2] \in 0 .. p[1] /\ p[3] \in 0 .. cnt
  BY SortedOrder DEF Probes
<1>2. p[2] \in Pow2 /\ p[2] # 0 /\ half \in Nat
      /\ IF half = 0 THEN p[2] = 1 ELSE half \in Pow2 /\ p[2] = 2 * half
  <2>1. p[2] \in Pow2
    BY DEF Reach
  <2>2. p[2] = 1 \/ (p[2] \div 2 \in Pow2 /\ p[2] = 2 * (p[2] \div 2))
    BY <2>1, Pow2Half
  <2>3. p[2] # 0
    BY <2>1 DEF Pow2
  <2>. QED
    BY <2>1, <2>2, <2>3, <1>1
<1>3. \A k \in 1 .. p[1] - p[2] : tbl[k].bad_end < key
  BY DEF Reach
<1>4. IF p[3] = 0 THEN p[1] + p[2] > cnt
      ELSE p[3] <= p[1] + p[2] /\ key < tbl[p[3]].bad_start
  BY DEF Reach
<1>5. CASE key \in e.bad_start .. e.bad_end
  <2>1. ProbeAt(tbl, key, rest, p) = p[1]
    BY <1>2, <1>5 DEF ProbeAt, Probe
  <2>2. \A k \in 1 .. cnt : k < p[1] => tbl[k].bad_end < key
    BY <1>1, <1>5, SortedOrder
  <2>. QED
    BY <2>1, <2>2, <1>1 DEF First
<1>6. CASE key < e.bad_start
  <2>1. CASE half = 0
    <3>1. ProbeAt(tbl, key, rest, p) = p[1]
      BY <1>2, <1>6, <2>1, <1>1, SortedOrder DEF ProbeAt, Probe
    <3>2. \A k \in 1 .. cnt : k < p[1] => tbl[k].bad_end < key
      BY <1>1, <1>2, <1>3, <2>1
    <3>. QED
      BY <3>1, <3>2, <1>1 DEF First
  <2>2. CASE half # 0
    <3>1. ProbeAt(tbl, key, rest, p) = rest[l]
      BY <1>2, <1>6, <2>2, <1>1, SortedOrder DEF ProbeAt, Probe
    <3>. HIDE DEF half
    <3>2. l \in Probes(cnt) /\ l[2] < p[2]
      BY <1>1, <1>2, <2>2 DEF Probes
    <3>3. Reach(tbl, key, l)
      <4>1. \A k \in 1 .. (p[1] - half) - half : tbl[k].bad_end < key
        BY <1>1, <1>2, <1>3, <2>2
      <4>2. p[1] # 0 /\ p[1] <= (p[1] - half) + half
        BY <1>1, <1>2
      <4>3. l[1] = p[1] - half /\ l[2] = half /\ l[3] = p[1]
        OBVIOUS
      <4>. HIDE DEF l
      <4>. QED
        BY <4>1, <4>2, <4>3, <1>2, <1>6, <2>2 DEF Reach
    <3>. QED
      BY <3>1, <3>2, <3>3
  <2>. QED
    BY <2>1, <2>2
<1>7. CASE key > e.bad_end
  <2>1. \A k \in 1 .. p[1] : tbl[k].bad_end < key
    <3>1. e.bad_start \in Nat /\ e.bad_end \in Nat /\ e.bad_start <= e.bad_end
      BY <1>1, SortedOrder
    <3>2. ASSUME NEW k \in 1 .. p[1], k # p[1] PROVE tbl[k].bad_end < e.bad_start
      <4>1. k \in 1 .. cnt /\ k < p[1]
        BY <3>2, <1>1
      <4>. QED
        BY <4>1, <1>1, SortedOrder
    <3>3. \A k \in 1 .. p[1] : k \in 1 .. cnt /\ tbl[k].bad_end \in Nat
      BY <1>1, SortedOrder
    <3>. HIDE DEF e
    <3>4. ASSUME NEW k \in 1 .. p[1], k # p[1] PROVE tbl[k].bad_end < key
      BY <3>1, <3>2, <3>3, <3>4, <1>7
    <3>. QED
      BY <3>4, <1>7 DEF e
  <2>2. p[3] # 0 => p[3] > p[1]
    <3>1. p[3] # 0 => tbl[p[3]].bad_start \in Nat /\ tbl[p[3]].bad_end \in Nat
                      /\ tbl[p[3]].bad_start <= tbl[p[3]].bad_end
      BY <1>1, SortedOrder
    <3>2. p[3] # 0 /\ p[3] <= p[1] => tbl[p[3]].bad_end < key
      BY <2>1, <1>1
    <3>. QED
      BY <3>1, <3>2, <1>1, <1>4
  <2>3. CASE p[1] = cnt \/ half = 0
    <3>1. ProbeAt(tbl, key, rest, p) = p[3]
      <4>1. ~(key \in e.bad_start .. e.bad_end) /\ ~(key < e.bad_start)
        BY <1>1, <1>7, SortedOrder
      <4>. QED
        BY <1>2, <2>3, <4>1 DEF ProbeAt, Probe
    <3>. HIDE DEF half
    <3>2. p[3] = 0 => p[1] >= cnt
      BY <2>3, <1>1, <1>2, <1>4
    <3>3. p[3] # 0 => p[3] <= p[1] + 1
      BY <2>3, <1>1, <1>2, <1>4
    <3>4. \A k \in 1 .. cnt : p[3] = 0 \/ k < p[3] => k \in 1 .. p[1]
      BY <3>2, <3>3, <1>1
    <3>. QED
      BY <3>1, <3>4, <2>1, <1>1 DEF First
  <2>4. CASE ~(p[1] = cnt \/ half = 0)
    <3>1. ProbeAt(tbl, key, rest, p) = rest[r]
      <4>1. ~(key \in e.bad_start .. e.bad_end) /\ ~(key < e.bad_start)
        BY <1>1, <1>7, SortedOrder
      <4>2. ProbeAt(tbl, key, rest, p) =
              IF p[2] = 0 THEN p[3] ELSE IF p[1] = cnt \/ half = 0 THEN p[3] ELSE rest[r]
        BY <4>1, Zenon DEF ProbeAt, Probe
      <4>3. p[2] # 0
        BY <1>2
      <4>. QED
        BY <4>2, <4>3, <2>4, Zenon
    <3>. HIDE DEF half
    <3>2. up \in 1 .. cnt /\ half <= up /\ up - half <= p[1]
      BY <1>1, <1>2
    <3>3. IF p[3] = 0 THEN up + half > cnt ELSE p[3] <= up + half
      BY <1>1, <1>2, <1>4, <2>4
    <3>4. r[1] = up /\ r[2] = half /\ r[3] = p[3]
      OBVIOUS
    <3>. HIDE DEF up
    <3>5. r \in Probes(cnt) /\ r[2] < p[2]
      BY <1>1, <1>2, <2>4, <3>2 DEF Probes
    <3>. HIDE DEF r
    <3>6. \A k \in 1 .. up - half : tbl[k].bad_end < key
      BY <2>1, <3>2, <1>1, <1>2
    <3>7. Reach(tbl, key, r)
      BY <3>3, <3>4, <3>6, <1>2, <1>4, <2>4 DEF Reach
    <3>. QED
      BY <3>1, <3>5, <3>7
  <2>. QED
    BY <2>3, <2>4
<1>. QED
  BY <1>1, <1>5, <1>6, <1>7, SortedOrder

(* cmdk_bbh_bsearch: the entry it returns is the first that does not end   *)
(* before the key, and 0 is returned when all of them do, for tables of    *)
(* any size.                                                               *)
THEOREM BsearchFirst ==
  ASSUME NEW tbl, Sorted(tbl), NEW key \in Nat
  PROVE  First(tbl, key, Bsearch(tbl, key))
<1>. DEFINE cnt == Len(tbl)  top == TopPower(cnt)
<1>1. cnt \in Nat
  BY SortedOrder
<1>2. CASE cnt = 0
  BY <1>2 DEF Bsearch, First
<1>3. CASE cnt # 0
  <2>1. PICK step : /\ Bsearch(tbl, key) = step[<<top, top, 0>>]
                    /\ \A p \in Probes(cnt) : step[p] = ProbeAt(tbl, key, step, p)
    BY <1>1, <1>3, BsearchUnfold
  <2>. DEFINE G == {m \in Nat : \A p \in Probes(cnt) :
                     p[2] = m /\ Reach(tbl, key, p) => First(tbl, key, step[p])}
  <2>2. ASSUME NEW m \in Nat, \A i \in Nat : i < m => i \in G PROVE m \in G
    <3>1. SUFFICES ASSUME NEW p \in Probes(cnt), p[2] = m, Reach(tbl, key, p)
                   PROVE  First(tbl, key, step[p])
      OBVIOUS
    <3>2. \A q \in Probes(cnt) :
            q[2] < p[2] /\ Reach(tbl, key, q) => First(tbl, key, step[q])
      <4>1. \A q \in Probes(cnt) : q[2] \in Nat
        BY DEF Probes
      <4>. QED
        BY <4>1, <3>1, <2>2
    <3>3. First(tbl, key, ProbeAt(tbl, key, step, p))
      <4>. HIDE DEF G
      <4>. QED
        BY <3>1, <3>2, ProbeFirst
    <3>. QED
      BY <3>3, <2>1
  <2>3. \A m \in Nat : m \in G
    <3>. HIDE DEF G
    <3>. QED
      BY <2>2, SetInduction
  <2>4. top \in 1 .. cnt /\ top \in Pow2 /\ 2 * top > cnt
    BY <1>1, <1>3, TopPowerTop
  <2>. DEFINE p == <<top, top, 0>>
  <2>. HIDE DEF top
  <2>5. p \in Probes(cnt) /\ p[1] = top /\ p[2] = top /\ p[3] = 0
    BY <2>4, <1>1 DEF Probes
  <2>6. Reach(tbl, key, p)
    <3>. HIDE DEF p
    <3>. QED
      BY <2>4, <2>5, <1>1 DEF Reach
  <2>7. p[2] \in G
    <3>1. p[2] \in Nat
      BY <2>4, <2>5
    <3>. HIDE DEF G, p
    <3>. QED
      BY <2>3, <3>1
  <2>8. First(tbl, key, step[p])
    <3>. HIDE DEF p
    <3>. QED
      BY <2>5, <2>6, <2>7
  <2>. QED
    BY <2>1, <2>8
<1>. QED
  BY <1>2, <1>3
(***************************************************************************)
(* Where sectors are, and the entries of a slice.                          *)

(* A finite set of naturals has a greatest element.                        *)
LEMMA GreatestNat ==
  ASSUME NEW n \in Nat, NEW T, T \subseteq 0 .. n, T # {}
  PROVE  \E x \in T : \A y \in T : y <= x
<1>. DEFINE R == {k \in 0 .. n : n - k \in T}
<1>1. R \subseteq Nat /\ R # {}
  <2>1. PICK y \in T : TRUE
    OBVIOUS
  <2>2. n - y \in 0 .. n /\ n - (n - y) = y
    OBVIOUS
  <2>3. n - y \in R
    BY <2>2
  <2>4. R \subseteq Nat
    OBVIOUS
  <2>. HIDE DEF R
  <2>. QED
    BY <2>3, <2>4
<1>2. PICK k \in R : \A j \in R : k <= j
  <2>. HIDE DEF R
  <2>. QED
    BY <1>1, LeastNat
<1>3. \A y \in T : n - y \in 0 .. n /\ n - (n - y) = y
  OBVIOUS
<1>4. \A y \in T : n - y \in R
  BY <1>3
<1>5. k \in 0 .. n /\ n - k \in T
  OBVIOUS
<1>6. \A y \in T : k <= n - y
  <2>. HIDE DEF R
  <2>. QED
    BY <1>2, <1>4
<1>. QED
  BY <1>5, <1>6, <1>3

(* A good sector is at home.                                               *)
LEMMA HomeGood ==
  ASSUME NEW tbl, NEW sec,
         \A k \in 1 .. Len(tbl) : ~(sec \in tbl[k].bad_start .. tbl[k].bad_end)
  PROVE  Home(tbl, sec) = sec
BY Zenon DEF Home

(* A bad sector is in the alternate of its cluster, at its own offset.     *)
LEMMA HomeBad ==
  ASSUME NEW tbl, Sorted(tbl), NEW sec \in Nat, NEW k \in 1 .. Len(tbl),
         sec \in tbl[k].bad_start .. tbl[k].bad_end
  PROVE  Home(tbl, sec) = tbl[k].good_start + sec - tbl[k].bad_start
<1>. DEFINE hit == {j \in 1 .. Len(tbl) : sec \in tbl[j].bad_start .. tbl[j].bad_end}
            c == CHOOSE j \in hit : TRUE
<1>1. k \in hit
  OBVIOUS
<1>2. \A j \in hit : j = k
  BY SortedOrder
<1>3. c = k
  BY <1>1, <1>2, Zenon
<1>4. Home(tbl, sec) = tbl[c].good_start + sec - tbl[c].bad_start
  BY <1>1, Zenon DEF Home
<1>. QED
  BY <1>3, <1>4

(* cmdk_bbh_reopen: the entries it keeps for a slice are sorted, and say   *)
(* of every sector of the slice what the whole table says. That it adds    *)
(* the bounds of an entry where it could compare one keeps entries too     *)
(* many, never one too few.                                                *)
THEOREM SliceHome ==
  ASSUME NEW tbl, Sorted(tbl), NEW first \in Nat, NEW last \in Nat
  PROVE  /\ Sorted(SliceEntries(tbl, first, last))
         /\ \A sec \in first .. last :
              Home(SliceEntries(tbl, first, last), sec) = Home(tbl, sec)
<1>. DEFINE from == {j \in 1 .. Len(tbl) : tbl[j].bad_start + tbl[j].bad_end >= first}
            j0 == CHOOSE j \in from : \A k \in from : j <= k
            run == {k \in j0 .. Len(tbl) : \A j \in j0 .. k : tbl[j].bad_start <= last}
            m == CHOOSE k \in run : \A j \in run : j <= k
            s == SliceEntries(tbl, first, last)
<1>1. Len(tbl) \in Nat
  BY SortedOrder
<1>2. ASSUME NEW j \in 1 .. Len(tbl), j \notin from PROVE tbl[j].bad_end < first
  BY <1>2, SortedOrder
<1>3. CASE from = {}
  <2>1. s = <<>>
    BY <1>3, Zenon DEF SliceEntries
  <2>2. Sorted(s)
    BY <2>1 DEF Sorted
  <2>3. ASSUME NEW sec \in first .. last PROVE Home(s, sec) = Home(tbl, sec)
    <3>1. Home(s, sec) = sec
      BY <2>1, HomeGood
    <3>2. \A k \in 1 .. Len(tbl) : ~(sec \in tbl[k].bad_start .. tbl[k].bad_end)
      BY <1>2, <1>3, SortedOrder
    <3>. QED
      BY <3>1, <3>2, HomeGood
  <2>. QED
    BY <2>2, <2>3
<1>4. CASE from # {}
  <2>1. \E j \in from : \A k \in from : j <= k
    <3>1. from \subseteq Nat
      OBVIOUS
    <3>. HIDE DEF from
    <3>. QED
      BY <1>4, <3>1, LeastNat
  <2>2. j0 \in from /\ \A k \in from : j0 <= k
    <3>. HIDE DEF from
    <3>. QED
      BY <2>1, Zenon
  <2>3. j0 \in 1 .. Len(tbl) /\ \A j \in 1 .. Len(tbl) : j < j0 => tbl[j].bad_end < first
    <3>1. j0 \in 1 .. Len(tbl)
      BY <2>2
    <3>2. \A j \in 1 .. Len(tbl) : j < j0 => j \notin from
      <4>. HIDE DEF from, j0
      <4>. QED
        BY <2>2, <3>1
    <3>. QED
      BY <1>2, <3>1, <3>2
  <2>. HIDE DEF j0, from
  <2>4. CASE run = {}
    <3>1. s = <<>>
      BY <2>4, Zenon DEF SliceEntries, j0, from
    <3>2. Sorted(s)
      BY <3>1 DEF Sorted
    <3>3. tbl[j0].bad_start > last
      <4>1. j0 \notin run /\ tbl[j0].bad_start \in Nat
        BY <2>4, <2>3, SortedOrder
      <4>2. \A j \in j0 .. j0 : j = j0
        BY <2>3
      <4>. QED
        BY <4>1, <4>2, <2>3
    <3>4. ASSUME NEW sec \in first .. last PROVE Home(s, sec) = Home(tbl, sec)
      <4>1. Home(s, sec) = sec
        BY <3>1, HomeGood
      <4>2. \A k \in 1 .. Len(tbl) : ~(sec \in tbl[k].bad_start .. tbl[k].bad_end)
        BY <2>3, <3>3, SortedOrder
      <4>. QED
        BY <4>1, <4>2, HomeGood
    <3>. QED
      BY <3>2, <3>4
  <2>5. CASE run # {}
    <3>1. \E k \in run : \A j \in run : j <= k
      <4>1. run \subseteq 0 .. Len(tbl)
        BY <2>3
      <4>. HIDE DEF run
      <4>. QED
        BY <2>5, <4>1, <1>1, GreatestNat
    <3>2. m \in run /\ \A j \in run : j <= m
      <4>. HIDE DEF run
      <4>. QED
        BY <3>1, Zenon
    <3>3. m \in j0 .. Len(tbl) /\ \A j \in j0 .. m : tbl[j].bad_start <= last
      BY <3>2
    <3>4. m < Len(tbl) => tbl[m + 1].bad_start > last
      <4>1. SUFFICES ASSUME m < Len(tbl), tbl[m + 1].bad_start <= last PROVE FALSE
        BY <3>3, <2>3, SortedOrder
      <4>2. m + 1 \in j0 .. Len(tbl)
        BY <4>1, <3>3, <2>3
      <4>. HIDE DEF m
      <4>3. \A j \in j0 .. m + 1 : j \in j0 .. m \/ j = m + 1
        BY <3>3, <2>3
      <4>4. m + 1 \in run
        BY <4>1, <4>2, <4>3, <3>3
      <4>. HIDE DEF run
      <4>. QED
        BY <4>4, <3>2, <3>3, <2>3
    <3>5. s = SubSeq(tbl, j0, m)
      BY <1>4, <2>5, Zenon DEF SliceEntries, j0, from
    <3>. HIDE DEF m, run, s
    <3>6. /\ Len(s) = m - j0 + 1 /\ Len(s) \in Nat
          /\ \A k \in 1 .. Len(s) : s[k] = tbl[j0 + k - 1] /\ j0 + k - 1 \in 1 .. Len(tbl)
      <4>. DEFINE E == [bad_start : Nat, bad_end : Nat, good_start : Nat]
      <4>1. tbl \in Seq(E)
        BY DEF Sorted
      <4>. HIDE DEF E
      <4>. QED
        BY <4>1, <3>5, <3>3, <2>3, <1>1
    <3>7. Sorted(s)
      <4>1. s \in Seq([bad_start : Nat, bad_end : Nat, good_start : Nat])
        <5>. DEFINE E == [bad_start : Nat, bad_end : Nat, good_start : Nat]
        <5>1. tbl \in Seq(E)
          BY DEF Sorted
        <5>. HIDE DEF E
        <5>2. s \in Seq(E)
          BY <5>1, <3>5, <3>3, <2>3, <1>1
        <5>. QED
          BY <5>2 DEF E
      <4>2. \A k \in 1 .. Len(s) : s[k].bad_start <= s[k].bad_end
        BY <3>6, SortedOrder
      <4>3. \A j, k \in 1 .. Len(s) : j < k => s[j].bad_end < s[k].bad_start
        <5>1. SUFFICES ASSUME NEW j \in 1 .. Len(s), NEW k \in 1 .. Len(s), j < k
                       PROVE  s[j].bad_end < s[k].bad_start
          OBVIOUS
        <5>2. j0 + j - 1 < j0 + k - 1
          BY <5>1, <2>3
        <5>. QED
          BY <5>2, <3>6, SortedOrder
      <4>. QED
        BY <4>1, <4>2, <4>3 DEF Sorted
    <3>8. ASSUME NEW sec \in first .. last PROVE Home(s, sec) = Home(tbl, sec)
      <4>1. CASE \E k \in 1 .. Len(s) : sec \in s[k].bad_start .. s[k].bad_end
        <5>1. PICK k \in 1 .. Len(s) : sec \in s[k].bad_start .. s[k].bad_end
          BY <4>1
        <5>2. s[k] = tbl[j0 + k - 1] /\ j0 + k - 1 \in 1 .. Len(tbl)
          BY <3>6
        <5>3. sec \in Nat
          OBVIOUS
        <5>4. Home(s, sec) = s[k].good_start + sec - s[k].bad_start
          BY <5>1, <5>3, <3>7, HomeBad
        <5>5. Home(tbl, sec) = tbl[j0 + k - 1].good_start + sec - tbl[j0 + k - 1].bad_start
          BY <5>1, <5>2, <5>3, HomeBad
        <5>. QED
          BY <5>2, <5>4, <5>5
      <4>2. CASE \A k \in 1 .. Len(s) : ~(sec \in s[k].bad_start .. s[k].bad_end)
        <5>1. Home(s, sec) = sec
          BY <4>2, HomeGood
        <5>2. ASSUME NEW k \in 1 .. Len(tbl), sec \in tbl[k].bad_start .. tbl[k].bad_end
              PROVE  FALSE
          <6>1. tbl[k].bad_start \in Nat /\ tbl[k].bad_end \in Nat
            BY SortedOrder
          <6>2. k >= j0
            BY <6>1, <5>2, <2>3
          <6>3. k <= m
            <7>1. SUFFICES ASSUME k > m PROVE FALSE
              BY <3>3, <2>3
            <7>2. m + 1 \in 1 .. Len(tbl) /\ tbl[m + 1].bad_start > last
              BY <7>1, <3>3, <3>4, <2>3
            <7>3. tbl[k].bad_start > last
              <8>1. CASE k = m + 1
                BY <8>1, <7>2
              <8>2. CASE k # m + 1
                <9>1. m + 1 < k
                  BY <8>2, <7>1, <3>3, <2>3
                <9>2. tbl[m + 1].bad_end < tbl[k].bad_start
                      /\ tbl[m + 1].bad_start <= tbl[m + 1].bad_end
                      /\ tbl[m + 1].bad_start \in Nat /\ tbl[m + 1].bad_end \in Nat
                  BY <9>1, <7>2, SortedOrder
                <9>. QED
                  BY <9>2, <7>2, <6>1
              <8>. QED
                BY <8>1, <8>2
            <7>. QED
              BY <7>3, <5>2, <6>1
          <6>4. k - j0 + 1 \in 1 .. Len(s) /\ j0 + (k - j0 + 1) - 1 = k
            BY <6>2, <6>3, <3>6, <3>3, <2>3
          <6>5. s[k - j0 + 1] = tbl[k]
            BY <6>4, <3>6
          <6>. QED
            BY <6>4, <6>5, <4>2, <5>2
        <5>. QED
          BY <5>1, <5>2, HomeGood
      <4>. QED
        BY <4>1, <4>2
    <3>. QED
      BY <3>7, <3>8 DEF s
  <2>. QED
    BY <2>4, <2>5
<1>. QED
  BY <1>3, <1>4
(***************************************************************************)
(* The cookies of cmdk_bbh_gethandle.                                      *)

(* Cookies cover n sectors from first on: start[k] of them before the      *)
(* k-th, which is where its sectors are.                                   *)
Starts(tbl, first, n, cs, start) ==
  /\ start \in [1 .. Len(cs) + 1 -> 0 .. n]
  /\ start[1] = 0 /\ start[Len(cs) + 1] = n
  /\ \A k \in 1 .. Len(cs) :
       /\ start[k + 1] = start[k] + cs[k].seclen
       /\ \A j \in 0 .. cs[k].seclen - 1 :
            Home(tbl, first + start[k] + j) = cs[k].sector + j

Covers(tbl, first, n, cs) ==
  /\ cs \in Seq(CookieSet) /\ cs # <<>>
  /\ \E start : Starts(tbl, first, n, cs, start)

(* One cookie covers sectors that lie in a row.                            *)
LEMMA CoverOne ==
  ASSUME NEW tbl, NEW first \in Nat, NEW n \in Nat \ {0}, NEW sec \in Nat,
         \A j \in 0 .. n - 1 : Home(tbl, first + j) = sec + j
  PROVE  Covers(tbl, first, n, <<Cookie(sec, n)>>)
<1>. DEFINE cs == <<Cookie(sec, n)>>
            start == [k \in 1 .. 2 |-> IF k = 1 THEN 0 ELSE n]
<1>1. Cookie(sec, n) \in CookieSet /\ Cookie(sec, n).sector = sec /\ Cookie(sec, n).seclen = n
  BY DEF Cookie, CookieSet
<1>2. cs \in Seq(CookieSet) /\ cs # <<>> /\ Len(cs) = 1 /\ cs[1] = Cookie(sec, n)
  BY <1>1
<1>3. start \in [1 .. 2 -> 0 .. n] /\ start[1] = 0 /\ start[2] = n
  OBVIOUS
<1>. HIDE DEF cs, start
<1>4. Starts(tbl, first, n, cs, start)
  <2>1. ASSUME NEW k \in 1 .. 1
        PROVE  /\ start[k + 1] = start[k] + cs[k].seclen
               /\ \A j \in 0 .. cs[k].seclen - 1 :
                    Home(tbl, first + start[k] + j) = cs[k].sector + j
    <3>1. k = 1 /\ start[k] = 0 /\ start[k + 1] = n /\ cs[k].seclen = n /\ cs[k].sector = sec
      BY <1>1, <1>2, <1>3
    <3>. QED
      BY <3>1
  <2>. QED
    BY <2>1, <1>2, <1>3 DEF Starts
<1>. QED
  BY <1>2, <1>4 DEF Covers, cs

(* A cookie for the first m sectors, put before cookies for the others.    *)
LEMMA CoverCons ==
  ASSUME NEW tbl, NEW first \in Nat, NEW n \in Nat, NEW sec \in Nat, NEW m \in 1 .. n,
         \A j \in 0 .. m - 1 : Home(tbl, first + j) = sec + j,
         NEW rest, Covers(tbl, first + m, n - m, rest)
  PROVE  Covers(tbl, first, n, <<Cookie(sec, m)>> \o rest)
<1>. DEFINE c == Cookie(sec, m)
            cs == <<c>> \o rest
<1>1. c \in CookieSet /\ c.sector = sec /\ c.seclen = m
  BY DEF Cookie, CookieSet
<1>2. rest \in Seq(CookieSet) /\ Len(rest) \in Nat
  BY DEF Covers
<1>3. PICK s : Starts(tbl, first + m, n - m, rest, s)
  BY DEF Covers
<1>. HIDE DEF c
<1>4. /\ cs \in Seq(CookieSet) /\ cs # <<>> /\ Len(cs) = Len(rest) + 1 /\ cs[1] = c
      /\ \A k \in 1 .. Len(rest) : cs[k + 1] = rest[k]
  BY <1>1, <1>2
<1>. DEFINE start == [k \in 1 .. Len(rest) + 2 |-> IF k = 1 THEN 0 ELSE m + s[k - 1]]
<1>5. s \in [1 .. Len(rest) + 1 -> 0 .. n - m] /\ s[1] = 0 /\ s[Len(rest) + 1] = n - m
  BY <1>3 DEF Starts
<1>6. /\ start \in [1 .. Len(rest) + 2 -> 0 .. n]
      /\ start[1] = 0 /\ start[Len(rest) + 2] = n
      /\ \A k \in 1 .. Len(rest) + 1 : start[k + 1] = m + s[k]
  BY <1>2, <1>5
<1>. HIDE DEF cs, start
<1>7. ASSUME NEW k \in 1 .. Len(rest) + 1
      PROVE  /\ start[k + 1] = start[k] + cs[k].seclen
             /\ \A j \in 0 .. cs[k].seclen - 1 :
                  Home(tbl, first + start[k] + j) = cs[k].sector + j
  <2>1. CASE k = 1
    <3>1. start[k] = 0 /\ start[k + 1] = m /\ cs[k].seclen = m /\ cs[k].sector = sec
      BY <2>1, <1>1, <1>4, <1>5, <1>6
    <3>. QED
      BY <3>1
  <2>2. CASE k # 1
    <3>. DEFINE i == k - 1
    <3>1. i \in 1 .. Len(rest) /\ k = i + 1 /\ i \in 1 .. Len(rest) + 1
      BY <2>2, <1>2
    <3>. HIDE DEF i
    <3>2. cs[k] = rest[i] /\ start[k] = m + s[i] /\ start[k + 1] = m + s[i + 1]
      BY <3>1, <1>4, <1>6, <1>2
    <3>3. s[i + 1] = s[i] + rest[i].seclen /\ s[i] \in 0 .. n - m
          /\ rest[i].seclen \in Nat
          /\ \A j \in 0 .. rest[i].seclen - 1 :
               Home(tbl, first + m + s[i] + j) = rest[i].sector + j
      <4>1. s[i + 1] = s[i] + rest[i].seclen
            /\ \A j \in 0 .. rest[i].seclen - 1 :
                 Home(tbl, first + m + s[i] + j) = rest[i].sector + j
        BY <3>1, <1>3 DEF Starts
      <4>2. rest[i] \in CookieSet
        BY <3>1, <1>2
      <4>3. rest[i].seclen \in Nat
        BY <4>2 DEF CookieSet
      <4>. QED
        BY <4>1, <4>3, <3>1, <1>5
    <3>4. start[k + 1] = start[k] + cs[k].seclen
      BY <3>2, <3>3
    <3>5. first + start[k] = first + m + s[i]
      BY <3>2, <3>3
    <3>. QED
      BY <3>2, <3>3, <3>4, <3>5
  <2>. QED
    BY <2>1, <2>2
<1>8. Starts(tbl, first, n, cs, start)
  <2>1. Len(cs) + 1 = Len(rest) + 2 /\ Len(cs) = Len(rest) + 1
    BY <1>2, <1>4
  <2>. QED
    BY <2>1, <1>6, <1>7 DEF Starts
<1>. QED
  BY <1>4, <1>8 DEF Covers, cs, c

(* Its cases, one by one.                                                  *)
CutCases(tbl, last, rest, i, sec, bs, be, gs) ==
  LET res == CutOne(tbl, last, rest, i, sec)
  IN /\ last < bs => res = <<Cookie(sec, last - sec + 1)>>
     /\ last >= bs /\ sec > be => res = rest[<<i + 1, sec>>]
     /\ sec \in bs .. be /\ last \in bs .. be =>
          res = <<Cookie(gs + sec - bs, last - sec + 1)>>
     /\ sec < bs /\ last \in bs .. be =>
          res = <<Cookie(sec, bs - sec), Cookie(gs, last - bs + 1)>>
     /\ sec \in bs .. be /\ last > be =>
          res = <<Cookie(gs + sec - bs, be - sec + 1)>> \o rest[<<i + 1, be + 1>>]
     /\ sec < bs /\ last > be =>
          res = <<Cookie(sec, bs - sec), Cookie(gs, be - bs + 1)>>
                  \o rest[<<i + 1, be + 1>>]

(* What cmdk_bbh_gethandle does with an entry is one of the cases above.   *)
LEMMA CutOneCases ==
  ASSUME NEW tbl, Sorted(tbl), NEW last \in Int, NEW i \in 1 .. Len(tbl),
         NEW sec \in Int, NEW rest
  PROVE  CutCases(tbl, last, rest, i, sec, tbl[i].bad_start, tbl[i].bad_end,
                  tbl[i].good_start)
<1>. DEFINE bs == tbl[i].bad_start  be == tbl[i].bad_end  gs == tbl[i].good_start
            res == CutOne(tbl, last, rest, i, sec)
            v1 == <<Cookie(sec, last - sec + 1)>>
            v2 == rest[<<i + 1, sec>>]
            v3 == <<Cookie(gs + sec - bs, last - sec + 1)>>
            v4 == <<Cookie(sec, bs - sec), Cookie(gs, last - bs + 1)>>
            v5 == <<Cookie(gs + sec - bs, be - sec + 1)>> \o rest[<<i + 1, be + 1>>]
            v6 == <<Cookie(sec, bs - sec), Cookie(gs, be - bs + 1)>>
                         \o rest[<<i + 1, be + 1>>]
<1>1. bs \in Nat /\ be \in Nat /\ bs <= be /\ i <= Len(tbl) /\ Len(tbl) \in Nat
  BY SortedOrder
<1>2. res = CASE last < bs -> v1
              [] last >= bs /\ sec > be -> v2
              [] {sec, last} \subseteq bs .. be -> v3
              [] sec < bs /\ last \in bs .. be -> v4
              [] sec \in bs .. be /\ last > be -> v5
              [] sec < bs /\ last > be -> v6
  <2>1. ~(i > Len(tbl))
    BY <1>1
  <2>. QED
    BY ONLY <2>1, Zenon DEF CutOne
<1>. HIDE DEF bs, be, gs, res, v1, v2, v3, v4, v5, v6
<1>3. /\ last < bs => res = v1
      /\ last >= bs /\ sec > be => res = v2
      /\ sec \in bs .. be /\ last \in bs .. be => res = v3
      /\ sec < bs /\ last \in bs .. be => res = v4
      /\ sec \in bs .. be /\ last > be => res = v5
      /\ sec < bs /\ last > be => res = v6
  BY <1>1, <1>2
<1>4. CutCases(tbl, last, rest, i, sec, bs, be, gs)
  BY <1>3, Zenon DEF res, v1, v2, v3, v4, v5, v6, CutCases
<1>. QED
  BY <1>4, Zenon DEF bs, be, gs

(* The cut as the recursion it is.                                         *)
Entries(tbl) == (1 .. Len(tbl) + 1) \X Int
IntCookie == [sector : Int, seclen : Int]
CutAt(tbl, last, rest, x) == CutOne(tbl, last, rest, x[1], x[2])
AgreeBehind(tbl, g, h, x) == \A y \in Entries(tbl) : x[1] < y[1] => g[y] = h[y]

(* Past the last entry all that is left is one cookie.                     *)
LEMMA CutEnd ==
  ASSUME NEW tbl, NEW last, NEW rest, NEW i \in Int, Len(tbl) \in Nat, i > Len(tbl), NEW sec
  PROVE  CutOne(tbl, last, rest, i, sec) = <<Cookie(sec, last - sec + 1)>>
BY DEF CutOne

(* A cut adds cookies of its own to those of a further cut, if any.        *)
Alone(tbl, last, i, sec, own) == \A r : CutOne(tbl, last, r, i, sec) = own
Onward(tbl, last, i, sec, go) == \A r : CutOne(tbl, last, r, i, sec) = r[go]
Both(tbl, last, i, sec, own, go) == \A r : CutOne(tbl, last, r, i, sec) = own \o r[go]

(* What a cut does with an entry does not depend on the cookies behind.    *)
LEMMA CutOneForm ==
  ASSUME NEW tbl, Sorted(tbl), NEW last \in Int,
         NEW i \in 1 .. Len(tbl) + 1, NEW sec \in Int
  PROVE  \E own \in Seq(IntCookie) :
           \/ Alone(tbl, last, i, sec, own)
           \/ \E go \in Entries(tbl) :
                go[1] > i /\ (Onward(tbl, last, i, sec, go) \/ Both(tbl, last, i, sec, own, go))
<1>1. Len(tbl) \in Nat
  BY SortedOrder
<1>2. \A a, b \in Int : Cookie(a, b) \in IntCookie
  BY DEF Cookie, IntCookie
<1>3. CASE i > Len(tbl)
  <2>. DEFINE c == Cookie(sec, last - sec + 1)
  <2>1. Alone(tbl, last, i, sec, <<c>>)
    BY <1>1, <1>3, CutEnd DEF Alone
  <2>2. c \in IntCookie
    BY <1>2
  <2>. HIDE DEF c
  <2>3. <<c>> \in Seq(IntCookie)
    BY <2>2
  <2>. QED
    BY <2>1, <2>3
<1>4. CASE i <= Len(tbl)
  <2>. DEFINE bs == tbl[i].bad_start  be == tbl[i].bad_end  gs == tbl[i].good_start
              p == <<i + 1, sec>>  q == <<i + 1, be + 1>>
              c1 == Cookie(sec, last - sec + 1)
              c2 == Cookie(gs + sec - bs, last - sec + 1)
              c3 == Cookie(sec, bs - sec)
              c4 == Cookie(gs, last - bs + 1)
              c5 == Cookie(gs + sec - bs, be - sec + 1)
              c6 == Cookie(gs, be - bs + 1)
  <2>1. bs \in Nat /\ be \in Nat /\ gs \in Nat /\ bs <= be /\ i \in 1 .. Len(tbl)
    BY <1>1, <1>4, SortedOrder
  <2>2. p \in Entries(tbl) /\ q \in Entries(tbl) /\ p[1] > i /\ q[1] > i
    <3>. HIDE DEF be
    <3>. QED
      BY <2>1, <1>1 DEF Entries
  <2>3. c1 \in IntCookie /\ c2 \in IntCookie /\ c3 \in IntCookie /\ c4 \in IntCookie
        /\ c5 \in IntCookie /\ c6 \in IntCookie
    <3>. HIDE DEF bs, be, gs
    <3>1. /\ last - sec + 1 \in Int /\ gs + sec - bs \in Int /\ bs - sec \in Int /\ gs \in Int
          /\ last - bs + 1 \in Int /\ be - sec + 1 \in Int /\ be - bs + 1 \in Int
      BY <2>1
    <3>. QED
      BY ONLY <3>1, <1>2, sec \in Int, Zenon
  <2>4. /\ last < bs => Alone(tbl, last, i, sec, <<c1>>)
        /\ last >= bs /\ sec > be => Onward(tbl, last, i, sec, p)
        /\ sec \in bs .. be /\ last \in bs .. be => Alone(tbl, last, i, sec, <<c2>>)
        /\ sec < bs /\ last \in bs .. be => Alone(tbl, last, i, sec, <<c3, c4>>)
        /\ sec \in bs .. be /\ last > be => Both(tbl, last, i, sec, <<c5>>, q)
        /\ sec < bs /\ last > be => Both(tbl, last, i, sec, <<c3, c6>>, q)
    <3>1. ASSUME NEW r PROVE CutCases(tbl, last, r, i, sec, bs, be, gs)
      BY <2>1, CutOneCases
    <3>. HIDE DEF bs, be, gs
    <3>2. last < bs => Alone(tbl, last, i, sec, <<c1>>)
      BY <3>1, Zenon DEF CutCases, Alone
    <3>3. last >= bs /\ sec > be => Onward(tbl, last, i, sec, p)
      BY <3>1, Zenon DEF CutCases, Onward
    <3>4. sec \in bs .. be /\ last \in bs .. be => Alone(tbl, last, i, sec, <<c2>>)
      BY <3>1, Zenon DEF CutCases, Alone
    <3>5. sec < bs /\ last \in bs .. be => Alone(tbl, last, i, sec, <<c3, c4>>)
      BY <3>1, Zenon DEF CutCases, Alone
    <3>6. sec \in bs .. be /\ last > be => Both(tbl, last, i, sec, <<c5>>, q)
      BY <3>1, Zenon DEF CutCases, Both
    <3>7. sec < bs /\ last > be => Both(tbl, last, i, sec, <<c3, c6>>, q)
      BY <3>1, Zenon DEF CutCases, Both
    <3>. QED
      BY <3>2, <3>3, <3>4, <3>5, <3>6, <3>7
  <2>. HIDE DEF bs, be, gs, c1, c2, c3, c4, c5, c6, p, q
  <2>5. <<>> \in Seq(IntCookie) /\ <<c1>> \in Seq(IntCookie) /\ <<c2>> \in Seq(IntCookie)
        /\ <<c5>> \in Seq(IntCookie) /\ <<c3, c4>> \in Seq(IntCookie)
        /\ <<c3, c6>> \in Seq(IntCookie)
    BY <2>3
  <2>6. CASE last < bs
    BY <2>4, <2>5, <2>6
  <2>7. CASE last >= bs /\ sec > be
    BY <2>2, <2>4, <2>5, <2>7
  <2>8. CASE sec \in bs .. be /\ last \in bs .. be
    BY <2>4, <2>5, <2>8
  <2>9. CASE sec < bs /\ last \in bs .. be
    BY <2>4, <2>5, <2>9
  <2>10. CASE sec \in bs .. be /\ last > be
    BY <2>2, <2>4, <2>5, <2>10
  <2>11. CASE sec < bs /\ last > be
    BY <2>2, <2>4, <2>5, <2>11
  <2>. QED
    BY <2>1, <2>6, <2>7, <2>8, <2>9, <2>10, <2>11
<1>. QED
  BY <1>1, <1>3, <1>4

(* A cut returns cookies.                                                  *)
LEMMA CutOneType ==
  ASSUME NEW tbl, Sorted(tbl), NEW last \in Int, NEW x \in Entries(tbl),
         NEW rest \in [Entries(tbl) -> Seq(IntCookie)]
  PROVE  CutAt(tbl, last, rest, x) \in Seq(IntCookie)
<1>1. x[1] \in 1 .. Len(tbl) + 1 /\ x[2] \in Int
  BY DEF Entries
<1>2. PICK own \in Seq(IntCookie) :
           \/ Alone(tbl, last, x[1], x[2], own)
           \/ \E go \in Entries(tbl) :
                /\ go[1] > x[1]
                /\ Onward(tbl, last, x[1], x[2], go) \/ Both(tbl, last, x[1], x[2], own, go)
  BY <1>1, CutOneForm
<1>3. \A go \in Entries(tbl) : rest[go] \in Seq(IntCookie) /\ own \o rest[go] \in Seq(IntCookie)
  OBVIOUS
<1>. QED
  BY <1>2, <1>3 DEF CutAt, Alone, Onward, Both

(* A cut depends on the rest only at the entries behind.                   *)
LEMMA CutOneRest ==
  ASSUME NEW tbl, Sorted(tbl), NEW last \in Int, NEW x \in Entries(tbl),
         NEW g, NEW h, AgreeBehind(tbl, g, h, x)
  PROVE  CutAt(tbl, last, g, x) = CutAt(tbl, last, h, x)
<1>1. x[1] \in 1 .. Len(tbl) + 1 /\ x[2] \in Int
  BY DEF Entries
<1>2. PICK own \in Seq(IntCookie) :
           \/ Alone(tbl, last, x[1], x[2], own)
           \/ \E go \in Entries(tbl) :
                /\ go[1] > x[1]
                /\ Onward(tbl, last, x[1], x[2], go) \/ Both(tbl, last, x[1], x[2], own, go)
  BY <1>1, CutOneForm
<1>3. \A go \in Entries(tbl) : go[1] > x[1] => g[go] = h[go]
  BY <1>1 DEF AgreeBehind, Entries
<1>. QED
  BY <1>2, <1>3 DEF CutAt, Alone, Onward, Both

(* CutCookies as the recursion it is.                                      *)
LEMMA CutUnfold ==
  ASSUME NEW tbl, Sorted(tbl), NEW last \in Int, NEW i0, NEW sec0
  PROVE  \E cut :
           /\ CutCookies(tbl, i0, sec0, last) = cut[<<i0, sec0>>]
           /\ \A x \in Entries(tbl) : cut[x] = CutAt(tbl, last, cut, x)
<1>. DEFINE S == Entries(tbl)
            V == Seq(IntCookie)
            rank == [x \in S |-> Len(tbl) + 1 - x[1]]
            D == [q \in [S -> V] \X S |-> CutAt(tbl, last, q[1], q[2])]
            P == CHOOSE f : f = [x \in S |-> CutOne(tbl, last, f, x[1], x[2])]
<1>0. Len(tbl) \in Nat
  BY SortedOrder
<1>1. Recursive(S, V, rank, D)
  <2>1. V # {} /\ rank \in [S -> Nat]
    <3>1. <<>> \in V
      OBVIOUS
    <3>2. \A x \in S : x[1] \in 1 .. Len(tbl) + 1
      BY DEF Entries
    <3>3. rank \in [S -> Nat]
      <4>. HIDE DEF S
      <4>. QED
        BY <3>2, <1>0
    <3>. QED
      BY <3>1, <3>3
  <2>2. D \in [[S -> V] \X S -> V]
    <3>1. ASSUME NEW q \in [S -> V] \X S PROVE CutAt(tbl, last, q[1], q[2]) \in V
      <4>1. q[1] \in [S -> V] /\ q[2] \in S
        OBVIOUS
      <4>. QED
        BY <4>1, CutOneType
    <3>. QED
      BY <3>1
  <2>3. ASSUME NEW g \in [S -> V], NEW h \in [S -> V], NEW x \in S,
               \A y \in S : rank[y] < rank[x] => g[y] = h[y]
        PROVE  D[<<g, x>>] = D[<<h, x>>]
    <3>1. AgreeBehind(tbl, g, h, x)
      <4>1. \A y \in S : y[1] \in 1 .. Len(tbl) + 1
        BY DEF Entries
      <4>. QED
        BY <4>1, <2>3, <1>0 DEF AgreeBehind
    <3>2. CutAt(tbl, last, g, x) = CutAt(tbl, last, h, x)
      BY <3>1, CutOneRest
    <3>. QED
      BY <3>2
  <2>. QED
    BY <2>1, <2>2, <2>3 DEF Recursive
<1>2. PICK f \in [S -> V] : \A x \in S : f[x] = D[<<f, x>>]
  <2>. HIDE DEF S, V, rank, D
  <2>. QED
    BY <1>1, RecursionDefines
<1>3. \A x \in S : D[<<f, x>>] = CutAt(tbl, last, f, x)
  OBVIOUS
<1>4. f = [x \in S |-> CutAt(tbl, last, f, x)]
  BY <1>2, <1>3
<1>6. P = [x \in S |-> CutAt(tbl, last, P, x)]
  BY <1>4, Zenon DEF CutAt
<1>7. CutCookies(tbl, i0, sec0, last) = P[<<i0, sec0>>]
  BY Zenon DEF CutCookies, Entries
<1>. HIDE DEF P
<1>. QED
  BY <1>6, <1>7

(* A pair of cookies put in front is one after the other put in front.     *)
LEMMA PairCons ==
  ASSUME NEW S, NEW a \in S, NEW b \in S
  PROVE  /\ <<a>> \o <<b>> = <<a, b>>
         /\ \A r \in Seq(S) : <<a>> \o (<<b>> \o r) = <<a, b>> \o r
<1>1. <<a>> \o <<b>> = <<a, b>>
  <2>. DEFINE s == <<a>> \o <<b>>  t == <<a, b>>
  <2>1. s \in Seq(S) /\ t \in Seq(S) /\ Len(s) = 2 /\ Len(t) = 2
        /\ s[1] = a /\ s[2] = b /\ t[1] = a /\ t[2] = b
    OBVIOUS
  <2>2. \A i \in 1 .. 2 : i = 1 \/ i = 2
    OBVIOUS
  <2>. HIDE DEF s, t
  <2>3. \A i \in 1 .. Len(s) : s[i] = t[i]
    BY <2>1, <2>2
  <2>4. s = t
    BY <2>1, <2>3, SeqEqual
  <2>. QED
    BY <2>4 DEF s, t
<1>2. ASSUME NEW r \in Seq(S) PROVE <<a>> \o (<<b>> \o r) = <<a, b>> \o r
  <2>1. <<a>> \in Seq(S) /\ <<b>> \in Seq(S)
    OBVIOUS
  <2>2. (<<a>> \o <<b>>) \o r = <<a>> \o (<<b>> \o r)
    BY <2>1, ConcatAssociative
  <2>. QED
    BY <1>1, <2>2, Zenon
<1>. QED
  BY <1>1, <1>2

Behead(tbl, i, sec) == \A k \in 1 .. Len(tbl) : k < i => tbl[k].bad_end < sec

(* Between the entries before i and i itself sectors are good; in i they   *)
(* are bad.                                                                *)
LEMMA HomeBetween ==
  ASSUME NEW tbl, Sorted(tbl), NEW i \in 1 .. Len(tbl) + 1, NEW sec \in Nat,
         Behead(tbl, i, sec), NEW x \in Nat, sec <= x,
         i <= Len(tbl) => x < tbl[i].bad_start
  PROVE  Home(tbl, x) = x
<1>1. ASSUME NEW k \in 1 .. Len(tbl), x \in tbl[k].bad_start .. tbl[k].bad_end PROVE FALSE
  <2>1. Len(tbl) \in Nat /\ tbl[k].bad_start \in Nat /\ tbl[k].bad_end \in Nat
    BY SortedOrder
  <2>2. CASE k < i
    <3>1. tbl[k].bad_end < sec
      BY <2>2 DEF Behead
    <3>. QED
      BY <3>1, <2>1, <1>1
  <2>3. CASE k = i
    BY <2>1, <2>3, <1>1
  <2>4. CASE k > i
    <3>1. i \in 1 .. Len(tbl)
      BY <2>1, <2>4
    <3>2. tbl[i].bad_end < tbl[k].bad_start /\ tbl[i].bad_start <= tbl[i].bad_end
          /\ tbl[i].bad_start \in Nat /\ tbl[i].bad_end \in Nat
      BY <3>1, <2>4, SortedOrder
    <3>. QED
      BY <3>1, <3>2, <2>1, <1>1
  <2>. QED
    BY <2>1, <2>2, <2>3, <2>4
<1>. QED
  BY <1>1, HomeGood

(* The cookies of cmdk_bbh_gethandle cover the sectors they are cut for,   *)
(* if the entries that were skipped end before them.                       *)
LEMMA CutCovers ==
  ASSUME NEW tbl, Sorted(tbl), NEW last \in Nat, NEW i0 \in 1 .. Len(tbl) + 1,
         NEW sec0 \in 0 .. last, Behead(tbl, i0, sec0)
  PROVE  Covers(tbl, sec0, last - sec0 + 1, CutCookies(tbl, i0, sec0, last))
<1>0. Len(tbl) \in Nat
  BY SortedOrder
<1>1. PICK cut : /\ CutCookies(tbl, i0, sec0, last) = cut[<<i0, sec0>>]
                 /\ \A x \in Entries(tbl) : cut[x] = CutAt(tbl, last, cut, x)
  BY CutUnfold
<1>. DEFINE Right(i, sec) == Covers(tbl, sec, last - sec + 1, cut[<<i, sec>>])
            G == {m \in Nat : \A i \in 1 .. Len(tbl) + 1, sec \in 0 .. last :
                    Len(tbl) + 1 - i = m /\ Behead(tbl, i, sec) => Right(i, sec)}
<1>2. ASSUME NEW m \in Nat, \A n \in Nat : n < m => n \in G PROVE m \in G
  <2>1. SUFFICES ASSUME NEW i \in 1 .. Len(tbl) + 1, NEW sec \in 0 .. last,
                        Len(tbl) + 1 - i = m, Behead(tbl, i, sec)
                 PROVE  Right(i, sec)
    OBVIOUS
  <2>2. cut[<<i, sec>>] = CutOne(tbl, last, cut, i, sec)
    <3>1. <<i, sec>> \in Entries(tbl)
      BY DEF Entries
    <3>. HIDE DEF G
    <3>. QED
      BY <3>1, <1>1 DEF CutAt
  <2>. DEFINE n == last - sec + 1
  <2>3. n \in Nat \ {0} /\ sec \in Nat
    OBVIOUS
  <2>4. CASE i > Len(tbl)
    <3>1. cut[<<i, sec>>] = <<Cookie(sec, n)>>
      BY <2>2, <2>4, <1>0, CutEnd
    <3>2. \A j \in 0 .. n - 1 : Home(tbl, sec + j) = sec + j
      BY <2>1, <2>3, <2>4, <1>0, HomeBetween
    <3>. HIDE DEF n
    <3>. QED
      BY <3>1, <3>2, <2>3, CoverOne DEF n
  <2>5. CASE i <= Len(tbl)
    <3>. DEFINE bs == tbl[i].bad_start  be == tbl[i].bad_end  gs == tbl[i].good_start
                rest == cut[<<i + 1, be + 1>>]
    <3>1. i \in 1 .. Len(tbl) /\ bs \in Nat /\ be \in Nat /\ gs \in Nat /\ bs <= be
      BY <2>5, <1>0, SortedOrder
    <3>2. CutCases(tbl, last, cut, i, sec, bs, be, gs)
      <4>1. last \in Int /\ sec \in Int
        OBVIOUS
      <4>. HIDE DEF G, n
      <4>. QED
        BY <3>1, <4>1, CutOneCases
    <3>3. \A x \in Nat : sec <= x /\ x < bs => Home(tbl, x) = x
      BY <2>1, HomeBetween
    <3>4. \A x \in bs .. be : Home(tbl, x) = gs + x - bs
      BY <3>1, HomeBad
    <3>5. ASSUME NEW s \in 0 .. last, be < s PROVE Right(i + 1, s)
      <4>1. Behead(tbl, i + 1, s)
        <5>1. ASSUME NEW k \in 1 .. Len(tbl), k < i + 1 PROVE tbl[k].bad_end < s
          <6>1. CASE k = i
            BY ONLY <6>1, <3>5, Zenon
          <6>2. CASE k # i
            <7>1. k < i
              BY <5>1, <6>2
            <7>2. tbl[k].bad_end < bs /\ tbl[k].bad_end \in Nat
              BY <7>1, <3>1, SortedOrder
            <7>3. s \in Nat /\ bs \in Nat /\ be \in Nat /\ bs <= be /\ be < s
              BY <3>1, <3>5
            <7>. HIDE DEF bs, be, G
            <7>. QED
              BY ONLY <7>2, <7>3
          <6>. QED
            BY <6>1, <6>2
        <5>. QED
          BY <5>1 DEF Behead
      <4>2. m - 1 \in Nat /\ m - 1 < m /\ i + 1 \in 1 .. Len(tbl) + 1
            /\ Len(tbl) + 1 - (i + 1) = m - 1
        BY <2>1, <2>5, <1>0
      <4>3. m - 1 \in G
        <5>. HIDE DEF G
        <5>. QED
          BY <4>2, <1>2
      <4>. HIDE DEF Right
      <4>. QED
        BY <4>1, <4>2, <4>3
    <3>6. be < last => Covers(tbl, be + 1, last - be, rest)
      <4>1. be < last => be + 1 \in 0 .. last /\ be < be + 1 /\ last - (be + 1) + 1 = last - be
        <5>1. be \in Nat /\ last \in Int
          BY <3>1
        <5>. HIDE DEF be
        <5>. QED
          BY ONLY <5>1
      <4>. HIDE DEF be, G, rest
      <4>2. be + 1 \in 0 .. last /\ be < be + 1 => Right(i + 1, be + 1)
        BY <3>5, Zenon
      <4>. QED
        BY <4>1, <4>2 DEF rest
    <3>. HIDE DEF bs, be, gs, rest, G
    <3>7. CASE last < bs
      <4>1. cut[<<i, sec>>] = <<Cookie(sec, n)>>
        BY <2>2, <3>2, <3>7 DEF CutCases
      <4>2. \A j \in 0 .. n - 1 : Home(tbl, sec + j) = sec + j
        BY <3>3, <3>7, <2>3, <3>1
      <4>. HIDE DEF n
      <4>. QED
        BY <4>1, <4>2, <2>3, CoverOne DEF n
    <3>8. CASE last >= bs /\ sec > be
      <4>1. cut[<<i, sec>>] = cut[<<i + 1, sec>>]
        BY <2>2, <3>2, <3>8 DEF CutCases
      <4>. QED
        BY <4>1, <3>5, <3>8
    <3>9. CASE sec \in bs .. be /\ last \in bs .. be
      <4>. DEFINE to == gs + sec - bs
      <4>1. cut[<<i, sec>>] = <<Cookie(to, n)>>
        BY <2>2, <3>2, <3>9 DEF CutCases
      <4>2. to \in Nat /\ \A j \in 0 .. n - 1 : Home(tbl, sec + j) = to + j
        <5>1. ASSUME NEW j \in 0 .. n - 1 PROVE Home(tbl, sec + j) = to + j
          <6>1. sec + j \in bs .. be
            BY <3>1, <3>9
          <6>2. Home(tbl, sec + j) = gs + (sec + j) - bs
            BY <6>1, <3>4
          <6>. QED
            BY <6>2, <3>1
        <5>. QED
          BY <5>1, <3>1, <3>9
      <4>. HIDE DEF n, to
      <4>. QED
        BY <4>1, <4>2, <2>3, CoverOne DEF n
    <3>10. CASE sec < bs /\ last \in bs .. be
      <4>. DEFINE tail == <<Cookie(gs, last - bs + 1)>>
      <4>1. cut[<<i, sec>>] = <<Cookie(sec, bs - sec), Cookie(gs, last - bs + 1)>>
        BY <2>2, <3>2, <3>10 DEF CutCases
      <4>2. \A j \in 0 .. (bs - sec) - 1 : Home(tbl, sec + j) = sec + j
        BY <3>3, <3>10, <3>1
      <4>3. \A j \in 0 .. (last - bs + 1) - 1 : Home(tbl, bs + j) = gs + j
        <5>1. ASSUME NEW j \in 0 .. (last - bs + 1) - 1 PROVE Home(tbl, bs + j) = gs + j
          <6>1. bs + j \in bs .. be
            BY <3>1, <3>10
          <6>2. Home(tbl, bs + j) = gs + (bs + j) - bs
            BY <6>1, <3>4
          <6>. QED
            BY <6>2, <3>1
        <5>. QED
          BY <5>1
      <4>4. last - bs + 1 \in Nat \ {0} /\ bs - sec \in 1 .. n /\ sec + (bs - sec) = bs
            /\ n - (bs - sec) = last - bs + 1
        BY <3>1, <3>10
      <4>5. Covers(tbl, bs, last - bs + 1, tail)
        BY <4>3, <4>4, <3>1, CoverOne
      <4>6. Covers(tbl, sec + (bs - sec), n - (bs - sec), tail)
        <5>. HIDE DEF tail, n
        <5>. QED
          BY <4>4, <4>5
      <4>. HIDE DEF tail, n
      <4>7. Covers(tbl, sec, n, <<Cookie(sec, bs - sec)>> \o tail)
        BY <4>2, <4>4, <4>6, <2>3, CoverCons
      <4>8. <<Cookie(sec, bs - sec)>> \o tail = cut[<<i, sec>>]
        <5>1. Cookie(sec, bs - sec) \in IntCookie /\ Cookie(gs, last - bs + 1) \in IntCookie
          BY <3>1 DEF Cookie, IntCookie
        <5>. QED
          BY <5>1, <4>1, PairCons DEF tail
      <4>. QED
        BY <4>7, <4>8 DEF n
    <3>11. CASE sec \in bs .. be /\ last > be
      <4>. DEFINE to == gs + sec - bs
      <4>1. cut[<<i, sec>>] = <<Cookie(to, be - sec + 1)>> \o rest
        BY <2>2, <3>2, <3>11 DEF CutCases, rest
      <4>2. \A j \in 0 .. (be - sec + 1) - 1 : Home(tbl, sec + j) = to + j
        <5>1. ASSUME NEW j \in 0 .. (be - sec + 1) - 1 PROVE Home(tbl, sec + j) = to + j
          <6>1. sec + j \in bs .. be
            BY <3>1, <3>11
          <6>2. Home(tbl, sec + j) = gs + (sec + j) - bs
            BY <6>1, <3>4
          <6>. QED
            BY <6>2, <3>1
        <5>. QED
          BY <5>1
      <4>3. be - sec + 1 \in 1 .. n /\ sec + (be - sec + 1) = be + 1
            /\ n - (be - sec + 1) = last - be /\ to \in Nat
        BY <3>1, <3>11
      <4>. HIDE DEF to, n
      <4>4. Covers(tbl, sec + (be - sec + 1), n - (be - sec + 1), rest)
        BY <4>3, <3>6, <3>11
      <4>5. Covers(tbl, sec, n, <<Cookie(to, be - sec + 1)>> \o rest)
        BY <4>2, <4>3, <4>4, <2>3, CoverCons
      <4>. QED
        BY <4>1, <4>5 DEF n
    <3>12. CASE sec < bs /\ last > be
      <4>. DEFINE tail == <<Cookie(gs, be - bs + 1)>> \o rest
      <4>1. cut[<<i, sec>>] = <<Cookie(sec, bs - sec), Cookie(gs, be - bs + 1)>> \o rest
        BY <2>2, <3>2, <3>12 DEF CutCases, rest
      <4>2. \A j \in 0 .. (bs - sec) - 1 : Home(tbl, sec + j) = sec + j
        BY <3>3, <3>12, <3>1
      <4>3. \A j \in 0 .. (be - bs + 1) - 1 : Home(tbl, bs + j) = gs + j
        <5>1. ASSUME NEW j \in 0 .. (be - bs + 1) - 1 PROVE Home(tbl, bs + j) = gs + j
          <6>1. bs + j \in bs .. be
            BY <3>1
          <6>2. Home(tbl, bs + j) = gs + (bs + j) - bs
            BY <6>1, <3>4
          <6>. QED
            BY <6>2, <3>1
        <5>. QED
          BY <5>1
      <4>4. be - bs + 1 \in 1 .. last - bs + 1 /\ bs + (be - bs + 1) = be + 1
            /\ (last - bs + 1) - (be - bs + 1) = last - be /\ last - bs + 1 \in Nat
            /\ bs - sec \in 1 .. n /\ sec + (bs - sec) = bs
            /\ n - (bs - sec) = last - bs + 1
        BY <3>1, <3>12
      <4>5. Covers(tbl, bs + (be - bs + 1), (last - bs + 1) - (be - bs + 1), rest)
        BY <4>4, <3>6, <3>12
      <4>. HIDE DEF n
      <4>6. Covers(tbl, bs, last - bs + 1, tail)
        BY <4>3, <4>4, <4>5, <3>1, CoverCons
      <4>. HIDE DEF tail
      <4>7. Covers(tbl, sec + (bs - sec), n - (bs - sec), tail)
        BY <4>4, <4>6
      <4>8. Covers(tbl, sec, n, <<Cookie(sec, bs - sec)>> \o tail)
        BY <4>2, <4>4, <4>7, <2>3, CoverCons
      <4>9. <<Cookie(sec, bs - sec)>> \o tail = cut[<<i, sec>>]
        <5>1. rest \in Seq(IntCookie)
          <6>1. rest \in Seq(CookieSet) /\ CookieSet \subseteq IntCookie
            BY <3>6, <3>12 DEF Covers, CookieSet, IntCookie
          <6>. QED
            BY <6>1
        <5>2. Cookie(sec, bs - sec) \in IntCookie /\ Cookie(gs, be - bs + 1) \in IntCookie
          BY <3>1 DEF Cookie, IntCookie
        <5>. QED
          BY <5>1, <5>2, <4>1, PairCons DEF tail
      <4>. QED
        BY <4>8, <4>9 DEF n
    <3>. QED
      BY <3>1, <3>7, <3>8, <3>9, <3>10, <3>11, <3>12
  <2>. QED
    BY <1>0, <2>4, <2>5
<1>3. \A n \in Nat : n \in G
  <2>. HIDE DEF G
  <2>. QED
    BY <1>2, SetInduction
<1>4. Len(tbl) + 1 - i0 \in G
  <2>1. Len(tbl) + 1 - i0 \in Nat
    BY <1>0
  <2>. HIDE DEF G
  <2>. QED
    BY <1>3, <2>1
<1>5. Right(i0, sec0)
  <2>. HIDE DEF Right
  <2>. QED
    BY <1>4
<1>. QED
  BY <1>1, <1>5

(* cmdk_bbh_gethandle: without a handle all sectors are good; else its     *)
(* cookies name, in order, the place of every sector of the transfer, for  *)
(* any sorted table and any transfer.                                      *)
THEOREM GetHandleRight ==
  ASSUME NEW tbl, Sorted(tbl), NEW sec \in Nat, NEW n \in Nat \ {0}
  PROVE  IF GetHandle(tbl, sec, n) = <<>>
         THEN \A x \in sec .. sec + n - 1 : Home(tbl, x) = x
         ELSE Covers(tbl, sec, n, GetHandle(tbl, sec, n))
<1>. DEFINE r == Bsearch(tbl, sec)  last == sec + n - 1
            i == IF r = 0 THEN Len(tbl) + 1 ELSE r
<1>1. First(tbl, sec, r)
  BY BsearchFirst
<1>2. Len(tbl) \in Nat /\ last \in Nat /\ sec \in 0 .. last /\ last - sec + 1 = n
  BY SortedOrder
<1>. HIDE DEF r, last
<1>3. i \in 1 .. Len(tbl) + 1 /\ (r # 0 => i = r /\ i \in 1 .. Len(tbl))
  BY <1>1, <1>2 DEF First
<1>4. Behead(tbl, i, sec)
  BY <1>1, <1>2 DEF First, Behead
<1>5. CASE r = 0
  <2>1. GetHandle(tbl, sec, n) = <<>>
    BY <1>5 DEF GetHandle, r
  <2>2. \A x \in sec .. last : Home(tbl, x) = x
    BY <1>2, <1>3, <1>4, <1>5, HomeBetween
  <2>. QED
    BY <2>1, <2>2 DEF last
<1>6. CASE r # 0 /\ last < tbl[r].bad_start
  <2>1. GetHandle(tbl, sec, n) = <<>>
    BY <1>6 DEF GetHandle, r, last
  <2>2. tbl[r].bad_start \in Nat
    BY <1>3, <1>6, SortedOrder
  <2>3. \A x \in sec .. last : Home(tbl, x) = x
    <3>1. ASSUME NEW x \in sec .. last PROVE Home(tbl, x) = x
      <4>1. x \in Nat /\ sec <= x /\ x < tbl[i].bad_start
        BY <1>2, <1>3, <1>6, <2>2
      <4>. HIDE DEF i
      <4>. QED
        BY <4>1, <1>3, <1>4, HomeBetween
    <3>. QED
      BY <3>1
  <2>. QED
    BY <2>1, <2>3 DEF last
<1>7. CASE r # 0 /\ ~(last < tbl[r].bad_start)
  <2>1. GetHandle(tbl, sec, n) = CutCookies(tbl, r, sec, last)
    BY <1>7 DEF GetHandle, r, last
  <2>. HIDE DEF i
  <2>2. Covers(tbl, sec, last - sec + 1, CutCookies(tbl, i, sec, last))
    BY <1>2, <1>3, <1>4, CutCovers
  <2>3. Covers(tbl, sec, n, GetHandle(tbl, sec, n))
    BY <2>1, <2>2, <1>2, <1>3, <1>7
  <2>. QED
    BY <2>3 DEF Covers
<1>. QED
  BY <1>5, <1>6, <1>7
(***************************************************************************)
(* Sector numbers and registers.                                           *)

(* Products grow with their factors.                                       *)
LEMMA MulMono ==
  ASSUME NEW a \in Nat, NEW b \in Nat, NEW c \in Nat, a <= b
  PROVE  a * c <= b * c
<1>. DEFINE d == b - a
<1>1. d \in Nat /\ b = a + d
  OBVIOUS
<1>. HIDE DEF d
<1>2. b * c = a * c + d * c /\ a * c \in Nat /\ d * c \in Nat
  BY <1>1
<1>. QED
  BY <1>2

(* A product of positive numbers is positive.                              *)
LEMMA MulPos ==
  ASSUME NEW a \in Nat \ {0}, NEW b \in Nat \ {0}
  PROVE  a * b \in Nat \ {0}
OBVIOUS

(* Quotient and remainder, for a divisor that is not a numeral.            *)
LEMMA DivMod ==
  ASSUME NEW n \in Nat, NEW a \in Nat \ {0}
  PROVE  /\ n \div a \in Nat /\ n % a \in 0 .. a - 1
         /\ n = a * (n \div a) + (n % a)
<1>1. n % a \in 0 .. a - 1
  OBVIOUS
<1>2. n \div a \in Int
  OBVIOUS
<1>3. n = a * (n \div a) + (n % a)
  OBVIOUS
<1>. DEFINE q == n \div a  r == n % a
<1>. HIDE DEF q, r
<1>4. q >= 0
  <2>1. SUFFICES ASSUME q <= -1 PROVE FALSE
    BY <1>2 DEF q
  <2>. DEFINE d == -q
  <2>2. d \in Nat /\ 1 <= d /\ q = -d
    BY <1>2, <2>1 DEF q
  <2>. HIDE DEF d
  <2>3. 1 * a <= d * a
    BY <2>2, MulMono
  <2>4. a * q = -(d * a) /\ d * a \in Nat
    BY <2>2
  <2>. QED
    BY <1>1, <1>3, <2>3, <2>4 DEF q, r
<1>. QED
  BY <1>1, <1>2, <1>3, <1>4 DEF q

(* They are the only ones.                                                 *)
LEMMA DivUnique ==
  ASSUME NEW a \in Nat \ {0}, NEW q \in Nat, NEW r \in 0 .. a - 1
  PROVE  (a * q + r) \div a = q /\ (a * q + r) % a = r
<1>. DEFINE n == a * q + r  p == n \div a  s == n % a
<1>1. n \in Nat
  OBVIOUS
<1>. HIDE DEF n
<1>2. p \in Nat /\ s \in 0 .. a - 1 /\ n = a * p + s
  BY <1>1, DivMod
<1>. HIDE DEF p, s
<1>3. p >= q
  <2>1. SUFFICES ASSUME p < q PROVE FALSE
    BY <1>2
  <2>2. (p + 1) * a <= q * a
    BY <2>1, <1>2, MulMono
  <2>3. (p + 1) * a = a * p + a /\ q * a = a * q
    BY <1>2
  <2>4. a * p \in Nat /\ a * q \in Nat
    BY <1>2
  <2>. QED
    BY <2>2, <2>3, <2>4, <1>2 DEF n
<1>4. p <= q
  <2>1. SUFFICES ASSUME p > q PROVE FALSE
    BY <1>2
  <2>2. (q + 1) * a <= p * a
    BY <2>1, <1>2, MulMono
  <2>3. (q + 1) * a = a * q + a /\ p * a = a * p
    BY <1>2
  <2>4. a * p \in Nat /\ a * q \in Nat
    BY <1>2
  <2>. QED
    BY <2>2, <2>3, <2>4, <1>2 DEF n
<1>5. p = q
  BY <1>2, <1>3, <1>4
<1>6. s = r
  BY <1>2, <1>5 DEF n
<1>. QED
  BY <1>5, <1>6 DEF n, p, s

(* Dividing twice is dividing by the product.                              *)
LEMMA DivDiv ==
  ASSUME NEW n \in Nat, NEW a \in Nat \ {0}, NEW b \in Nat \ {0}
  PROVE  n \div (a * b) = (n \div a) \div b
<1>. DEFINE q == n \div a  r == n % a  p == q \div b  s == q % b
<1>1. q \in Nat /\ r \in 0 .. a - 1 /\ n = a * q + r
  BY DivMod
<1>. HIDE DEF q, r
<1>2. p \in Nat /\ s \in 0 .. b - 1 /\ q = b * p + s
  BY <1>1, DivMod
<1>. HIDE DEF p, s
<1>3. n = (a * b) * p + (a * s + r)
  <2>. DEFINE A == a * q  B == (a * b) * p  C == a * s
  <2>1. A = a * (b * p) + C /\ a * (b * p) = B
    BY <1>1, <1>2
  <2>2. B \in Nat /\ C \in Nat /\ n = A + r
    BY <1>1, <1>2
  <2>3. n = B + (C + r)
    <3>. HIDE DEF A, B, C
    <3>. QED
      BY <2>1, <2>2, <1>1
  <2>. QED
    BY <2>3
<1>4. a * s + r \in 0 .. a * b - 1
  <2>1. (s + 1) * a <= b * a
    BY <1>2, MulMono
  <2>2. (s + 1) * a = a * s + a /\ b * a = a * b /\ a * s \in Nat /\ a * b \in Nat
    BY <1>2
  <2>. QED
    BY <2>1, <2>2, <1>1
<1>5. a * b \in Nat \ {0}
  BY MulPos
<1>. DEFINE c == a * b  t == a * s + r
<1>6. n = c * p + t /\ c \in Nat \ {0} /\ t \in 0 .. c - 1
  BY <1>3, <1>4, <1>5
<1>. HIDE DEF c, t
<1>7. n \div c = p
  BY <1>2, <1>6, DivUnique
<1>. QED
  BY <1>7 DEF c, p, q

(* The quotient of a number below a * b is below b.                        *)
LEMMA DivLess ==
  ASSUME NEW n \in Nat, NEW a \in Nat \ {0}, NEW b \in Nat, n < a * b
  PROVE  n \div a < b
<1>. DEFINE q == n \div a  r == n % a
<1>1. q \in Nat /\ r \in 0 .. a - 1 /\ n = a * q + r
  BY DivMod
<1>. HIDE DEF q, r
<1>2. SUFFICES ASSUME b <= q PROVE FALSE
  BY <1>1 DEF q
<1>3. b * a <= q * a
  BY <1>1, <1>2, MulMono
<1>4. b * a = a * b /\ q * a = a * q /\ a * q \in Nat /\ a * b \in Nat
  BY <1>1
<1>. QED
  BY <1>1, <1>3, <1>4

(* A number below the divisor is its own remainder.                        *)
LEMMA SmallMod ==
  ASSUME NEW b \in Nat \ {0}, NEW n \in 0 .. b - 1
  PROVE  n % b = n
<1>1. (b * 0 + n) % b = n
  BY DivUnique
<1>2. b * 0 + n = n
  OBVIOUS
<1>. QED
  BY <1>1, <1>2

(* Three digits and the rest of a number.                                  *)
LEMMA Digits ==
  ASSUME NEW n \in Nat, NEW R \in Nat \ {0}
  PROVE  /\ R * R * R \in Nat \ {0}
         /\ n = (n % R) + R * (((n \div R) % R) + R * ((n \div (R * R)) % R))
                + R * R * R * (n \div (R * R * R))
<1>. DEFINE q1 == n \div R  q2 == q1 \div R  q3 == q2 \div R
            r0 == n % R  r1 == q1 % R  r2 == q2 % R
<1>1. q1 \in Nat /\ r0 \in Nat /\ n = R * q1 + r0
  BY DivMod
<1>. HIDE DEF q1, r0
<1>2. q2 \in Nat /\ r1 \in Nat /\ q1 = R * q2 + r1
  BY <1>1, DivMod
<1>. HIDE DEF q2, r1
<1>3. q3 \in Nat /\ r2 \in Nat /\ q2 = R * q3 + r2
  BY <1>2, DivMod
<1>. HIDE DEF q3, r2
<1>4. R * R \in Nat \ {0}
  BY MulPos
<1>5. (R * R) * R \in Nat \ {0}
  BY <1>4, MulPos
<1>6. n \div (R * R) = q2
  BY DivDiv DEF q1, q2
<1>7. n \div ((R * R) * R) = q3
  <2>1. n \div ((R * R) * R) = (n \div (R * R)) \div R
    BY <1>4, DivDiv
  <2>. QED
    BY <2>1, <1>6 DEF q3
<1>8. n = r0 + R * (r1 + R * r2) + R * R * R * q3
  <2>. DEFINE A == R * q1  B == R * (R * q2)  C == R * r1  D == R * R * R * q3
              E == R * (R * r2)  F == R * (r1 + R * r2)
  <2>1. A = B + C
    BY <1>2
  <2>2. B = D + E
    <3>1. R * q2 = R * (R * q3) + R * r2
      BY <1>3
    <3>2. R * (R * q2) = R * (R * (R * q3)) + R * (R * r2)
      BY <1>3
    <3>3. R * (R * (R * q3)) = R * R * R * q3
      BY <1>3
    <3>. QED
      BY <3>2, <3>3
  <2>3. F = C + E
    BY <1>2, <1>3
  <2>4. A \in Nat /\ B \in Nat /\ C \in Nat /\ D \in Nat /\ E \in Nat /\ F \in Nat
    <3>1. R * q1 \in Nat /\ R * q2 \in Nat /\ R * r2 \in Nat /\ R * R * R \in Nat
      BY <1>1, <1>2, <1>3, <1>5
    <3>. QED
      BY <3>1, <1>2, <1>3
  <2>5. n = A + r0
    BY <1>1
  <2>6. n = r0 + F + D
    <3>. HIDE DEF A, B, C, D, E, F
    <3>. QED
      BY <2>1, <2>2, <2>3, <2>4, <2>5, <1>1
  <2>. QED
    BY <2>6
<1>. QED
  BY <1>5, <1>6, <1>7, <1>8 DEF q1, r0, r1, r2

(* The turns of ata_fix_large_disk_geometry do not raise the capacity.     *)
LEMMA HalveLess ==
  ASSUME NEW g \in Chs
  PROVE  Halve(g) \in Chs
         /\ Halve(g).cyl * Halve(g).head * Halve(g).sec <= g.cyl * g.head * g.sec
<1>. DEFINE c == g.cyl  h == g.head  s == g.sec
<1>1. c \in Nat /\ h \in Nat /\ s \in Nat /\ g = [cyl |-> c, head |-> h, sec |-> s]
  BY DEF Chs
<1>2. UShortMax \in Nat
  <2>1. Reg * Reg \in Nat \ {0}
    BY RegAssumption, MulPos
  <2>. QED
    BY <2>1 DEF UShortMax
<1>3. CASE c <= UShortMax
  <2>1. Halve(g) = g
    BY <1>3 DEF Halve
  <2>2. c * h * s \in Int
    BY <1>1
  <2>. QED
    BY <2>1, <2>2
<1>4. CASE c > UShortMax /\ 2 * h > UShortMax
  <2>1. Halve(g) = [cyl |-> UShortMax, head |-> h, sec |-> s]
    BY <1>1, <1>2, <1>4 DEF Halve
  <2>2. UShortMax * h <= c * h
    BY <1>1, <1>2, <1>4, MulMono
  <2>3. UShortMax * h \in Nat /\ c * h \in Nat
    BY <1>1, <1>2
  <2>4. (UShortMax * h) * s <= (c * h) * s
    <3>. HIDE DEF c, h, s
    <3>. QED
      BY <1>1, <2>2, <2>3, MulMono
  <2>. QED
    BY <2>1, <2>4, <1>1, <1>2 DEF Chs
<1>5. CASE c > UShortMax /\ ~(2 * h > UShortMax)
  <2>. DEFINE d == c \div 2
  <2>1. Halve(g) = [g EXCEPT !.cyl = d, !.head = 2 * h]
    <3>1. ~(g.cyl <= UShortMax) /\ ~(2 * g.head > UShortMax)
      BY <1>1, <1>2, <1>5
    <3>. QED
      BY <3>1 DEF Halve
  <2>2. d \in Nat /\ 2 * d <= c
    BY <1>1
  <2>. HIDE DEF d
  <2>3. (2 * d) * h <= c * h
    BY <1>1, <2>2, MulMono
  <2>4. d * (2 * h) = (2 * d) * h /\ d * (2 * h) \in Nat /\ c * h \in Nat
    BY <1>1, <2>2
  <2>5. (d * (2 * h)) * s <= (c * h) * s
    <3>. HIDE DEF c, h, s
    <3>. QED
      BY <1>1, <2>3, <2>4, MulMono
  <2>6. Halve(g) \in Chs /\ Halve(g).cyl = d /\ Halve(g).head = 2 * h /\ Halve(g).sec = s
    <3>. DEFINE w == 2 * h  r == [g EXCEPT !.cyl = d, !.head = w]
    <3>1. w \in Nat
      BY <1>1
    <3>. HIDE DEF w, h, s, c
    <3>2. r \in Chs /\ r.cyl = d /\ r.head = w /\ r.sec = g.sec
      BY <2>2, <3>1 DEF Chs
    <3>. QED
      BY <2>1, <3>2 DEF w, s
  <2>. QED
    BY <2>5, <2>6
<1>. QED
  BY <1>1, <1>2, <1>3, <1>4, <1>5

Volume(g) == g.cyl * g.head * g.sec

(* A geometry has a number of sectors.                                     *)
LEMMA VolumeInt ==
  ASSUME NEW g \in Chs PROVE Volume(g) \in Nat
BY DEF Chs, Volume

(* ata_fix_large_disk_geometry does not raise the capacity.                *)
LEMMA FixLargeLess ==
  ASSUME NEW g \in Chs
  PROVE  FixLarge(g) \in Chs /\ Volume(FixLarge(g)) <= Volume(g)
<1>0. Reg \in Nat
  BY RegAssumption
<1>. DEFINE top == 2 * Reg
            S == 0 .. top
            rank == [n \in S |-> n]
            D == [q \in [S -> Chs] \X S |-> IF q[2] = 0 THEN g ELSE Halve(q[1][q[2] - 1])]
            P == CHOOSE f : f = [n \in S |-> IF n = 0 THEN g ELSE Halve(f[n - 1])]
<1>1. Recursive(S, Chs, rank, D)
  <2>1. Chs # {} /\ rank \in [S -> Nat]
    BY <1>0
  <2>2. D \in [[S -> Chs] \X S -> Chs]
    <3>1. ASSUME NEW f \in [S -> Chs], NEW n \in S, n # 0 PROVE Halve(f[n - 1]) \in Chs
      <4>1. n - 1 \in S
        BY <3>1, <1>0
      <4>2. f[n - 1] \in Chs
        BY <4>1
      <4>. QED
        BY <4>2, HalveLess
    <3>2. ASSUME NEW q \in [S -> Chs] \X S
          PROVE  (IF q[2] = 0 THEN g ELSE Halve(q[1][q[2] - 1])) \in Chs
      <4>1. q[1] \in [S -> Chs] /\ q[2] \in S
        OBVIOUS
      <4>. QED
        BY <4>1, <3>1
    <3>. QED
      BY <3>2
  <2>3. ASSUME NEW f \in [S -> Chs], NEW h \in [S -> Chs], NEW n \in S,
               \A y \in S : rank[y] < rank[n] => f[y] = h[y]
        PROVE  D[<<f, n>>] = D[<<h, n>>]
    <3>1. n # 0 => f[n - 1] = h[n - 1]
      <4>1. n # 0 => n - 1 \in S /\ n - 1 < n
        BY <1>0
      <4>. QED
        BY <4>1, <2>3
    <3>. QED
      BY <3>1
  <2>. QED
    BY <2>1, <2>2, <2>3 DEF Recursive
<1>2. PICK f \in [S -> Chs] : \A n \in S : f[n] = D[<<f, n>>]
  <2>. HIDE DEF S, rank, D
  <2>. QED
    BY <1>1, RecursionDefines
<1>3. f = [n \in S |-> IF n = 0 THEN g ELSE Halve(f[n - 1])]
  BY <1>2
<1>4. P = [n \in S |-> IF n = 0 THEN g ELSE Halve(P[n - 1])]
  BY <1>3, Zenon
<1>5. FixLarge(g) = P[top]
  BY Zenon DEF FixLarge
<1>. HIDE DEF P
<1>6. \A n \in S : P[n] = IF n = 0 THEN g ELSE Halve(P[n - 1])
  BY <1>4
<1>. DEFINE G == {n \in Nat : n \in S => P[n] \in Chs /\ Volume(P[n]) <= Volume(g)}
<1>7. ASSUME NEW n \in Nat, \A m \in Nat : m < n => m \in G PROVE n \in G
  <2>1. SUFFICES ASSUME n \in S PROVE P[n] \in Chs /\ Volume(P[n]) <= Volume(g)
    OBVIOUS
  <2>2. Volume(g) \in Int
    BY DEF Chs, Volume
  <2>3. CASE n = 0
    BY <2>1, <2>2, <2>3, <1>6
  <2>4. CASE n # 0
    <3>1. n - 1 \in Nat /\ n - 1 < n /\ n - 1 \in S
      <4>. HIDE DEF G
      <4>. QED
        BY <2>1, <2>4, <1>0
    <3>2. P[n - 1] \in Chs /\ Volume(P[n - 1]) <= Volume(g)
      BY <3>1, <1>7
    <3>3. P[n] = Halve(P[n - 1])
      BY <2>1, <2>4, <1>6
    <3>4. Halve(P[n - 1]) \in Chs /\ Volume(Halve(P[n - 1])) <= Volume(P[n - 1])
      BY <3>2, HalveLess DEF Volume
    <3>5. Volume(P[n - 1]) \in Int /\ Volume(Halve(P[n - 1])) \in Int
      BY <3>2, <3>4, VolumeInt
    <3>. QED
      BY <3>2, <3>3, <3>4, <3>5, <2>2
  <2>. QED
    BY <2>3, <2>4
<1>8. \A n \in Nat : n \in G
  <2>. HIDE DEF G
  <2>. QED
    BY <1>7, SetInduction
<1>9. top \in Nat /\ top \in S
  BY <1>0
<1>. QED
  BY <1>5, <1>8, <1>9

(* Conversions to int and to 64 bits leave what an int holds as it is, the *)
(* conversion to short a zero-based count that a short holds.              *)
LEMMA Narrow ==
  /\ IntMax \in Nat /\ UIntEnd = 2 * (IntMax + 1)
  /\ \A n \in 0 .. IntMax : ToInt(n) = n /\ ToU64(n) = n /\ n % UIntEnd = n
  /\ \A n \in -1 .. ShortEnd - 1 : ToShort(n) = n
  /\ ShortEnd \in Nat /\ ShortEnd <= IntMax
<1>1. IntMax \in Nat /\ Reg \in Nat /\ Reg >= 2 /\ Reg * Reg - 1 <= IntMax
  BY RegAssumption DEF UShortMax
<1>2. UIntEnd = 2 * (IntMax + 1) /\ UIntEnd \in Nat \ {0}
  BY <1>1 DEF UIntEnd
<1>3. ASSUME NEW n \in 0 .. IntMax
      PROVE  ToInt(n) = n /\ ToU64(n) = n /\ n % UIntEnd = n
  <2>1. n + IntMax + 1 \in 0 .. UIntEnd - 1 /\ n \in 0 .. UIntEnd - 1
    BY <1>1, <1>2
  <2>2. (n + IntMax + 1) % UIntEnd = n + IntMax + 1 /\ n % UIntEnd = n
    BY <1>2, <2>1, SmallMod
  <2>. QED
    BY <1>1, <2>2 DEF ToInt, ToU64
<1>. DEFINE R == Reg * Reg
<1>4. R \in Nat /\ R >= 4
  <2>1. 2 * Reg <= Reg * Reg
    BY <1>1, MulMono
  <2>2. Reg * Reg \in Nat
    BY <1>1
  <2>. QED
    BY <1>1, <2>1, <2>2
<1>. HIDE DEF R
<1>5. ShortEnd = R \div 2
  BY DEF ShortEnd, R
<1>6. ShortEnd \in Nat /\ ShortEnd >= 2 /\ 2 * ShortEnd <= R
  BY <1>4, <1>5
<1>7. ASSUME NEW n \in -1 .. ShortEnd - 1 PROVE ToShort(n) = n
  <2>1. n + ShortEnd \in 0 .. R - 1 /\ R \in Nat \ {0}
    BY <1>4, <1>6
  <2>2. (n + ShortEnd) % R = n + ShortEnd
    BY <2>1, SmallMod
  <2>3. ToShort(n) = ((n + ShortEnd) % R) - ShortEnd
    BY DEF ToShort, R
  <2>. QED
    BY <1>6, <2>2, <2>3
<1>8. ShortEnd <= IntMax
  <2>1. R - 1 <= IntMax
    BY <1>1 DEF R
  <2>. QED
    BY <1>1, <1>4, <1>6, <2>1
<1>. QED
  BY <1>1, <1>2, <1>3, <1>6, <1>7, <1>8

(* Whatever a conversion makes of a number is a number of sectors.         *)
LEMMA ConvertedNat ==
  ASSUME NEW n \in Nat
  PROVE  ToU64(ToInt(n)) \in Nat
<1>. DEFINE m == (n + IntMax + 1) % UIntEnd  U == UIntEnd
<1>1. IntMax \in Nat /\ U = 2 * (IntMax + 1) /\ U \in Nat \ {0}
  BY Narrow
<1>2. m \in Nat
  <2>1. n + IntMax + 1 \in Nat
    BY <1>1
  <2>. QED
    BY <1>1, <2>1, DivMod
<1>3. ToInt(n) = m - (IntMax + 1)
  BY DEF ToInt
<1>4. U * U \in Nat /\ U * U >= IntMax + 1
  <2>1. 1 * U <= U * U
    BY <1>1, MulMono
  <2>2. U * U \in Nat
    BY <1>1
  <2>. HIDE DEF U
  <2>. QED
    BY <1>1, <2>1, <2>2
<1>5. ToU64(ToInt(n)) = IF ToInt(n) < 0 THEN ToInt(n) + U * U ELSE ToInt(n)
  BY DEF ToU64
<1>. HIDE DEF m, U
<1>. QED
  BY <1>1, <1>2, <1>3, <1>4, <1>5

(* The capacity of a sound disk.                                           *)
LEMMA CapacityNat ==
  ASSUME NEW id, NEW bios, Sound(id, bios)
  PROVE  Capacity(id) \in Nat
         /\ (LbaSupport(id) => Capacity28(id) = id.cap28 /\ id.cap28 <= Max28)
<1>1. id \in Identify
  BY DEF Sound
<1>2. /\ id.cap28 \in Nat /\ id.cap48 \in Nat /\ id.cursccp \in Nat
      /\ id.fixcyls \in Nat /\ id.heads \in Nat /\ id.sectors \in Nat
  BY <1>1 DEF Identify
<1>3. id.fixcyls * id.heads * id.sectors \in Nat
  BY <1>2
<1>4. ToU64(ToInt(id.cap28)) \in Nat
      /\ ToU64(ToInt(id.fixcyls * id.heads * id.sectors)) \in Nat
  BY <1>2, <1>3, ConvertedNat
<1>5. Capacity(id) \in Nat
  BY <1>2, <1>4 DEF Capacity, Capacity28
<1>6. ASSUME LbaSupport(id)
      PROVE  Capacity28(id) = id.cap28 /\ id.cap28 <= Max28
  <2>1. id.cap28 <= Max28 /\ Max28 <= IntMax
    BY <1>6, RegAssumption DEF Sound
  <2>2. Max28 \in Int
    BY RegAssumption DEF Max28
  <2>3. id.cap28 \in 0 .. IntMax
    BY <1>2, <2>1, <2>2, Narrow
  <2>4. ToU64(ToInt(id.cap28)) = id.cap28
    BY <2>3, Narrow
  <2>. QED
    BY <1>6, <2>1, <2>4 DEF Capacity28
<1>. QED
  BY <1>5, <1>6

(* The capacity that is published of an ordinary disk is at most its own.  *)
LEMMA PublishedLess ==
  ASSUME NEW id, NEW bios, Sound(id, bios), Ordinary(id, bios)
  PROVE  Capacity(id) \in Nat /\ Published(id, bios) <= Capacity(id)
         /\ Published(id, bios) \in Nat
<1>1. id \in Identify
  BY DEF Sound
<1>2. id.fixcyls \in Nat /\ id.heads \in Nat \ {0} /\ id.sectors \in Nat \ {0}
  BY <1>1 DEF Identify
<1>4. Capacity(id) \in Nat /\ Capacity(id) # 0 /\ Capacity(id) <= IntMax
      /\ IntMax \in Nat
  BY Narrow DEF Ordinary
<1>5. FixedCyls(id) \in Nat
  BY <1>2 DEF FixedCyls
<1>. DEFINE cap == Capacity(id)  hs == id.heads * id.sectors
            g == IF bios = NoBios
                 THEN [cyl |-> Capacity(id) \div (id.heads * id.sectors),
                       head |-> id.heads, sec |-> id.sectors]
                 ELSE IF bios.head = id.heads /\ bios.sec = id.sectors
                 THEN [bios EXCEPT !.cyl = FixedCyls(id)]
                 ELSE bios
<1>6. g \in Chs /\ Volume(g) <= cap
  <2>1. CASE bios = NoBios
    <3>. DEFINE q == cap \div hs
    <3>1. hs \in Nat \ {0}
      BY <1>2, MulPos
    <3>2. q \in Nat /\ cap = hs * q + (cap % hs) /\ cap % hs \in Nat
      <4>1. cap \in Nat
        BY <1>4
      <4>. HIDE DEF cap, hs
      <4>2. cap \div hs \in Nat /\ cap % hs \in 0 .. hs - 1 /\ cap = hs * (cap \div hs) + (cap % hs)
        BY <3>1, <4>1, DivMod
      <4>3. cap % hs \in Nat
        BY <4>2, <3>1
      <4>. QED
        BY <4>2, <4>3
    <3>3. g = [cyl |-> q, head |-> id.heads, sec |-> id.sectors]
      BY <2>1
    <3>. HIDE DEF q
    <3>4. q * id.heads * id.sectors = hs * q
      BY <3>2, <1>2
    <3>5. g \in Chs /\ Volume(g) = hs * q
      BY <3>2, <3>3, <3>4, <1>2 DEF Chs, Volume
    <3>6. hs * q \in Nat
      BY <3>1, <3>2
    <3>. HIDE DEF g, hs, cap
    <3>. QED
      BY <3>2, <3>5, <3>6, <1>4 DEF cap
  <2>2. CASE bios # NoBios /\ bios.head = id.heads /\ bios.sec = id.sectors
    <3>1. bios \in Chs /\ FixedCyls(id) * id.heads * id.sectors <= cap
      BY <2>2 DEF Sound, BiosAgrees
    <3>2. g = [bios EXCEPT !.cyl = FixedCyls(id)]
      BY <2>2
    <3>3. g \in Chs /\ g.cyl = FixedCyls(id) /\ g.head = id.heads /\ g.sec = id.sectors
      <4>. HIDE DEF g
      <4>. QED
        BY <3>1, <3>2, <2>2, <1>5 DEF Chs
    <3>. HIDE DEF g
    <3>. QED
      BY <3>1, <3>3 DEF Volume
  <2>3. CASE bios # NoBios /\ ~(bios.head = id.heads /\ bios.sec = id.sectors)
    BY <2>3 DEF Sound, Volume
  <2>. QED
    BY <2>1, <2>2, <2>3
<1>7. Geometry(id, bios) = IF LbaSupport(id) THEN FixLarge(g) ELSE g
  <2>1. ASSUME bios = NoBios PROVE DriveGeometry(id) = g
    <3>1. hs \in Nat \ {0}
      BY <1>2, MulPos
    <3>. HIDE DEF hs
    <3>2. cap \div hs \in Nat /\ cap % hs \in Nat /\ cap = hs * (cap \div hs) + (cap % hs)
      <4>1. cap \in Nat
        BY <1>4
      <4>. HIDE DEF cap
      <4>2. cap \div hs \in Nat /\ cap % hs \in 0 .. hs - 1 /\ cap = hs * (cap \div hs) + (cap % hs)
        BY <3>1, <4>1, DivMod
      <4>. QED
        BY <4>2, <3>1
    <3>3. cap \div hs <= hs * (cap \div hs)
      <4>1. 1 * (cap \div hs) <= hs * (cap \div hs)
        BY <3>1, <3>2, MulMono
      <4>. QED
        BY <3>2, <4>1
    <3>4. cap \div hs \in 0 .. IntMax
      <4>1. hs * (cap \div hs) \in Nat
        BY <3>1, <3>2
      <4>. QED
        BY <3>2, <3>3, <4>1, <1>4
    <3>5. (cap \div hs) % UIntEnd = cap \div hs
      BY <3>4, Narrow
    <3>. QED
      BY <2>1, <3>5, <1>4 DEF DriveGeometry, hs
  <2>2. ASSUME bios # NoBios, BiosAgrees(id, bios)
        PROVE  (ToShort(FixedCyls(id) - 1) + 1) % UIntEnd = FixedCyls(id)
    <3>1. FixedCyls(id) <= ShortEnd
      BY <2>2 DEF Ordinary
    <3>2. FixedCyls(id) - 1 \in -1 .. ShortEnd - 1 /\ FixedCyls(id) \in 0 .. IntMax
      BY <3>1, <1>5, Narrow
    <3>3. ToShort(FixedCyls(id) - 1) = FixedCyls(id) - 1
      BY <3>2, Narrow
    <3>4. ToShort(FixedCyls(id) - 1) + 1 = FixedCyls(id)
      BY <3>3, <1>5
    <3>. QED
      BY <3>2, <3>4, Narrow
  <2>3. g = IF bios = NoBios THEN DriveGeometry(id)
            ELSE IF BiosAgrees(id, bios)
            THEN [bios EXCEPT !.cyl = (ToShort(FixedCyls(id) - 1) + 1) % UIntEnd]
            ELSE bios
    <3>1. CASE bios = NoBios
      <4>1. DriveGeometry(id) = g
        BY <2>1, <3>1
      <4>. HIDE DEF g
      <4>. QED
        BY <3>1, <4>1
    <3>2. CASE bios # NoBios /\ BiosAgrees(id, bios)
      BY <2>2, <3>2 DEF BiosAgrees
    <3>3. CASE bios # NoBios /\ ~BiosAgrees(id, bios)
      BY <3>3 DEF BiosAgrees
    <3>. QED
      BY <3>1, <3>2, <3>3
  <2>. HIDE DEF g
  <2>. QED
    BY <2>3 DEF Geometry
<1>. HIDE DEF g, cap
<1>8. Geometry(id, bios) \in Chs /\ Volume(Geometry(id, bios)) <= cap
  <2>1. FixLarge(g) \in Chs /\ Volume(FixLarge(g)) <= Volume(g)
    BY <1>6, FixLargeLess
  <2>2. Volume(g) \in Nat /\ Volume(FixLarge(g)) \in Nat
    BY <1>6, <2>1, VolumeInt
  <2>. QED
    BY <2>1, <2>2, <1>4, <1>6, <1>7 DEF cap
<1>9. Published(id, bios) = Volume(Geometry(id, bios))
  <2>1. Volume(Geometry(id, bios)) \in 0 .. IntMax
    BY <1>4, <1>8, VolumeInt DEF cap
  <2>2. GCap(id, bios) = ToInt(Volume(Geometry(id, bios)))
    BY DEF GCap, Volume
  <2>. QED
    BY <2>1, <2>2, Narrow DEF Published
<1>. QED
  BY <1>4, <1>8, <1>9, VolumeInt DEF cap

(* ata_disk_load_regs_* and ata_last_block_xferred_*: the sector that is   *)
(* read back from the registers is the one that was loaded, in all three   *)
(* addressing modes, for every sector of a sound disk.                     *)
THEOREM RoundTrip ==
  ASSUME NEW id, NEW bios, Sound(id, bios), NEW n \in 0 .. Capacity(id) - 1
  PROVE  LastBlockXferred(LoadRegs(n, id), id) = n
<1>1. id \in Identify
  BY DEF Sound
<1>2. /\ id.heads \in Nat \ {0} /\ id.sectors \in Nat \ {0}
      /\ id.cap28 \in Nat /\ id.cap48 \in Nat
  BY <1>1 DEF Identify
<1>3. Capacity(id) \in Nat /\ n \in Nat /\ n < Capacity(id)
  BY CapacityNat
<1>4. Reg \in Nat \ {0} /\ Heads \in Nat \ {0}
  BY RegAssumption
<1>. DEFINE R3 == Reg * Reg * Reg
            l0 == n % Reg  l1 == (n \div Reg) % Reg  l2 == (n \div (Reg * Reg)) % Reg
            hi == n \div R3
<1>5. R3 \in Nat \ {0} /\ n = l0 + Reg * (l1 + Reg * l2) + R3 * hi /\ hi \in Nat
      /\ Reg * Reg \in Nat \ {0}
  <2>1. R3 \in Nat \ {0} /\ n = l0 + Reg * (l1 + Reg * l2) + R3 * hi
    BY <1>3, <1>4, Digits
  <2>2. hi \in Nat
    <3>. HIDE DEF R3
    <3>. QED
      BY <2>1, <1>3, DivMod
  <2>3. Reg * Reg \in Nat \ {0}
    BY <1>4, MulPos
  <2>. QED
    BY <2>1, <2>2, <2>3
<1>6. CASE ~LbaSupport(id)
  <2>0. id.heads % Reg = id.heads /\ id.sectors % Reg = id.sectors
    <3>1. id.heads <= Heads /\ id.sectors < Reg /\ Heads < Reg
      BY <1>6, RegAssumption DEF Sound
    <3>2. id.heads \in 0 .. Reg - 1 /\ id.sectors \in 0 .. Reg - 1
      BY <3>1, <1>2, <1>4
    <3>. QED
      BY <3>2, <1>4, SmallMod
  <2>. DEFINE q == n \div id.sectors  s == n % id.sectors
              c == q \div id.heads  h == q % id.heads
              c0 == c % Reg  c1 == (c \div Reg) % Reg
  <2>1. q \in Nat /\ s \in Nat /\ s + 1 \in 0 .. Reg - 1 /\ n = id.sectors * q + s
    <3>1. q \in Nat /\ s \in 0 .. id.sectors - 1 /\ n = id.sectors * q + s
      BY <1>2, <1>3, DivMod
    <3>2. id.sectors < Reg
      BY <1>6 DEF Sound
    <3>. HIDE DEF q, s
    <3>. QED
      BY <3>1, <3>2, <1>2, <1>4
  <2>11. (s + 1) % Reg = s + 1
    BY <2>1, <1>4, SmallMod
  <2>. HIDE DEF q, s
  <2>2. c \in Nat /\ h \in 0 .. id.heads - 1 /\ q = id.heads * c + h
    BY <1>2, <2>1, DivMod
  <2>3. c < Reg * Reg
    <3>1. id.heads <= Heads /\ Capacity(id) <= Reg * Reg * id.heads * id.sectors
      BY <1>6 DEF Sound
    <3>. DEFINE X == Reg * Reg
    <3>2. X * id.heads \in Nat /\ X * id.heads * id.sectors \in Nat
          /\ X * id.heads * id.sectors = id.sectors * (X * id.heads)
          /\ X * id.heads = id.heads * X /\ X \in Nat
      <4>1. X \in Nat
        BY <1>5
      <4>. HIDE DEF X
      <4>. QED
        BY <4>1, <1>2
    <3>. HIDE DEF X
    <3>3. n < id.sectors * (X * id.heads)
      BY <3>1, <3>2, <1>3 DEF X
    <3>4. q < X * id.heads
      BY <3>2, <3>3, <1>2, <1>3, DivLess DEF q
    <3>5. c < X
      BY <3>2, <3>4, <1>2, <2>1, DivLess
    <3>. QED
      BY <3>5 DEF X
  <2>. HIDE DEF c, h
  <2>4. c = c0 + Reg * c1
    <3>. DEFINE d == c \div Reg
    <3>1. d \in Nat /\ c = Reg * d + (c % Reg)
      BY <2>2, <1>4, DivMod
    <3>2. d < Reg
      BY <2>2, <2>3, <1>4, DivLess
    <3>. HIDE DEF d
    <3>3. d % Reg = d
      BY <3>1, <3>2, <1>4, SmallMod
    <3>4. c0 = c % Reg /\ c0 \in Nat /\ c1 = d
      BY <3>3, <2>2, <1>4, DivMod DEF d
    <3>. HIDE DEF c0, c1
    <3>5. Reg * d \in Nat
      BY <3>1, <1>4
    <3>. QED
      BY <3>1, <3>4, <3>5
  <2>5. h % Heads = h
    <3>1. id.heads <= Heads
      BY <1>6 DEF Sound
    <3>2. h \in 0 .. Heads - 1
      BY <3>1, <2>2, <1>2, <1>4
    <3>. QED
      BY <3>2, <1>4, SmallMod
  <2>6. LoadRegs(n, id) = [sect |-> s + 1, lcyl |-> c0, hcyl |-> c1, head |-> h]
    BY <1>6, <2>0, <2>5, <2>11 DEF LoadRegs, LoadRegsChs, q, s, c, h
  <2>. HIDE DEF c0, c1
  <2>7. LastBlockXferred(LoadRegs(n, id), id)
          = ((c0 + Reg * c1) * id.heads + h) * id.sectors + (s + 1) - 1
    BY <1>6, <2>0, <2>6 DEF LastBlockXferred
  <2>8. (c * id.heads + h) * id.sectors = id.sectors * q
    <3>1. c * id.heads = id.heads * c
      BY <1>2, <2>2
    <3>2. c * id.heads + h = q
      BY <3>1, <2>2
    <3>. QED
      BY <3>2, <1>2, <2>1
  <2>9. id.sectors * q \in Nat
    BY <1>2, <2>1
  <2>10. LastBlockXferred(LoadRegs(n, id), id) = id.sectors * q + (s + 1) - 1
    BY <2>4, <2>7, <2>8
  <2>. QED
    BY <2>1, <2>9, <2>10
<1>7. CASE LbaSupport(id) /\ Ext48(id)
  <2>. DEFINE h0 == hi % Reg  h1 == (hi \div Reg) % Reg  h2 == (hi \div (Reg * Reg)) % Reg
  <2>1. hi < R3
    <3>1. Capacity(id) <= R3 * R3
      BY <1>7 DEF Sound, Capacity
    <3>. HIDE DEF R3
    <3>2. R3 * R3 \in Nat
      BY <1>5
    <3>3. n < R3 * R3
      BY <3>1, <3>2, <1>3
    <3>. QED
      BY <3>3, <1>3, <1>5, DivLess DEF hi
  <2>. HIDE DEF hi
  <2>2. hi = h0 + Reg * (h1 + Reg * h2)
    <3>1. hi = h0 + Reg * (h1 + Reg * h2) + R3 * (hi \div R3)
      BY <1>4, <1>5, Digits
    <3>2. hi \div R3 = 0
      <4>. HIDE DEF R3
      <4>1. (R3 * 0 + hi) \div R3 = 0
        BY <2>1, <1>5, DivUnique
      <4>2. R3 * 0 + hi = hi
        BY <1>5
      <4>. QED
        BY <4>1, <4>2
    <3>3. h0 \in Nat /\ h1 \in Nat /\ h2 \in Nat
      BY <1>4, <1>5, DivMod
    <3>. HIDE DEF h0, h1, h2, R3
    <3>4. Reg * (h1 + Reg * h2) \in Nat
      BY <3>3, <1>4
    <3>. QED
      BY <3>1, <3>2, <3>3, <3>4, <1>5
  <2>3. LoadRegs(n, id) =
          [sect |-> l0, lcyl |-> l1, hcyl |-> l2, head |-> 0,
           hob |-> [sect |-> h0, lcyl |-> h1, hcyl |-> h2]]
    BY <1>7 DEF LoadRegs, LoadRegsLba48, hi
  <2>. HIDE DEF l0, l1, l2, h0, h1, h2
  <2>4. LastBlockXferred(LoadRegs(n, id), id)
          = l0 + Reg * (l1 + Reg * l2) + R3 * (h0 + Reg * (h1 + Reg * h2))
    BY <1>7, <2>3 DEF LastBlockXferred
  <2>. QED
    BY <2>2, <2>4, <1>5
<1>8. CASE LbaSupport(id) /\ ~Ext48(id)
  <2>1. hi < Heads
    <3>1. Capacity(id) <= Max28
      BY <1>8, CapacityNat DEF Capacity
    <3>2. Max28 = R3 * Heads - 1
      BY DEF Max28
    <3>. HIDE DEF R3
    <3>3. R3 * Heads \in Nat
      BY <1>4, <1>5
    <3>4. n < R3 * Heads
      BY <3>1, <3>2, <3>3, <1>3
    <3>. QED
      BY <3>4, <1>3, <1>4, <1>5, DivLess DEF hi
  <2>. HIDE DEF hi
  <2>2. hi % Heads = hi
    BY <2>1, <1>4, <1>5, SmallMod
  <2>3. LoadRegs(n, id) = [sect |-> l0, lcyl |-> l1, hcyl |-> l2, head |-> hi]
    BY <1>8, <2>2 DEF LoadRegs, LoadRegsLba28, hi
  <2>. HIDE DEF l0, l1, l2
  <2>4. LastBlockXferred(LoadRegs(n, id), id) = l0 + Reg * (l1 + Reg * l2) + R3 * hi
    BY <1>8, <2>3 DEF LastBlockXferred
  <2>. QED
    BY <2>4, <1>5
<1>. QED
  BY <1>6, <1>7, <1>8

(* ata_get_capacity, ata_fix_large_disk_geometry: what is published of a   *)
(* sound disk whose capacity survives its conversions is on the disk and   *)
(* can be addressed.                                                       *)
THEOREM SoundAddressable ==
  ASSUME NEW id, NEW bios, Sound(id, bios), Ordinary(id, bios)
  PROVE  Addressable(id, bios)
<1>1. \A n \in 0 .. Published(id, bios) - 1 : n \in 0 .. Capacity(id) - 1
  BY PublishedLess
<1>2. ASSUME NEW n \in 0 .. Published(id, bios) - 1
      PROVE  n < Capacity(id) /\ LastBlockXferred(LoadRegs(n, id), id) = n
  <2>1. n < Capacity(id)
    BY PublishedLess
  <2>2. n \in 0 .. Capacity(id) - 1
    BY <1>1
  <2>. QED
    BY <2>1, <2>2, RoundTrip
<1>. QED
  BY <1>2 DEF Addressable
-----------------------------------------------------------------------------
(* The places of a transfer's sectors on its disk.                         *)

(* An element of a sequence.                                               *)
LEMMA Element ==
  ASSUME NEW S, NEW s \in Seq(S), NEW k \in 1 .. Len(s)
  PROVE  s[k] \in S
OBVIOUS

(* What DiskAssumption says of a disk, field by field.                     *)
LEMMA DiskFacts ==
  ASSUME NEW d \in Disks
  PROVE  /\ Sound(d.id, d.bios) /\ Ordinary(d.id, d.bios)
         /\ SliceLast < Published(d.id, d.bios)
         /\ Capacity(d.id) \in Nat /\ SliceLast < Capacity(d.id)
         /\ Sorted(d.table) /\ Len(d.table) \in Nat /\ DOMAIN d.table = 1 .. Len(d.table)
         /\ \A k \in 1 .. Len(d.table) :
              /\ d.table[k].bad_start \in Nat /\ d.table[k].bad_end \in Nat
              /\ d.table[k].good_start \in Nat
              /\ Alternates(d.table[k]) \subseteq 0 .. Capacity(d.id) - 1
              /\ Alternates(d.table[k]) \cap (SliceFirst .. SliceLast) = {}
              /\ \A j \in 1 .. Len(d.table) :
                   j # k => Alternates(d.table[j]) \cap Alternates(d.table[k]) = {}
<1>1. Sound(d.id, d.bios) /\ Ordinary(d.id, d.bios)
      /\ SliceLast < Published(d.id, d.bios) /\ Sorted(d.table)
  BY DiskAssumption, Zenon
<1>2. Capacity(d.id) \in Nat /\ SliceLast < Capacity(d.id)
  BY <1>1, PublishedLess, TransferAssumption
<1>3. d.table \in Seq([bad_start : Nat, bad_end : Nat, good_start : Nat])
  BY <1>1 DEF Sorted
<1>4. Len(d.table) \in Nat /\ DOMAIN d.table = 1 .. Len(d.table)
  BY <1>3
<1>5. \A k \in 1 .. Len(d.table) :
        d.table[k].bad_start \in Nat /\ d.table[k].bad_end \in Nat
        /\ d.table[k].good_start \in Nat
  <2>1. ASSUME NEW k \in 1 .. Len(d.table)
        PROVE  d.table[k] \in [bad_start : Nat, bad_end : Nat, good_start : Nat]
    BY <1>3, Element, Zenon
  <2>. QED
    BY <2>1
<1>. QED
  BY <1>1, <1>2, <1>4, <1>5, DiskAssumption, Zenon

(* The sectors of the transfer are in the slice.                           *)
LEMMA Sectors ==
  ASSUME NEW i \in 0 .. N - 1
  PROVE  FirstSec + i \in SliceFirst .. SliceLast /\ FirstSec + i \in Nat
BY TransferAssumption

(* A sector of the transfer is at home or in an alternate.                 *)
LEMMA PlaceIs ==
  ASSUME NEW d \in Disks, NEW i \in 0 .. N - 1
  PROVE  \/ Place(d, i) = FirstSec + i
         \/ \E k \in 1 .. Len(d.table) :
              /\ Place(d, i) = d.table[k].good_start + (FirstSec + i) - d.table[k].bad_start
              /\ Place(d, i) \in Alternates(d.table[k])
<1>. DEFINE x == FirstSec + i  t == d.table
<1>1. x \in Nat /\ Sorted(t) /\ Place(d, i) = Home(t, x)
  BY Sectors, DiskFacts DEF Place
<1>2. CASE \A k \in 1 .. Len(t) : ~(x \in t[k].bad_start .. t[k].bad_end)
  <2>. HIDE DEF x, t
  <2>1. Home(t, x) = x
    BY <1>2, HomeGood, Zenon
  <2>. QED
    BY <2>1, <1>1 DEF x
<1>3. CASE \E k \in 1 .. Len(t) : x \in t[k].bad_start .. t[k].bad_end
  <2>1. PICK k \in 1 .. Len(t) : x \in t[k].bad_start .. t[k].bad_end
    BY <1>3
  <2>2. t[k].bad_start \in Nat /\ t[k].bad_end \in Nat /\ t[k].good_start \in Nat
    BY DiskFacts
  <2>. HIDE DEF x, t
  <2>3. Home(t, x) = t[k].good_start + x - t[k].bad_start
    BY <1>1, <2>1, HomeBad
  <2>4. Place(d, i) = t[k].good_start + x - t[k].bad_start
    BY <2>3, <1>1
  <2>5. Place(d, i) \in Alternates(t[k])
    <3>1. \A a, b, g, y \in Nat : y \in a .. b => g + y - a \in g .. g + b - a
      OBVIOUS
    <3>2. t[k].good_start + x - t[k].bad_start
            \in t[k].good_start .. t[k].good_start + t[k].bad_end - t[k].bad_start
      BY ONLY <3>1, <2>2, <2>1, <1>1, Zenon
    <3>. QED
      BY ONLY <2>4, <3>2, Zenon DEF Alternates
  <2>. QED
    BY <2>4, <2>5 DEF x, t
<1>. QED
  BY <1>2, <1>3, Zenon

(* Its place is on the disk.                                               *)
LEMMA PlaceRange ==
  ASSUME NEW d \in Disks, NEW i \in 0 .. N - 1
  PROVE  Place(d, i) \in 0 .. Capacity(d.id) - 1
<1>1. CASE Place(d, i) = FirstSec + i
  BY <1>1, Sectors, DiskFacts, TransferAssumption
<1>2. CASE \E k \in 1 .. Len(d.table) : Place(d, i) \in Alternates(d.table[k])
  BY <1>2, DiskFacts
<1>. QED
  BY <1>1, <1>2, PlaceIs

(* No two sectors of a transfer are in one place: the alternates of        *)
(* clusters lie apart, and out of the slice.                               *)
LEMMA PlaceApart ==
  ASSUME NEW d \in Disks, NEW i \in 0 .. N - 1, NEW j \in 0 .. N - 1,
         Place(d, i) = Place(d, j)
  PROVE  i = j
<1>. DEFINE t == d.table
            Good(n) == Place(d, n) = FirstSec + n
            Bad(n, k) == /\ Place(d, n) = t[k].good_start + (FirstSec + n) - t[k].bad_start
                         /\ Place(d, n) \in Alternates(t[k])
<1>1. FirstSec \in Nat /\ i \in Nat /\ j \in Nat
  BY TransferAssumption
<1>2. /\ Good(i) \/ \E k \in 1 .. Len(t) : Bad(i, k)
      /\ Good(j) \/ \E k \in 1 .. Len(t) : Bad(j, k)
  <2>1. \A n \in 0 .. N - 1 : Good(n) \/ \E k \in 1 .. Len(t) : Bad(n, k)
    BY PlaceIs
  <2>. QED
    BY <2>1
<1>3. \A n \in 0 .. N - 1 : \A k \in 1 .. Len(t) : Bad(n, k) => Place(d, n) \notin SliceFirst .. SliceLast
  BY DiskFacts
<1>4. \A n \in 0 .. N - 1 : Good(n) => Place(d, n) \in SliceFirst .. SliceLast
  BY Sectors
<1>5. CASE Good(i) /\ Good(j)
  <2>1. Place(d, i) = FirstSec + i /\ Place(d, j) = FirstSec + j
    BY <1>5
  <2>2. FirstSec + i = FirstSec + j
    BY <2>1
  <2>. QED
    BY <2>2, <1>1
<1>6. CASE \E k \in 1 .. Len(t) : Bad(i, k)
  <2>1. PICK k \in 1 .. Len(t) : Bad(i, k)
    BY <1>6
  <2>2. PICK m \in 1 .. Len(t) : Bad(j, m)
    BY <2>1, <1>2, <1>3, <1>4
  <2>3. k = m
    BY <2>1, <2>2, DiskFacts
  <2>4. t[k].good_start \in Nat /\ t[k].bad_start \in Nat
    BY DiskFacts
  <2>5. t[k].good_start + (FirstSec + i) - t[k].bad_start
        = t[k].good_start + (FirstSec + j) - t[k].bad_start
    BY <2>1, <2>2, <2>3
  <2>. QED
    BY <2>5, <2>4, <1>1
<1>7. CASE \E k \in 1 .. Len(t) : Bad(j, k)
  <2>1. PICK k \in 1 .. Len(t) : Bad(j, k)
    BY <1>7
  <2>2. ~Good(i)
    BY <2>1, <1>3, <1>4
  <2>. QED
    BY <2>2, <1>2, <1>6
<1>. QED
  BY <1>2, <1>5, <1>6, <1>7

Handle(d) == GetHandle(SliceEntries(d.table, SliceFirst, SliceLast), FirstSec, N)

(* What the bad block cookies of a transfer say is where its sectors are.  *)
LEMMA HandleRight ==
  ASSUME NEW d \in Disks
  PROVE  IF Handle(d) = <<>> THEN \A i \in 0 .. N - 1 : Place(d, i) = FirstSec + i
         ELSE Handle(d) \in Seq(CookieSet) /\ \E start : Cut(d, Handle(d), start)
<1>. DEFINE s == SliceEntries(d.table, SliceFirst, SliceLast)  g == GetHandle(s, FirstSec, N)
<1>1. Handle(d) = g
  BY DEF Handle
<1>2. /\ Sorted(s)
      /\ \A sec \in SliceFirst .. SliceLast : Home(s, sec) = Home(d.table, sec)
  <2>1. Sorted(d.table)
    BY DiskFacts
  <2>. QED
    BY <2>1, SliceHome, TransferAssumption
<1>3. \A i \in 0 .. N - 1 : Home(s, FirstSec + i) = Place(d, i)
  BY <1>2, Sectors DEF Place
<1>4. FirstSec \in Nat /\ N \in Nat \ {0}
  BY TransferAssumption
<1>. HIDE DEF s
<1>5. IF g = <<>> THEN \A x \in FirstSec .. FirstSec + N - 1 : Home(s, x) = x
      ELSE Covers(s, FirstSec, N, g)
  BY <1>2, <1>4, GetHandleRight
<1>6. CASE g = <<>>
  <2>1. ASSUME NEW i \in 0 .. N - 1 PROVE Place(d, i) = FirstSec + i
    <3>1. FirstSec + i \in FirstSec .. FirstSec + N - 1
      BY <1>4
    <3>. QED
      BY <3>1, <1>3, <1>5, <1>6
  <2>. QED
    BY <2>1, <1>6, <1>1
<1>7. CASE g # <<>>
  <2>. HIDE DEF g
  <2>1. g \in Seq(CookieSet)
    BY <1>5, <1>7 DEF Covers
  <2>2. PICK start : Starts(s, FirstSec, N, g, start)
    BY <1>5, <1>7 DEF Covers
  <2>3. /\ start \in [1 .. Len(g) + 1 -> 0 .. N]
        /\ start[1] = 0 /\ start[Len(g) + 1] = N
        /\ \A k \in 1 .. Len(g) : start[k + 1] = start[k] + g[k].seclen
    BY <2>2 DEF Starts
  <2>4. ASSUME NEW k \in 1 .. Len(g), NEW j \in 0 .. g[k].seclen - 1
        PROVE  Place(d, start[k] + j) = g[k].sector + j
    <3>1. Len(g) \in Nat /\ k \in 1 .. Len(g) + 1 /\ k + 1 \in 1 .. Len(g) + 1
      BY <2>1
    <3>2. start[k] \in 0 .. N /\ start[k + 1] \in 0 .. N /\ start[k + 1] = start[k] + g[k].seclen
      BY <3>1, <2>3
    <3>a. g[k] \in CookieSet
      BY <2>1
    <3>3. g[k].seclen \in Nat
      BY <3>a DEF CookieSet
    <3>4. start[k] + j \in 0 .. N - 1
      BY <3>2, <3>3, <1>4
    <3>5. Home(s, FirstSec + start[k] + j) = g[k].sector + j
      BY <2>2 DEF Starts
    <3>6. FirstSec + start[k] + j = FirstSec + (start[k] + j)
      BY <3>2, <1>4
    <3>. QED
      BY <3>4, <3>5, <3>6, <1>3
  <2>5. Cut(d, g, start)
    BY <2>3, <2>4 DEF Cut
  <2>. QED
    BY <2>1, <2>5, <1>1, <1>7
<1>. QED
  BY <1>6, <1>7

-----------------------------------------------------------------------------
(* Setting up a section.                                                   *)

(* Least is the less of two numbers.                                       *)
LEMMA LeastIs ==
  ASSUME NEW a \in Int, NEW b \in Int
  PROVE  /\ Least(a, b) \in {a, b} /\ Least(a, b) <= a /\ Least(a, b) <= b
         /\ Least(a, b) \in Int
BY DEF Least

(* A DMA section is not empty, no longer than the limit, and in the buffer.*)
LEMMA DmaSectionFits ==
  ASSUME NEW c \in 0 .. N - 1, NEW n \in Int
  PROVE  DmaSection(c, n) \in 1 .. N /\ DmaSection(c, n) <= MaxTransfer
         /\ c + DmaSection(c, n) <= N
<1>. DEFINE w == Window * (c \div Window + 1)
            end == Least(N, w)
            ends == {end} \cup {e \in c + 1 .. end : e % Segment = 0 /\ e - c >= n /\ n > 0}
            m == CHOOSE e \in ends : \A f \in ends : e <= f
<1>1. /\ Window \in Nat \ {0} /\ Window <= MaxTransfer /\ c \in Nat /\ N \in Nat
      /\ MaxTransfer \in Nat /\ c < N
  BY TransferAssumption
<1>2. c < w /\ w <= c + Window /\ w \in Nat
  <2>. DEFINE q == c \div Window  r == c % Window  s == Window * q
  <2>1. q \in Nat /\ r \in 0 .. Window - 1 /\ c = Window * q + r
    BY <1>1, DivMod
  <2>. HIDE DEF q, r
  <2>2. w = s + Window /\ s \in Nat /\ c = s + r
    BY <2>1, <1>1 DEF q
  <2>. HIDE DEF s, w
  <2>. QED
    BY <2>1, <2>2, <1>1
<1>. HIDE DEF w
<1>3. end \in c + 1 .. N /\ end <= c + Window
  BY <1>1, <1>2, LeastIs DEF Least
<1>. HIDE DEF end
<1>4. ends \subseteq Nat /\ ends # {} /\ \A e \in ends : e \in c + 1 .. end
  BY <1>1, <1>3
<1>5. m \in ends
  <2>. HIDE DEF ends
  <2>1. \E e \in ends : \A f \in ends : e <= f
    BY <1>4, LeastNat
  <2>. QED
    BY <2>1, Zenon
<1>6. DmaSection(c, n) = m - c
  BY Zenon DEF DmaSection, m, ends, end, w
<1>7. m \in c + 1 .. end
  BY <1>4, <1>5
<1>. HIDE DEF m
<1>. QED
  BY <1>1, <1>3, <1>6, <1>7

(* Room for a section: what is left of the cookie at hand, and where.      *)
Fits(m, d, p) ==
  /\ p.secleft > 0 /\ Before(p) + p.secleft <= N
  /\ \A j \in 0 .. p.secleft - 1 : Place(d, Before(p) + j) = p.srtsec + j
  /\ IF p.cookies = <<>> THEN Before(p) + p.secleft = N
     ELSE Behind(d, p, Before(p) + p.secleft)
  /\ IF m THEN p.cookies = <<>> /\ p.cursor = Before(p)
     ELSE p.v_addr = Before(p) /\ p.v_addr_sav = Before(p)

(* What setting up a section leaves alone.                                 *)
Carried(p, r) ==
  /\ r.byteleft = p.byteleft /\ r.retry = p.retry
  /\ r.error = p.error /\ r.v_addr = p.v_addr /\ r.cookies = p.cookies
  /\ r.wrt_count = p.wrt_count /\ r.bytes_per_block = p.bytes_per_block

(* The fields of a packet.                                                 *)
LEMMA PktFields ==
  ASSUME NEW p \in PktSet
  PROVE  /\ p.byteleft \in 0 .. N /\ p.bytexfer \in 0 .. N /\ p.srtsec \in Nat
         /\ p.secleft \in 0 .. N /\ p.retry \in 0 .. RetryCount + 1
         /\ p.cp_resid \in Nat /\ p.flags \subseteq {"ERROR", "TIMEOUT", "BUS_RESET"}
         /\ p.error \in {"none", "UNC", "ABRT", "BUSY"}
         /\ p.v_addr \in 0 .. N /\ p.v_addr_sav \in 0 .. N /\ p.resid \in Nat
         /\ p.bytes_per_block \in {1, Factor} /\ p.count \in 0 .. MaxTransfer
         /\ p.startsec \in Nat /\ p.wrt_count \in 0 .. N /\ p.sg \in 0 .. N
         /\ p.cursor \in 0 .. N /\ p.cookies \in Seq(CookieSet) /\ p.h_idx \in Nat
BY DEF PktSet

(* What the count register holds of a section's length.                    *)
LEMMA CountOf ==
  ASSUME NEW d, NEW len \in 1 .. MaxTransfer
  PROVE  LET c == IF Ext48(d.id) THEN len ELSE len % Reg
         IN /\ c \in 0 .. MaxTransfer /\ (c # 0 => c = len)
            /\ c = 0 => ~Ext48(d.id) /\ len = Reg
<1>1. Reg \in Nat \ {0} /\ MaxTransfer \in 1 .. Reg /\ len \in 1 .. Reg
  BY TransferAssumption, RegAssumption
<1>2. CASE len < Reg
  <2>1. len \in 0 .. Reg - 1
    BY <1>1, <1>2
  <2>2. len % Reg = len
    BY <2>1, <1>1, SmallMod
  <2>. QED
    BY <2>2, <1>1, <1>2
<1>3. CASE len = Reg
  <2>1. len % Reg = 0
    <3>1. (Reg * 1 + 0) % Reg = 0
      BY <1>1, DivUnique
    <3>2. Reg * 1 + 0 = Reg
      BY <1>1
    <3>. QED
      BY <3>1, <3>2, <1>3
  <2>. QED
    BY <2>1, <1>1, <1>3
<1>. QED
  BY <1>1, <1>2, <1>3

(* The fields that SetSection writes, and those it leaves.                 *)
LEMMA SectionFields ==
  ASSUME NEW p \in PktSet, NEW len, NEW n,
         len = IF dma THEN DmaSection(p.cursor, n) ELSE n,
         len \in 1 .. N, len <= MaxTransfer, dma => p.cursor + len <= N
  PROVE  LET r == SetSection(p, n)
         IN /\ r \in PktSet /\ Carried(p, r)
            /\ r.secleft = p.secleft /\ r.srtsec = p.srtsec /\ r.h_idx = p.h_idx
            /\ r.v_addr_sav = p.v_addr_sav
            /\ r.count = (IF Ext48(disk.id) THEN len ELSE len % Reg)
            /\ r.bytexfer = len /\ r.resid = len /\ r.cp_resid = len
            /\ r.startsec = p.srtsec /\ r.sg = p.cursor
            /\ r.cursor = (IF dma THEN p.cursor + len ELSE p.cursor)
            /\ r.flags = {}
<1>. DEFINE cur == IF dma THEN p.cursor + len ELSE p.cursor
            cnt == IF Ext48(disk.id) THEN len ELSE len % Reg
            r == [p EXCEPT !.flags = {}, !.sg = p.cursor, !.cursor = cur,
                           !.count = cnt, !.startsec = p.srtsec,
                           !.bytexfer = len, !.cp_resid = len, !.resid = len]
<1>0. N \in Nat /\ MaxTransfer \in Nat
  BY TransferAssumption, RegAssumption
<1>1. SetSection(p, n) = r
  BY DEF SetSection
<1>2. cur \in 0 .. N /\ p.srtsec \in Nat /\ p.cursor \in 0 .. N /\ cnt \in 0 .. MaxTransfer
  <2>1. len \in 1 .. MaxTransfer
    BY <1>0
  <2>2. cnt \in 0 .. MaxTransfer
    BY <2>1, CountOf
  <2>. QED
    BY <2>2, <1>0, PktFields
<1>. HIDE DEF cur, cnt
<1>3. r \in PktSet
  <2>1. len \in 0 .. N /\ len \in Nat
        /\ {} \in SUBSET {"ERROR", "TIMEOUT", "BUS_RESET"}
    BY <1>0
  <2>. QED
    BY ONLY <2>1, <1>2, p \in PktSet, Zenon DEF PktSet
<1>4. /\ Carried(p, r)
      /\ r.secleft = p.secleft /\ r.srtsec = p.srtsec /\ r.h_idx = p.h_idx
      /\ r.v_addr_sav = p.v_addr_sav
      /\ r.count = cnt /\ r.bytexfer = len /\ r.resid = len /\ r.cp_resid = len
      /\ r.startsec = p.srtsec /\ r.sg = p.cursor
      /\ r.cursor = cur /\ r.flags = {}
  BY DEF PktSet, Carried
<1>. QED
  BY <1>1, <1>3, <1>4 DEF cur, cnt

(* Behind depends on the cookies and the index only.                       *)
LEMMA BehindSame ==
  ASSUME NEW d, NEW p, NEW r, NEW e, r.cookies = p.cookies, r.h_idx = p.h_idx,
         Behind(d, p, e)
  PROVE  Behind(d, r, e)
BY Zenon DEF Behind

(* A section that is set up where there is room lies there.                *)
LEMMA SectionLies ==
  ASSUME NEW d, d = disk, NEW p \in PktSet, Fits(dma, d, p), NEW n \in 1 .. MaxTransfer,
         n <= p.secleft
  PROVE  LET r == SetSection(p, n)
         IN /\ r \in PktSet /\ Lies(dma, d, r) /\ Carried(p, r)
            /\ r.resid = r.bytexfer /\ r.cp_resid = r.bytexfer /\ r.flags = {}
<1>. DEFINE len == IF dma THEN DmaSection(p.cursor, n) ELSE n
            r == SetSection(p, n)
            B == Before(p)
<1>0. /\ N \in Nat \ {0} /\ MaxTransfer \in Nat \ {0} /\ n \in Int
      /\ p.secleft \in 0 .. N /\ p.byteleft \in 0 .. N
  BY TransferAssumption, PktFields
<1>1. B \in 0 .. N /\ B + p.secleft <= N /\ p.secleft > 0
  BY <1>0 DEF Fits, Before
<1>2. /\ len \in 1 .. N /\ len <= MaxTransfer /\ len <= p.secleft
      /\ dma => p.cursor + len <= N
  <2>1. CASE dma
    <3>1. p.cursor = B /\ p.cookies = <<>> /\ B + p.secleft = N
      BY <2>1 DEF Fits
    <3>2. p.cursor \in 0 .. N - 1
      BY <3>1, <1>1, <1>0
    <3>. DEFINE s == DmaSection(p.cursor, n)
    <3>3. s \in 1 .. N /\ s <= MaxTransfer /\ p.cursor + s <= N
      BY <3>2, <1>0, DmaSectionFits
    <3>4. len = s
      BY <2>1
    <3>. HIDE DEF s, len, B
    <3>. QED
      BY <3>1, <3>3, <3>4, <1>0, <1>1
  <2>2. CASE ~dma
    BY <2>2, <1>0
  <2>. QED
    BY <2>1, <2>2
<1>3. /\ r \in PktSet /\ Carried(p, r)
      /\ r.secleft = p.secleft /\ r.srtsec = p.srtsec /\ r.h_idx = p.h_idx
      /\ r.v_addr_sav = p.v_addr_sav
      /\ r.count = (IF Ext48(disk.id) THEN len ELSE len % Reg)
      /\ r.bytexfer = len /\ r.resid = len /\ r.cp_resid = len
      /\ r.startsec = p.srtsec /\ r.sg = p.cursor
      /\ r.cursor = (IF dma THEN p.cursor + len ELSE p.cursor)
      /\ r.flags = {}
  <2>. HIDE DEF r
  <2>1. len = IF dma THEN DmaSection(p.cursor, n) ELSE n
    OBVIOUS
  <2>. HIDE DEF len
  <2>. QED
    BY <2>1, <1>2, SectionFields DEF r
<1>. HIDE DEF r, len
<1>4. Before(r) = B /\ r.cookies = p.cookies
  BY <1>3 DEF Carried, Before
<1>5. /\ r.bytexfer > 0 /\ r.bytexfer <= MaxTransfer /\ r.startsec = r.srtsec
      /\ r.bytexfer <= r.secleft /\ Before(r) + r.secleft <= N
  BY <1>1, <1>2, <1>3, <1>4, <1>0
<1>6. \A j \in 0 .. r.secleft - 1 : Place(d, Before(r) + j) = r.srtsec + j
  BY <1>3, <1>4 DEF Fits
<1>7. IF r.cookies = <<>> THEN Before(r) + r.secleft = N
      ELSE Behind(d, r, Before(r) + r.secleft)
  BY <1>3, <1>4, BehindSame DEF Fits
<1>8. IF dma
      THEN r.cookies = <<>> /\ r.sg = Before(r) /\ r.cursor = Before(r) + r.bytexfer
      ELSE r.v_addr_sav = Before(r)
  BY <1>3, <1>4 DEF Fits
<1>9. Lies(dma, d, r)
  <2>1. r.count = IF Ext48(d.id) THEN r.bytexfer ELSE r.bytexfer % Reg
    BY <1>3
  <2>. QED
    BY <2>1, <1>5, <1>6, <1>7, <1>8 DEF Lies
<1>. QED
  BY <1>3, <1>9 DEF r

(* A packet between two sections.                                          *)
Ready(m, d, p) ==
  LET B == Before(p)  L == p.secleft - p.bytexfer
  IN /\ B < N /\ L >= 0 /\ B + L <= N
     /\ L # 0 => \A j \in 0 .. L - 1 : Place(d, B + j) = p.srtsec + p.bytexfer + j
     /\ IF p.cookies = <<>>
        THEN \/ L # 0 /\ B + L = N
             \/ L = 0 /\ B = 0 /\ \A i \in 0 .. N - 1 : Place(d, i) = FirstSec + i
        ELSE Behind(d, p, B + L)
     /\ IF m THEN p.cookies = <<>> /\ p.cursor = B ELSE p.v_addr = B

(* dadk_iosetup finds the room: what is left of the cookie, or the next.   *)
Room(p) ==
  LET left == p.secleft - p.bytexfer
      next == IF p.cookies = <<>> THEN Cookie(FirstSec, N) ELSE p.cookies[p.h_idx]
  IN IF left # 0
     THEN [p EXCEPT !.secleft = left, !.srtsec = @ + p.bytexfer, !.bytexfer = left]
     ELSE [p EXCEPT !.secleft = next.seclen, !.srtsec = next.sector,
                    !.bytexfer = next.seclen, !.h_idx = @ + 1]

(* What dadk_iosetup finds is room for a section.                          *)
LEMMA RoomFits ==
  ASSUME NEW m, NEW d, NEW p \in PktSet, Ready(m, d, p)
  PROVE  LET q == [Room(p) EXCEPT !.v_addr_sav = Room(p).v_addr]
         IN /\ q \in PktSet /\ Fits(m, d, q) /\ Carried(p, q)
            /\ q.bytexfer = q.secleft /\ Room(p).bytexfer = q.secleft
            /\ Room(p).flags = p.flags
<1>. DEFINE B == Before(p)  L == p.secleft - p.bytexfer  o == Room(p)
            q == [o EXCEPT !.v_addr_sav = o.v_addr]
            Goal == /\ q \in PktSet /\ Fits(m, d, q) /\ Carried(p, q)
                    /\ q.bytexfer = q.secleft /\ o.bytexfer = q.secleft
                    /\ o.flags = p.flags
<1>0. /\ N \in Nat \ {0} /\ FirstSec \in Nat
      /\ p.secleft \in 0 .. N /\ p.byteleft \in 0 .. N /\ p.bytexfer \in 0 .. N
      /\ p.srtsec \in Nat /\ p.h_idx \in Nat /\ p.cookies \in Seq(CookieSet)
      /\ p.v_addr \in 0 .. N
  BY TransferAssumption, PktFields
<1>1. B \in 0 .. N - 1 /\ L \in 0 .. N /\ B + L <= N
  <2>1. B < N /\ L >= 0 /\ B + L <= N
    BY DEF Ready
  <2>2. B = N - p.byteleft
    BY DEF Before
  <2>. HIDE DEF B
  <2>3. L \in Int
    BY <1>0
  <2>. HIDE DEF L
  <2>. QED
    BY ONLY <2>1, <2>2, <2>3, <1>0
<1>2. ASSUME NEW S, NEW F, NEW H, S \in 0 .. N, F \in Nat, H \in Nat, S > 0, B + S <= N,
             o = [p EXCEPT !.secleft = S, !.srtsec = F, !.bytexfer = S, !.h_idx = H],
             \A j \in 0 .. S - 1 : Place(d, B + j) = F + j,
             IF p.cookies = <<>> THEN B + S = N
             ELSE \E start \in [1 .. Len(p.cookies) + 1 -> 0 .. N] :
                    /\ Cut(d, p.cookies, start)
                    /\ H \in 1 .. Len(p.cookies) + 1 /\ start[H] = B + S
      PROVE  Goal
  <2>0. S \in 0 .. N /\ F \in Nat /\ H \in Nat
        /\ o = [p EXCEPT !.secleft = S, !.srtsec = F, !.bytexfer = S, !.h_idx = H]
    BY <1>2
  <2>1. o \in PktSet
    <3>. HIDE DEF o
    <3>. QED
      BY <2>0 DEF PktSet
  <2>2. /\ o.byteleft = p.byteleft /\ o.retry = p.retry /\ o.cp_resid = p.cp_resid
        /\ o.error = p.error /\ o.v_addr = p.v_addr /\ o.cookies = p.cookies
        /\ o.wrt_count = p.wrt_count /\ o.bytes_per_block = p.bytes_per_block
        /\ o.cursor = p.cursor /\ o.flags = p.flags
        /\ o.secleft = S /\ o.srtsec = F /\ o.bytexfer = S /\ o.h_idx = H
    <3>. HIDE DEF o
    <3>. QED
      BY <2>0 DEF PktSet
  <2>. HIDE DEF o
  <2>3. q \in PktSet
    BY <2>1, <2>2, <1>0 DEF PktSet
  <2>4. /\ q.byteleft = o.byteleft /\ q.retry = o.retry /\ q.cp_resid = o.cp_resid
        /\ q.error = o.error /\ q.v_addr = o.v_addr /\ q.cookies = o.cookies
        /\ q.wrt_count = o.wrt_count /\ q.bytes_per_block = o.bytes_per_block
        /\ q.cursor = o.cursor /\ q.flags = o.flags
        /\ q.secleft = o.secleft /\ q.srtsec = o.srtsec /\ q.bytexfer = o.bytexfer
        /\ q.h_idx = o.h_idx /\ q.v_addr_sav = o.v_addr
    BY <2>1 DEF PktSet
  <2>. HIDE DEF q
  <2>5. Before(q) = B
    BY <2>2, <2>4 DEF Before
  <2>6. IF q.cookies = <<>> THEN Before(q) + q.secleft = N
        ELSE Behind(d, q, Before(q) + q.secleft)
    <3>. HIDE DEF B
    <3>1. q.cookies = p.cookies /\ q.h_idx = H /\ q.secleft = S
      BY <2>2, <2>4
    <3>. QED
      BY <3>1, <2>5, <1>2 DEF Behind
  <2>7. IF m THEN q.cookies = <<>> /\ q.cursor = Before(q)
        ELSE q.v_addr = Before(q) /\ q.v_addr_sav = Before(q)
    BY <2>2, <2>4, <2>5 DEF Ready
  <2>8. q.secleft > 0 /\ Before(q) + q.secleft <= N
        /\ \A j \in 0 .. q.secleft - 1 : Place(d, Before(q) + j) = q.srtsec + j
    BY <2>2, <2>4, <2>5, <1>2
  <2>9. Fits(m, d, q)
    BY <2>6, <2>7, <2>8 DEF Fits
  <2>10. Carried(p, q)
    BY <2>2, <2>4 DEF Carried
  <2>. QED
    BY <2>2, <2>3, <2>4, <2>9, <2>10
<1>3. ASSUME L # 0 PROVE Goal
  <2>1. o = [p EXCEPT !.secleft = L, !.srtsec = p.srtsec + p.bytexfer, !.bytexfer = L,
                      !.h_idx = p.h_idx]
    <3>1. o = [p EXCEPT !.secleft = L, !.srtsec = p.srtsec + p.bytexfer, !.bytexfer = L]
      BY <1>3 DEF Room
    <3>. QED
      BY <3>1 DEF PktSet
  <2>2. \A j \in 0 .. L - 1 : Place(d, B + j) = p.srtsec + p.bytexfer + j
    BY <1>3 DEF Ready
  <2>3. IF p.cookies = <<>> THEN B + L = N ELSE Behind(d, p, B + L)
    BY <1>3 DEF Ready
  <2>4. p.srtsec + p.bytexfer \in Nat /\ L > 0
    <3>. HIDE DEF L
    <3>. QED
      BY <1>0, <1>1, <1>3
  <2>. HIDE DEF Goal, o, B, L, q
  <2>. QED
    BY <2>1, <2>2, <2>3, <2>4, <1>0, <1>1, <1>2 DEF Behind
<1>4. ASSUME L = 0, p.cookies = <<>> PROVE Goal
  <2>1. B = 0 /\ \A i \in 0 .. N - 1 : Place(d, i) = FirstSec + i
    BY <1>4 DEF Ready
  <2>2. o = [p EXCEPT !.secleft = N, !.srtsec = FirstSec, !.bytexfer = N,
                      !.h_idx = p.h_idx + 1]
    BY <1>4 DEF Room, Cookie
  <2>3. p.h_idx + 1 \in Nat /\ N \in 0 .. N /\ N > 0
    BY <1>0
  <2>4. \A j \in 0 .. N - 1 : Place(d, B + j) = FirstSec + j
    BY <2>1
  <2>5. B + N = N /\ B + N <= N /\ FirstSec \in Nat
    BY <2>1, <1>0
  <2>. HIDE DEF Goal, o, B, L, q
  <2>. QED
    BY ONLY <2>2, <2>3, <2>4, <2>5, <1>2, <1>4
<1>5. ASSUME L = 0, p.cookies # <<>> PROVE Goal
  <2>. DEFINE cs == p.cookies  h == p.h_idx
  <2>1. PICK start \in [1 .. Len(cs) + 1 -> 0 .. N] :
          Cut(d, cs, start) /\ h \in 1 .. Len(cs) + 1 /\ start[h] = B
    <3>1. Behind(d, p, B + L) /\ B + L = B
      BY <1>5, <1>1 DEF Ready
    <3>. QED
      BY <3>1 DEF Behind
  <2>2. Len(cs) \in Nat
    BY <1>0
  <2>3. h \in 1 .. Len(cs)
    <3>1. start[Len(cs) + 1] = N
      BY <2>1 DEF Cut
    <3>2. h # Len(cs) + 1
      BY <3>1, <2>1, <1>1, <1>0
    <3>. QED
      BY <3>2, <2>1, <2>2
  <2>. DEFINE S == cs[h].seclen  F == cs[h].sector
  <2>4. cs[h] \in CookieSet
    BY <2>3, <1>0, Element
  <2>5. S \in Nat \ {0} /\ F \in Nat
    BY <2>4 DEF CookieSet
  <2>6. start[h + 1] = B + S /\ \A j \in 0 .. S - 1 : Place(d, B + j) = F + j
    BY <2>1, <2>3 DEF Cut
  <2>7. h + 1 \in 1 .. Len(cs) + 1 /\ h + 1 \in Nat
    BY <2>3, <2>2
  <2>8. B + S \in 0 .. N
    BY <2>1, <2>6, <2>7
  <2>9. o = [p EXCEPT !.secleft = S, !.srtsec = F, !.bytexfer = S, !.h_idx = h + 1]
    BY <1>5 DEF Room
  <2>10. S \in 0 .. N
    <3>. HIDE DEF S, B
    <3>. QED
      BY <2>8, <2>5, <1>1, <1>0
  <2>. HIDE DEF Goal, o, B, L, q, S, F
  <2>11. \E st \in [1 .. Len(cs) + 1 -> 0 .. N] :
           Cut(d, cs, st) /\ h + 1 \in 1 .. Len(cs) + 1 /\ st[h + 1] = B + S
    BY <2>1, <2>6, <2>7
  <2>12. S > 0 /\ B + S <= N
    BY <2>5, <2>8
  <2>. QED
    BY ONLY <2>5, <2>6, <2>7, <2>9, <2>10, <2>11, <2>12, <1>2, <1>5
<1>. QED
  BY <1>3, <1>4, <1>5

(* dadk_iosetup sets up a section at the place the transfer has reached.   *)
LEMMA DadkIosetupLies ==
  ASSUME NEW d, d = disk, NEW p \in PktSet, Ready(dma, d, p), p.flags = {}
  PROVE  LET r == DadkIosetup(p)
         IN /\ r \in PktSet /\ Lies(dma, d, r) /\ Carried(p, r)
            /\ r.resid = r.bytexfer /\ r.cp_resid = r.bytexfer /\ r.flags = {}
<1>. DEFINE o == Room(p)  q == [o EXCEPT !.v_addr_sav = o.v_addr]
            n == Least(o.bytexfer, MaxTransfer)
<1>1. /\ q \in PktSet /\ Fits(dma, d, q) /\ Carried(p, q)
      /\ o.bytexfer = q.secleft /\ o.flags = {}
  BY RoomFits
<1>2. DadkIosetup(p) = Iosetup(o)
  BY Zenon DEF DadkIosetup, Room
<1>3. Iosetup(o) = SetSection(q, n)
  BY <1>1 DEF Iosetup
<1>4. n \in 1 .. MaxTransfer /\ n <= q.secleft
  <2>1. q.secleft \in 0 .. N /\ q.secleft > 0 /\ N \in Nat /\ MaxTransfer \in Nat \ {0}
    <3>1. q.secleft \in 0 .. N
      BY <1>1, PktFields
    <3>2. q.secleft > 0
      BY <1>1 DEF Fits
    <3>3. N \in Nat /\ MaxTransfer \in Nat \ {0}
      BY TransferAssumption, RegAssumption
    <3>. QED
      BY <3>1, <3>2, <3>3
  <2>. HIDE DEF q
  <2>. QED
    BY <2>1, <1>1 DEF Least
<1>. DEFINE r == SetSection(q, n)
<1>. HIDE DEF q, n
<1>5. r \in PktSet /\ Lies(dma, d, r) /\ Carried(q, r)
      /\ r.resid = r.bytexfer /\ r.cp_resid = r.bytexfer /\ r.flags = {}
  BY <1>1, <1>4, SectionLies
<1>6. Carried(p, r)
  BY <1>1, <1>5 DEF Carried
<1>. QED
  BY <1>2, <1>3, <1>5, <1>6

-----------------------------------------------------------------------------
(* Sectors in place.                                                       *)

(* Of no sectors everything is held.                                       *)
LEMMA HeldEmpty ==
  ASSUME NEW dr, NEW d, NEW mv, NEW a \in Int, NEW n \in Int, n <= 0
  PROVE  Held(dr, d, mv, a, n)
<1>1. a .. a + n - 1 = {}
  OBVIOUS
<1>. QED
  BY <1>1 DEF Held

(* A part of what is held is held.                                         *)
LEMMA HeldSub ==
  ASSUME NEW dr, NEW d, NEW mv, NEW a \in Int, NEW n \in Int, NEW b \in Int, NEW k \in Int,
         Held(dr, d, mv, a, n), a <= b, b + k <= a + n
  PROVE  Held(dr, d, mv, b, k)
<1>1. \A i \in b .. b + k - 1 : i \in a .. a + n - 1
  OBVIOUS
<1>. QED
  BY <1>1 DEF Held

(* Two runs that meet are one.                                             *)
LEMMA HeldJoin ==
  ASSUME NEW dr, NEW d, NEW mv, NEW a \in Int, NEW n \in Nat, NEW k \in Int,
         Held(dr, d, mv, a, n), Held(dr, d, mv, a + n, k)
  PROVE  Held(dr, d, mv, a, n + k)
<1>1. \A i \in a .. a + (n + k) - 1 : i \in a .. a + n - 1 \/ i \in a + n .. a + n + k - 1
  OBVIOUS
<1>. QED
  BY <1>1 DEF Held

(* A step that keeps the sectors before a keeps what is held of them.      *)
LEMMA HeldKept ==
  ASSUME NEW dr, NEW d, NEW mv, NEW nw, NEW a \in Int, NEW n \in Int,
         \A i \in a .. a + n - 1 : Kept(dr, d, mv, i) => Kept(dr, d, nw, i),
         Held(dr, d, mv, a, n)
  PROVE  Held(dr, d, nw, a, n)
BY DEF Held

(* k sectors from sector a of the transfer, disk sector lba, are moved.    *)
Move(dr, mv, a, lba, k) ==
  LET to   == IF dr = "read" THEN a ELSE lba
      from == IF dr = "read" THEN lba ELSE a
      new  == to .. to + k - 1
  IN [i \in DOMAIN mv \cup new |-> IF i \in new THEN from + i - to ELSE mv[i]]

(* Moving the sectors of a section puts them in place and takes none away. *)
LEMMA MoveKeeps ==
  ASSUME NEW d \in Disks, NEW dr, NEW mv, MovedIn(dr, d, mv),
         NEW a \in Nat, NEW lba \in Nat, NEW k \in Nat, a + k <= N,
         \A j \in 0 .. k - 1 : Place(d, a + j) = lba + j
  PROVE  LET nw == Move(dr, mv, a, lba, k)
         IN /\ MovedIn(dr, d, nw) /\ Held(dr, d, nw, a, k)
            /\ \A i \in 0 .. N - 1 : Kept(dr, d, mv, i) => Kept(dr, d, nw, i)
<1>. DEFINE nw == Move(dr, mv, a, lba, k)
<1>0. N \in Nat
  BY TransferAssumption
<1>1. CASE dr = "read"
  <2>. DEFINE new == a .. a + k - 1
  <2>1. nw = [i \in DOMAIN mv \cup new |-> IF i \in new THEN lba + i - a ELSE mv[i]]
    BY <1>1 DEF Move
  <2>. HIDE DEF nw
  <2>2. DOMAIN nw = DOMAIN mv \cup new /\ new \subseteq 0 .. N - 1
    BY <2>1, <1>0
  <2>3. MovedIn(dr, d, nw)
    BY <2>2, <1>1 DEF MovedIn
  <2>4. ASSUME NEW i \in new PROVE Kept(dr, d, nw, i)
    <3>1. i - a \in 0 .. k - 1 /\ a + (i - a) = i
      OBVIOUS
    <3>2. Place(d, i) = lba + (i - a)
      BY <3>1
    <3>3. i \in DOMAIN nw /\ nw[i] = lba + i - a
      BY <2>1
    <3>4. lba + i - a = lba + (i - a)
      OBVIOUS
    <3>. QED
      BY <3>2, <3>3, <3>4, <1>1 DEF Kept
  <2>5. ASSUME NEW i \in 0 .. N - 1, Kept(dr, d, mv, i) PROVE Kept(dr, d, nw, i)
    <3>1. CASE i \in new
      BY <3>1, <2>4
    <3>2. CASE i \notin new
      <4>1. i \in DOMAIN mv /\ mv[i] = Place(d, i)
        BY <2>5, <1>1 DEF Kept
      <4>2. i \in DOMAIN nw /\ nw[i] = mv[i]
        BY <4>1, <3>2, <2>1
      <4>. QED
        BY <4>1, <4>2, <1>1 DEF Kept
    <3>. QED
      BY <3>1, <3>2
  <2>6. Held(dr, d, nw, a, k)
    BY <2>4 DEF Held
  <2>. QED
    BY <2>3, <2>5, <2>6 DEF nw
<1>2. CASE dr # "read"
  <2>. DEFINE new == lba .. lba + k - 1
  <2>1. nw = [i \in DOMAIN mv \cup new |-> IF i \in new THEN a + i - lba ELSE mv[i]]
    BY <1>2 DEF Move
  <2>. HIDE DEF nw
  <2>2. DOMAIN nw = DOMAIN mv \cup new
    BY <2>1
  <2>3. ASSUME NEW i \in new
        PROVE  /\ i - lba \in 0 .. k - 1 /\ a + (i - lba) \in 0 .. N - 1
               /\ Place(d, a + (i - lba)) = i /\ nw[i] = a + (i - lba)
    <3>1. i - lba \in 0 .. k - 1 /\ a + (i - lba) \in 0 .. N - 1 /\ lba + (i - lba) = i
          /\ a + i - lba = a + (i - lba)
      BY <1>0
    <3>2. Place(d, a + (i - lba)) = i
      BY <3>1
    <3>3. nw[i] = a + i - lba
      BY <2>1
    <3>. QED
      BY <3>1, <3>2, <3>3
  <2>4. MovedIn(dr, d, nw)
    <3>1. /\ DOMAIN mv \subseteq {Place(d, i) : i \in 0 .. N - 1}
          /\ \A i \in DOMAIN mv : mv[i] \in 0 .. N - 1
      BY <1>2 DEF MovedIn
    <3>2. new \subseteq {Place(d, i) : i \in 0 .. N - 1}
      BY <2>3
    <3>3. \A i \in DOMAIN nw : nw[i] \in 0 .. N - 1
      BY <2>1, <2>2, <2>3, <3>1
    <3>. QED
      BY <3>1, <3>2, <3>3, <2>2, <1>2 DEF MovedIn
  <2>5. ASSUME NEW i \in a .. a + k - 1 PROVE Kept(dr, d, nw, i)
    <3>1. i - a \in 0 .. k - 1 /\ a + (i - a) = i
      OBVIOUS
    <3>. DEFINE x == lba + (i - a)
    <3>2. Place(d, i) = x
      BY <3>1
    <3>3. x \in new /\ a + (x - lba) = i
      OBVIOUS
    <3>. HIDE DEF x
    <3>4. x \in DOMAIN nw /\ nw[x] = i
      BY <3>3, <2>3, <2>2
    <3>. QED
      BY <3>2, <3>4, <1>2 DEF Kept
  <2>6. ASSUME NEW i \in 0 .. N - 1, Kept(dr, d, mv, i) PROVE Kept(dr, d, nw, i)
    <3>. DEFINE x == Place(d, i)
    <3>1. x \in DOMAIN mv /\ mv[x] = i
      BY <2>6, <1>2 DEF Kept
    <3>2. CASE x \in new
      <4>1. a + (x - lba) \in 0 .. N - 1 /\ Place(d, a + (x - lba)) = x /\ nw[x] = a + (x - lba)
        BY <3>2, <2>3
      <4>2. a + (x - lba) = i
        BY <4>1, PlaceApart
      <4>. QED
        BY <4>1, <4>2, <3>1, <2>2, <1>2 DEF Kept
    <3>3. CASE x \notin new
      <4>1. x \in DOMAIN nw /\ nw[x] = mv[x]
        BY <3>1, <3>3, <2>1
      <4>. QED
        BY <3>1, <4>1, <1>2 DEF Kept
    <3>. QED
      BY <3>2, <3>3
  <2>7. Held(dr, d, nw, a, k)
    BY <2>5 DEF Held
  <2>. QED
    BY <2>4, <2>6, <2>7 DEF nw
<1>. QED
  BY <1>1, <1>2

(* ata_disk_pio_xfer_data_in and _out: data that the drive offers is       *)
(* moved, and what it does not offer spoils no more than k sectors.        *)
LEMMA CopyGood ==
  ASSUME NEW a \in Nat, NEW lba \in Nat, NEW k \in Nat, k <= dev.block, dev.block \in Nat
  PROVE  Copy(a, lba, k, TRUE) = Move(dir, moved, a, lba, k)
<1>. DEFINE to == IF dir = "read" THEN a ELSE lba
            from == IF dir = "read" THEN lba ELSE a
            new == to .. to + k - 1
<1>1. to \in Nat
  OBVIOUS
<1>. HIDE DEF to
<1>2. \A i \in new : i - to < dev.block
  BY <1>1
<1>3. Copy(a, lba, k, TRUE)
      = [i \in DOMAIN moved \cup new |->
           IF i \notin new THEN moved[i]
           ELSE IF TRUE /\ i - to < dev.block THEN from + i - to ELSE -1]
  BY Zenon DEF Copy, to
<1>4. Move(dir, moved, a, lba, k)
      = [i \in DOMAIN moved \cup new |-> IF i \in new THEN from + i - to ELSE moved[i]]
  BY Zenon DEF Move, to
<1>. HIDE DEF new, from
<1>. QED
  BY <1>2, <1>3, <1>4

(* Data that is not offered spoils nothing before its own sectors.         *)
LEMMA CopyBad ==
  ASSUME NEW d, dir = "read", MovedIn(dir, d, moved),
         NEW a \in Nat, NEW lba, NEW k \in Nat, a + k <= N,
         NEW nw, nw = Copy(a, lba, k, FALSE)
  PROVE  /\ MovedIn(dir, d, nw)
         /\ \A i \in 0 .. a - 1 : Kept(dir, d, moved, i) => Kept(dir, d, nw, i)
<1>. DEFINE new == a .. a + k - 1
<1>1. /\ DOMAIN nw = DOMAIN moved \cup new
      /\ \A i \in DOMAIN moved : i \notin new => nw[i] = moved[i]
  BY DEF Copy
<1>2. new \subseteq 0 .. N - 1
  BY TransferAssumption
<1>3. MovedIn(dir, d, nw)
  BY <1>1, <1>2 DEF MovedIn
<1>4. ASSUME NEW i \in 0 .. a - 1, Kept(dir, d, moved, i) PROVE Kept(dir, d, nw, i)
  <2>1. i \notin new
    OBVIOUS
  <2>2. i \in DOMAIN moved /\ moved[i] = Place(d, i)
    BY <1>4 DEF Kept
  <2>3. i \in DOMAIN nw /\ nw[i] = moved[i]
    BY <2>1, <2>2, <1>1
  <2>. QED
    BY <2>2, <2>3 DEF Kept
<1>. QED
  BY <1>3, <1>4

-----------------------------------------------------------------------------
(* A section that is set up.                                               *)

(* What says where a section lies.                                         *)
Alike(p, r) ==
  /\ r.byteleft = p.byteleft /\ r.secleft = p.secleft /\ r.srtsec = p.srtsec
  /\ r.cookies = p.cookies /\ r.h_idx = p.h_idx /\ r.count = p.count
  /\ r.bytexfer = p.bytexfer /\ r.startsec = p.startsec /\ r.sg = p.sg
  /\ r.cursor = p.cursor /\ r.v_addr_sav = p.v_addr_sav

(* Counters, addresses and flags do not say where a section lies.          *)
LEMMA LiesAlike ==
  ASSUME NEW m, NEW d, NEW p, NEW r, Alike(p, r), Lies(m, d, p)
  PROVE  Lies(m, d, r)
<1>1. Before(r) = Before(p)
  BY DEF Alike, Before
<1>. DEFINE e == Before(p) + p.secleft
<1>2. p.cookies # <<>> => Behind(d, r, e)
  BY BehindSame DEF Alike, Lies
<1>. HIDE DEF e
<1>3. e = Before(r) + r.secleft
  BY <1>1 DEF Alike, e
<1>. QED
  BY <1>1, <1>2, <1>3, Zenon DEF Alike, Lies, e

(* A section lies in the transfer and on the disk.                         *)
LEMMA LiesFacts ==
  ASSUME NEW m, NEW d \in Disks, NEW p \in PktSet, Lies(m, d, p)
  PROVE  /\ N \in Nat \ {0} /\ Before(p) \in 0 .. N - 1 /\ p.bytexfer \in 1 .. N
         /\ p.bytexfer <= MaxTransfer /\ Before(p) + p.bytexfer <= N
         /\ p.startsec \in Nat /\ p.byteleft \in Nat /\ p.byteleft = N - Before(p)
         /\ p.startsec + p.bytexfer - 1 \in 0 .. Capacity(d.id) - 1
         /\ p.startsec \in 0 .. Capacity(d.id) - 1
         /\ \A j \in 0 .. p.bytexfer - 1 : Place(d, Before(p) + j) = p.startsec + j
<1>1. /\ N \in Nat \ {0} /\ MaxTransfer \in Nat
      /\ p.byteleft \in 0 .. N /\ p.secleft \in 0 .. N /\ p.bytexfer \in 0 .. N
      /\ p.startsec \in Nat
  BY TransferAssumption, RegAssumption, PktFields
<1>2. /\ p.bytexfer > 0 /\ p.bytexfer <= MaxTransfer /\ p.bytexfer <= p.secleft /\ Before(p) + p.secleft <= N
      /\ p.startsec = p.srtsec
      /\ \A j \in 0 .. p.secleft - 1 : Place(d, Before(p) + j) = p.srtsec + j
  BY DEF Lies
<1>3. Before(p) = N - p.byteleft
  BY DEF Before
<1>4. Before(p) \in 0 .. N - 1 /\ p.bytexfer \in 1 .. N /\ Before(p) + p.bytexfer <= N
      /\ p.byteleft = N - Before(p)
  BY <1>1, <1>2, <1>3
<1>5. \A j \in 0 .. p.bytexfer - 1 : Place(d, Before(p) + j) = p.startsec + j
  BY <1>1, <1>2, <1>4
<1>6. ASSUME NEW j \in 0 .. p.bytexfer - 1 PROVE p.startsec + j \in 0 .. Capacity(d.id) - 1
  <2>1. Before(p) + j \in 0 .. N - 1
    BY <1>1, <1>4
  <2>2. Place(d, Before(p) + j) \in 0 .. Capacity(d.id) - 1
    BY <2>1, PlaceRange
  <2>. QED
    BY <2>2, <1>5
<1>7. 0 \in 0 .. p.bytexfer - 1 /\ p.bytexfer - 1 \in 0 .. p.bytexfer - 1
  BY <1>4, <1>1
<1>8. p.startsec + 0 = p.startsec /\ p.startsec + (p.bytexfer - 1) = p.startsec + p.bytexfer - 1
  BY <1>1, <1>4
<1>9. p.startsec + 0 \in 0 .. Capacity(d.id) - 1
      /\ p.startsec + (p.bytexfer - 1) \in 0 .. Capacity(d.id) - 1
  BY <1>6, <1>7
<1>. QED
  BY <1>1, <1>2, <1>4, <1>5, <1>8, <1>9

(* The part of a section from its c-th sector on.                          *)
LEMMA SectionPart ==
  ASSUME NEW m, NEW d \in Disks, NEW p \in PktSet, Lies(m, d, p),
         NEW c \in Nat, NEW k \in Nat, c + k <= p.bytexfer
  PROVE  /\ Before(p) + c \in Nat /\ p.startsec + c \in Nat /\ Before(p) + c + k <= N
         /\ \A j \in 0 .. k - 1 : Place(d, (Before(p) + c) + j) = (p.startsec + c) + j
<1>1. /\ Before(p) \in 0 .. N - 1 /\ p.bytexfer \in 1 .. N /\ Before(p) + p.bytexfer <= N
      /\ p.startsec \in Nat /\ N \in Nat
      /\ \A j \in 0 .. p.bytexfer - 1 : Place(d, Before(p) + j) = p.startsec + j
  BY LiesFacts
<1>. DEFINE B == Before(p)  s == p.startsec
<1>2. ASSUME NEW j \in 0 .. k - 1 PROVE Place(d, (B + c) + j) = (s + c) + j
  <2>1. c + j \in 0 .. p.bytexfer - 1 /\ B + (c + j) = (B + c) + j /\ s + (c + j) = (s + c) + j
    BY <1>1
  <2>2. Place(d, B + (c + j)) = s + (c + j)
    BY <2>1, <1>1
  <2>. QED
    BY <2>1, <2>2
<1>. QED
  BY <1>1, <1>2

-----------------------------------------------------------------------------
(* The invariant holds at first, and every step keeps it.                  *)

(* When the request is not being worked on and the drive is not busy,      *)
(* nothing is asked of the drive.                                          *)
LEMMA Settled ==
  ASSUME at' \notin Working, dev'.state # "busy",
         dev'.state = "error_drq" => ErrorData /\ dir' = "read" /\ ~dma',
         dev'.error = "bus" => dma'
  PROVE  DriveInv'
BY DEF DriveInv, Drives, DmaRuns, Written, Writing, Reading, Working, Polling

(* Nothing is asked yet of how the transfer ends.                          *)
LEMMA StillGoing ==
  ASSUME at' # "finished"
  PROVE  Correct' /\ ErrorResid' /\ Ended'
BY DEF Correct, ErrorResid, Ended

(* dadk_ioprep sets up the first section.                                  *)
LEMMA InitInv ==
  ASSUME Init, Unmapped
  PROVE  TransferInv
<1>. DEFINE p == NewPkt  h == Handle(disk)
<1>0. /\ N \in Nat \ {0} /\ MaxTransfer \in Nat \ {0} /\ Factor \in Nat \ {0}
      /\ RetryCount \in Nat /\ MaxErrors \in Nat /\ MaxSlow \in Nat
      /\ FirstSec \in Nat
  BY TransferAssumption
<1>1. disk \in Disks /\ p.cookies = h /\ (dma => h = <<>>)
  BY DEF Init, Unmapped, NewPkt, Handle
<1>2. IF h = <<>> THEN \A i \in 0 .. N - 1 : Place(disk, i) = FirstSec + i
      ELSE h \in Seq(CookieSet) /\ \E start : Cut(disk, h, start)
  BY <1>1, HandleRight
<1>3. h \in Seq(CookieSet)
  <2>. HIDE DEF h
  <2>1. <<>> \in Seq(CookieSet)
    OBVIOUS
  <2>2. h # <<>> => h \in Seq(CookieSet)
    BY <1>2
  <2>. QED
    BY <2>1, <2>2, Zenon
<1>4. p \in PktSet /\ p.byteleft = N /\ p.bytexfer = 0 /\ p.secleft = 0 /\ p.h_idx = 1
      /\ p.cursor = 0 /\ p.v_addr = 0 /\ p.flags = {} /\ p.retry = 0 /\ p.error = "none"
  <2>1. GetHandle(alts, FirstSec, N) = h
    BY DEF Init, Handle
  <2>2. {} \in SUBSET {"ERROR", "TIMEOUT", "BUS_RESET"}
    OBVIOUS
  <2>. HIDE DEF h
  <2>. QED
    BY <2>1, <2>2, <1>0, <1>3 DEF NewPkt, PktSet
<1>5. Ready(dma, disk, p)
  <2>1. Before(p) = 0 /\ p.secleft - p.bytexfer = 0
    BY <1>4, <1>0 DEF Before
  <2>2. h # <<>> => Behind(disk, p, 0)
    <3>1. SUFFICES ASSUME h # <<>> PROVE Behind(disk, p, 0)
      OBVIOUS
    <3>2. PICK start : Cut(disk, h, start)
      BY <3>1, <1>2
    <3>3. start \in [1 .. Len(h) + 1 -> 0 .. N] /\ start[1] = 0
      BY <3>2 DEF Cut
    <3>4. 1 \in 1 .. Len(h) + 1
      BY <1>3
    <3>. HIDE DEF p, h
    <3>. QED
      BY <3>2, <3>3, <3>4, <1>1, <1>4 DEF Behind
  <2>. HIDE DEF p, h
  <2>. QED
    BY <2>1, <2>2, <1>0, <1>1, <1>2, <1>4 DEF Ready
<1>. HIDE DEF p, h
<1>6. /\ pkt \in PktSet /\ Lies(dma, disk, pkt) /\ Carried(p, pkt)
      /\ pkt.resid = pkt.bytexfer /\ pkt.cp_resid = pkt.bytexfer /\ pkt.flags = {}
  <2>1. pkt = DadkIosetup(p)
    BY DEF Init, p
  <2>. QED
    BY <2>1, <1>4, <1>5, DadkIosetupLies
<1>7. /\ pkt.byteleft = N /\ pkt.v_addr = 0 /\ pkt.retry = 0
      /\ Before(pkt) = 0 /\ Counted(pkt) = 0
  <2>1. pkt.bytexfer \in Nat
    BY <1>0, <1>6, PktFields
  <2>. QED
    BY <2>1, <1>0, <1>4, <1>6 DEF Carried, Before, Counted
<1>8. /\ at = "queued" /\ dev = IdleDev /\ moved = <<>> /\ errors = 0 /\ slow = 0
      /\ faulted = FALSE /\ bp = [resid |-> 0, error |-> "none"]
      /\ dir \in Dirs /\ dma \in Dmas
      /\ alts = SliceEntries(disk.table, SliceFirst, SliceLast)
  BY DEF Init
<1>9. dev \in DevSet /\ dev.state = "idle" /\ dev.error = "none"
  BY <1>8, <1>0 DEF DevSet, IdleDev
<1>10. Types
  <2>1. bp \in [resid : Nat, error : {"none", "EIO", "ENXIO"}]
    BY <1>8, <1>0
  <2>2. errors \in 0 .. MaxErrors /\ faulted \in BOOLEAN /\ slow \in 0 .. MaxSlow
    <3>1. errors = 0 /\ slow = 0 /\ faulted = FALSE
      BY <1>8
    <3>2. 0 \in 0 .. MaxErrors /\ 0 \in 0 .. MaxSlow
      BY <1>0
    <3>3. faulted \in BOOLEAN
      BY <3>1, Zenon
    <3>. QED
      BY <3>1, <3>2, <3>3
  <2>. QED
    BY <2>1, <2>2, <1>1, <1>6, <1>8, <1>9 DEF Types, Places
<1>11. DriveInv
  BY <1>8, <1>9 DEF DriveInv, Drives, DmaRuns, Written, Writing, Reading, Working, Polling
<1>12. MovedIn(dir, disk, moved)
  BY <1>8 DEF MovedIn
<1>13. Progress(at, dma, pkt, Hit) /\ Flags(at, dir, dma, pkt)
  <2>1. pkt.bytexfer \in Nat /\ pkt.resid <= pkt.bytexfer /\ pkt.cp_resid <= pkt.bytexfer
    BY <1>0, <1>6, PktFields
  <2>. QED
    BY <2>1, <1>0, <1>6, <1>7, <1>8 DEF Progress, Flags
<1>14. Sure(at, dir, dma, disk, pkt, moved, faulted, Hit)
  BY <1>6, <1>7, <1>8, HeldEmpty DEF Sure, Doubt
<1>15. Trouble(dma, pkt, dev, Hit)
  BY <1>6, <1>9 DEF Trouble
<1>. QED
  BY <1>6, <1>8, <1>10, <1>11, <1>12, <1>13, <1>14, <1>15
     DEF TransferInv, Going, ErrorBlock, Correct, ErrorResid, Ended

(* What a step of the drive, which does not touch the request, keeps.      *)
LEMMA GoingSame ==
  ASSUME Going, UNCHANGED <<at, dir, dma, disk, pkt, bp, moved, faulted>>, Hit' = Hit
  PROVE  Going'
BY DEF Going

(* The fields of the drive.                                                *)
LEMMA DevFields ==
  ASSUME NEW v \in DevSet
  PROVE  /\ v.state \in {"idle", "busy", "drq", "error", "error_drq"}
         /\ v.lba \in Nat /\ v.left \in 0 .. N /\ v.first \in Nat /\ v.block \in 0 .. N
         /\ v.irq \in BOOLEAN /\ v.error \in {"none", "UNC", "ABRT", "bus"}
BY DEF DevSet

(* Where the request can be while the drive is busy.                       *)
LEMMA Busy ==
  ASSUME TransferInv, dev.state = "busy"
  PROVE  /\ at \in Working /\ Going
         /\ dma \/ dir = "read" => at = "wait"
BY DEF TransferInv, DriveInv, Drives, Working, Going, Flags

(* The drive offers or asks for its next block: the request is not         *)
(* touched.                                                                *)
LEMMA StepDevReady ==
  ASSUME TransferInv, DevReady
  PROVE  TransferInv'
<1>0. N \in Nat /\ Factor \in Nat \ {0}
  BY TransferAssumption
<1>1. at \in Working /\ Going /\ (dir = "read" => at = "wait")
  BY Busy DEF DevReady
<1>2. /\ dev.state = "busy" /\ ~dma
      /\ UNCHANGED <<at, dir, dma, disk, alts, pkt, bp, moved, errors, faulted, slow>>
      /\ dev' = [dev EXCEPT !.state = IF dir = "write" /\ dev.left = 0 THEN "idle" ELSE "drq",
                            !.first = dev.lba, !.block = Least(dev.left, Factor),
                            !.irq = dir = "read" \/ dev.lba # pkt.startsec]
  BY DEF DevReady
<1>3. Types /\ dev \in DevSet /\ pkt \in PktSet
  BY DEF TransferInv, Types
<1>4. /\ dev.lba \in Nat /\ dev.left \in 0 .. N /\ dev.irq \in BOOLEAN
      /\ dev.error \in {"none", "UNC", "ABRT", "bus"}
      /\ Least(dev.left, Factor) \in 0 .. N
  <2>1. dev.left \in 0 .. N
    BY <1>3, DevFields
  <2>2. Least(dev.left, Factor) \in 0 .. N
    BY <2>1, <1>0 DEF Least
  <2>. QED
    BY <2>1, <2>2, <1>3, DevFields
<1>5. /\ dev'.state \in {"idle", "drq"} /\ dev'.lba = dev.lba /\ dev'.left = dev.left
      /\ dev'.first = dev.lba /\ dev'.block = Least(dev.left, Factor)
      /\ dev'.irq <=> dir = "read" \/ dev.lba # pkt.startsec
      /\ dev'.error = dev.error
      /\ dir = "read" => dev'.state = "drq"
  BY <1>2, <1>3 DEF DevSet
<1>6. dev' \in DevSet
  BY <1>2, <1>3, <1>4 DEF DevSet
<1>7. Types'
  BY <1>2, <1>3, <1>6 DEF Types
<1>8. Going' /\ MovedIn(dir, disk, moved)' /\ Trouble(dma, pkt, dev, Hit)'
  <2>1. Hit' = Hit
    BY <1>2 DEF Hit
  <2>. QED
    BY <2>1, <1>1, <1>2, GoingSame DEF TransferInv, Trouble
<1>9. Reading(at, dir, dma, pkt, dev)'
  <2>1. Reading(at, dir, dma, pkt, dev)
    BY DEF TransferInv, DriveInv
  <2>. QED
    BY <2>1, <1>2, <1>5 DEF Reading
<1>10. Writing(at, dir, dma, pkt, dev)'
  <2>1. Writing(at, dir, dma, pkt, dev)
    BY DEF TransferInv, DriveInv
  <2>2. pkt.bytexfer \in Nat /\ pkt.resid \in Nat /\ pkt.startsec \in Nat /\ pkt.wrt_count \in Nat
        /\ pkt.resid <= pkt.bytexfer
    BY <1>1, <1>2, <1>3, PktFields, <1>0 DEF Going, Progress, Mis
  <2>3. ASSUME at \in {"wait"} \cup Polling, dir = "write"
        PROVE  /\ pkt.resid > 0 /\ Chunk(at, pkt) <= pkt.resid
               /\ dev.left = pkt.resid - Chunk(at, pkt)
               /\ dev.lba = pkt.startsec + Counted(pkt) + Chunk(at, pkt)
               /\ dev.lba \in pkt.startsec + Counted(pkt) .. dev.lba
               /\ at \in Polling => dev.lba = pkt.startsec
    <3>1. /\ pkt.resid > 0 /\ Chunk(at, pkt) <= pkt.resid
          /\ dev.left = pkt.resid - Chunk(at, pkt)
          /\ dev.lba = pkt.startsec + Counted(pkt) + Chunk(at, pkt)
          /\ at = "poll_next" => pkt.wrt_count = 0 /\ pkt.resid = pkt.bytexfer
      BY <2>1, <2>3, <1>2 DEF Writing
    <3>2. Chunk(at, pkt) \in Nat /\ Counted(pkt) \in Nat
      BY <2>2 DEF Chunk, Counted
    <3>3. at \in Polling => pkt.wrt_count = 0 /\ pkt.resid = pkt.bytexfer
      BY <3>1, <1>1, <1>2 DEF Going, Progress, Polling
    <3>4. at \in Polling => Chunk(at, pkt) = 0 /\ Counted(pkt) = 0
      BY <3>3, <2>2 DEF Chunk, Counted
    <3>5. at \in Polling => dev.lba = pkt.startsec
      BY <3>1, <3>4, <2>2
    <3>. QED
      BY <3>1, <3>2, <3>5, <2>2, <1>4
  <2>4. SUFFICES ASSUME at \in {"wait"} \cup Polling, dir = "write"
                 PROVE  Writing(at, dir, dma, pkt, dev)'
    BY <1>2 DEF Writing
  <2>. QED
    BY <2>3, <2>4, <1>2, <1>5 DEF Writing
<1>11. Written(at, dir, dma, disk, pkt, dev, moved)'
  <2>1. Written(at, dir, dma, disk, pkt, dev, moved)
    BY DEF TransferInv, DriveInv
  <2>. QED
    BY <2>1, <1>2 DEF Written
<1>12. DmaRuns(at, dir, dma, disk, pkt, dev, moved, faulted)'
  BY <1>2 DEF DmaRuns
<1>13. Drives(at, dir, dma, dev)'
  <2>1. Drives(at, dir, dma, dev)
    BY DEF TransferInv, DriveInv
  <2>. QED
    BY <2>1, <1>2, <1>5 DEF Drives
<1>14. at' # "finished" /\ at' # "complete"
  BY <1>1, <1>2 DEF Working
<1>. QED
  BY <1>7, <1>8, <1>9, <1>10, <1>11, <1>12, <1>13, <1>14, StillGoing
     DEF TransferInv, DriveInv, ErrorBlock

(* The numbers of a request that is not finished.                          *)
LEMMA GoingFacts ==
  ASSUME TransferInv, Going
  PROVE  /\ N \in Nat \ {0} /\ Factor \in Nat \ {0} /\ MaxTransfer \in Nat \ {0}
         /\ pkt \in PktSet /\ dev \in DevSet /\ disk \in Disks /\ Types
         /\ Lies(dma, disk, pkt) /\ MovedIn(dir, disk, moved)
         /\ Before(pkt) \in 0 .. N - 1 /\ pkt.bytexfer \in 1 .. N
         /\ Before(pkt) + pkt.bytexfer <= N /\ pkt.byteleft = N - Before(pkt)
         /\ pkt.bytexfer <= MaxTransfer
         /\ pkt.startsec \in 0 .. Capacity(disk.id) - 1
         /\ pkt.startsec + pkt.bytexfer - 1 \in 0 .. Capacity(disk.id) - 1
         /\ pkt.retry \in 0 .. RetryCount
         /\ pkt.resid \in Nat /\ Counted(pkt) = pkt.bytexfer - pkt.resid
         /\ Counted(pkt) \in Int
         /\ ~Mis(dma, pkt, Hit) => pkt.resid \in 0 .. pkt.bytexfer
                                  /\ Counted(pkt) \in 0 .. pkt.bytexfer
         /\ ~dma => ~Mis(dma, pkt, Hit)
         /\ pkt.wrt_count \in 0 .. N
<1>1. /\ pkt \in PktSet /\ dev \in DevSet /\ disk \in Disks /\ Types
      /\ Lies(dma, disk, pkt) /\ MovedIn(dir, disk, moved) /\ Progress(at, dma, pkt, Hit)
  BY DEF TransferInv, Types, Going
<1>2. /\ N \in Nat \ {0} /\ Before(pkt) \in 0 .. N - 1 /\ pkt.bytexfer \in 1 .. N
      /\ Before(pkt) + pkt.bytexfer <= N /\ pkt.byteleft = N - Before(pkt)
      /\ pkt.startsec \in 0 .. Capacity(disk.id) - 1
      /\ pkt.startsec + pkt.bytexfer - 1 \in 0 .. Capacity(disk.id) - 1
  BY <1>1, LiesFacts
<1>3. pkt.bytexfer <= MaxTransfer
  BY <1>1 DEF Lies
<1>4. pkt.resid \in Nat /\ pkt.retry \in 0 .. RetryCount + 1 /\ pkt.wrt_count \in 0 .. N
  BY <1>1, PktFields
<1>5. (Mis(dma, pkt, Hit) \/ pkt.resid <= pkt.bytexfer) /\ pkt.retry <= RetryCount
  BY <1>1 DEF Progress
<1>6. Counted(pkt) = pkt.bytexfer - pkt.resid
  BY DEF Counted
<1>7. Factor \in Nat \ {0} /\ MaxTransfer \in Nat \ {0} /\ RetryCount \in Nat
  BY TransferAssumption
<1>8. pkt.retry \in 0 .. RetryCount /\ Counted(pkt) \in Int
      /\ pkt.resid <= pkt.bytexfer =>
           pkt.resid \in 0 .. pkt.bytexfer /\ Counted(pkt) \in 0 .. pkt.bytexfer
  BY <1>2, <1>4, <1>5, <1>6, <1>7
<1>9. ~dma => ~Mis(dma, pkt, Hit)
  BY DEF Mis
<1>. QED
  BY <1>1, <1>2, <1>3, <1>4, <1>5, <1>6, <1>7, <1>8, <1>9

(* Nothing that is asserted of the sectors before the one that counts next *)
(* is lost if those sectors are kept.                                      *)
LEMMA SureKept ==
  ASSUME TransferInv, Going, UNCHANGED <<dir, dma, disk, pkt, at>>,
         at # "complete", faulted => faulted', Hit => Hit',
         \A i \in 0 .. N - 1 : dma \/ i < Before(pkt) + Counted(pkt) =>
           (Kept(dir, disk, moved, i) => Kept(dir, disk, moved', i))
  PROVE  Sure(at, dir, dma, disk, pkt, moved, faulted, Hit)'
<1>. DEFINE B == Before(pkt)  C == Counted(pkt)  D == Doubt(at, dir, dma, pkt)
            M == Mis(dma, pkt, Hit)
<1>1. /\ B \in 0 .. N - 1 /\ D \in Nat /\ N \in Nat /\ C \in Int
      /\ ~M => C \in 0 .. N /\ B + C <= N
      /\ ~dma => C \in 0 .. N
  <2>1. /\ Before(pkt) \in 0 .. N - 1 /\ N \in Nat /\ pkt.bytexfer \in 1 .. N
        /\ Before(pkt) + pkt.bytexfer <= N /\ Counted(pkt) \in Int
        /\ ~M => Counted(pkt) \in 0 .. pkt.bytexfer
        /\ ~dma => ~M
    BY GoingFacts
  <2>2. D \in Nat
    BY GoingFacts DEF Doubt, Over
  <2>. HIDE DEF D, M
  <2>. QED
    BY <2>1, <2>2
<1>2. /\ Held(dir, disk, moved, 0, B)
      /\ ~(dma /\ faulted) /\ ~M => Held(dir, disk, moved, B, C - D)
  BY DEF Going, Sure
<1>3. ~(dma /\ faulted') /\ ~Mis(dma, pkt, Hit') => ~(dma /\ faulted) /\ ~M
  BY DEF Mis
<1>4. \A i \in 0 .. N - 1 : dma \/ i < B + C =>
           (Kept(dir, disk, moved, i) => Kept(dir, disk, moved', i))
  OBVIOUS
<1>. HIDE DEF B, C, D, M
<1>5. Held(dir, disk, moved', 0, B)
  <2>1. \A i \in 0 .. 0 + B - 1 : i \in 0 .. N - 1 /\ (dma \/ i < B + C)
    BY <1>1
  <2>2. \A i \in 0 .. 0 + B - 1 : Kept(dir, disk, moved, i) => Kept(dir, disk, moved', i)
    BY <2>1, <1>4
  <2>. QED
    BY <2>2, <1>1, <1>2, HeldKept
<1>6. ~(dma /\ faulted') /\ ~Mis(dma, pkt, Hit') => Held(dir, disk, moved', B, C - D)
  <2>1. SUFFICES ASSUME ~(dma /\ faulted) /\ ~M PROVE Held(dir, disk, moved', B, C - D)
    BY <1>3
  <2>2. \A i \in B .. B + (C - D) - 1 : i \in 0 .. N - 1 /\ i < B + C
    BY <2>1, <1>1
  <2>3. \A i \in B .. B + (C - D) - 1 : Kept(dir, disk, moved, i) => Kept(dir, disk, moved', i)
    BY <2>2, <1>4
  <2>4. C - D \in Int /\ B \in Int
    BY <1>1
  <2>. QED
    BY <2>1, <2>3, <2>4, <1>2, HeldKept
<1>. QED
  BY <1>5, <1>6 DEF Sure, B, C, D

(* An error of the drive: a write loses no sector that counts.             *)
LEMMA StepDevError ==
  ASSUME TransferInv, NEW e \in {"UNC", "ABRT"}, DevError(e)
  PROVE  TransferInv'
<1>1. at \in Working /\ Going /\ (dir = "read" => at = "wait")
  BY Busy DEF DevError
<1>. DEFINE B == Before(pkt)  C == Counted(pkt)  s == pkt.startsec
<1>2. /\ dev.state = "busy" /\ ~dma
      /\ UNCHANGED <<at, dir, dma, disk, alts, pkt, bp, faulted, slow>>
      /\ errors < MaxErrors /\ errors' = errors + 1
      /\ moved' = IF dir = "read" THEN moved
                  ELSE [i \in DOMAIN moved \ (dev.first .. dev.lba - 1) |-> moved[i]]
  BY DEF DevError
<1>3. PICK st \in {"error", "error_drq"} :
        /\ dev' = [dev EXCEPT !.state = st, !.error = e, !.irq = TRUE,
                              !.block = Least(dev.left, Factor)]
        /\ st = "error_drq" => ErrorData /\ dir = "read"
  BY DEF DevError
<1>4. /\ N \in Nat /\ Factor \in Nat \ {0} /\ dev \in DevSet /\ disk \in Disks /\ Types
      /\ B \in Nat /\ pkt.bytexfer \in Nat /\ B + pkt.bytexfer <= N /\ s \in Nat
      /\ C \in 0 .. pkt.bytexfer /\ pkt.resid \in Nat /\ C = pkt.bytexfer - pkt.resid
      /\ Lies(dma, disk, pkt) /\ pkt \in PktSet
  BY <1>1, <1>2, GoingFacts
<1>b. \A j \in 0 .. pkt.resid - 1 : Place(disk, (B + C) + j) = (s + C) + j
  <2>1. C \in Nat /\ C + pkt.resid <= pkt.bytexfer
    BY <1>4
  <2>2. /\ C \in Nat /\ pkt.resid \in Nat /\ C + pkt.resid <= pkt.bytexfer
        /\ disk \in Disks /\ pkt \in PktSet /\ Lies(dma, disk, pkt)
    BY <2>1, <1>4
  <2>. QED
    BY ONLY <2>2, SectionPart, ZenonT(40)
<1>5. /\ dev.lba \in Nat /\ dev.left \in 0 .. N /\ dev.first \in Nat
      /\ Least(dev.left, Factor) \in 0 .. N
  <2>1. dev.lba \in Nat /\ dev.left \in 0 .. N /\ dev.first \in Nat
    BY <1>4, DevFields
  <2>2. Least(dev.left, Factor) \in 0 .. N
    BY <2>1, <1>4 DEF Least
  <2>. QED
    BY <2>1, <2>2
<1>6. /\ dev'.state = st /\ dev'.error = e /\ dev'.irq = TRUE /\ dev'.lba = dev.lba
      /\ dev'.left = dev.left /\ dev'.first = dev.first
  BY <1>3, <1>4 DEF DevSet
<1>7. dev' \in DevSet
  BY <1>3, <1>4, <1>5 DEF DevSet
<1>8. Types'
  <2>1. errors' \in 0 .. MaxErrors
    BY <1>2, <1>4, TransferAssumption DEF Types
  <2>. QED
    BY <2>1, <1>2, <1>4, <1>7 DEF Types
<1>9. MovedIn(dir, disk, moved)'
  <2>1. MovedIn(dir, disk, moved)
    BY DEF TransferInv
  <2>2. CASE dir = "read"
    BY <2>1, <2>2, <1>2
  <2>3. CASE dir # "read"
    BY <2>1, <2>3, <1>2 DEF MovedIn
  <2>. QED
    BY <2>2, <2>3
<1>10. Reading(at, dir, dma, pkt, dev)'
  <2>1. Reading(at, dir, dma, pkt, dev)
    BY DEF TransferInv, DriveInv
  <2>. QED
    BY <2>1, <1>2, <1>3, <1>6 DEF Reading
<1>a. Writing(at, dir, dma, pkt, dev)
  BY DEF TransferInv, DriveInv
<1>11. Writing(at, dir, dma, pkt, dev)'
  <2>1. SUFFICES ASSUME at \in {"wait"} \cup Polling, dir = "write"
                 PROVE  Writing(at, dir, dma, pkt, dev)'
    BY <1>2 DEF Writing
  <2>2. st = "error"
    BY <2>1, <1>3
  <2>. QED
    BY <2>1, <2>2, <1>a, <1>2, <1>6 DEF Writing
<1>12. Written(at, dir, dma, disk, pkt, dev, moved)'
  BY <1>2, <1>3, <1>6 DEF Written
<1>13. DmaRuns(at, dir, dma, disk, pkt, dev, moved, faulted)'
  BY <1>2 DEF DmaRuns
<1>14. Drives(at, dir, dma, dev)'
  BY <1>2, <1>3, <1>6 DEF Drives
<1>15. \A i \in 0 .. N - 1 : i < B + C => (Kept(dir, disk, moved, i) => Kept(dir, disk, moved', i))
  <2>1. CASE dir = "read"
    BY <2>1, <1>2
  <2>2. CASE dir # "read"
    <3>1. dir = "write"
      BY <2>2, <1>4, TransferAssumption DEF Types
    <3>2. at \in {"wait"} \cup Polling
      BY <1>1 DEF Working, Polling
    <3>3. /\ Chunk(at, pkt) <= pkt.resid /\ dev.lba = s + C + Chunk(at, pkt)
          /\ dev.first \in s + C .. dev.lba
      BY <3>1, <3>2, <1>a, <1>2 DEF Writing
    <3>4. Chunk(at, pkt) \in Nat
      BY <1>4, PktFields DEF Chunk
    <3>5. SUFFICES ASSUME NEW i \in 0 .. N - 1, i < B + C, Kept(dir, disk, moved, i)
                   PROVE  Kept(dir, disk, moved', i)
      OBVIOUS
    <3>. DEFINE x == Place(disk, i)
    <3>6. x \in DOMAIN moved /\ moved[x] = i
      BY <3>5, <2>2 DEF Kept
    <3>7. x \notin dev.first .. dev.lba - 1
      <4>1. SUFFICES ASSUME x \in dev.first .. dev.lba - 1 PROVE FALSE
        OBVIOUS
      <4>. DEFINE j == x - (s + C)
      <4>2. j \in 0 .. pkt.resid - 1 /\ x = (s + C) + j
        BY <4>1, <3>3, <3>4, <1>4, <1>5
      <4>. HIDE DEF j, x
      <4>3. Place(disk, (B + C) + j) = (s + C) + j
        BY <4>2, <1>b
      <4>5. i \in 0 .. N - 1 /\ (B + C) + j \in 0 .. N - 1
        BY <4>2, <1>4
      <4>6. i = (B + C) + j
        BY <4>2, <4>3, <4>5, <1>4, PlaceApart DEF x
      <4>. QED
        <5>1. i < B + C /\ j \in Nat /\ B + C \in Int
          BY <3>5, <4>2, <1>4
        <5>. HIDE DEF B, C
        <5>. QED
          BY <5>1, <4>6
    <3>. HIDE DEF x
    <3>8. x \in DOMAIN moved' /\ moved'[x] = i
      BY <3>6, <3>7, <2>2, <1>2
    <3>. QED
      BY <3>8, <2>2 DEF Kept, x
  <2>. QED
    BY <2>1, <2>2
<1>16. at # "complete" /\ at' # "complete" /\ at' # "finished"
  BY <1>1, <1>2 DEF Working
<1>19. Hit => Hit'
  <2>1. errors \in Nat /\ slow \in Nat
    BY <1>4, TransferAssumption DEF Types
  <2>. QED
    BY <2>1, <1>2 DEF Hit
<1>17. Sure(at, dir, dma, disk, pkt, moved, faulted, Hit)'
  BY <1>1, <1>2, <1>15, <1>16, <1>19, SureKept
<1>20. Progress(at, dma, pkt, Hit)'
  BY <1>1, <1>2 DEF Going, Progress, Mis
<1>18. Going'
  BY <1>1, <1>2, <1>17, <1>20 DEF Going
<1>21. Trouble(dma, pkt, dev, Hit)'
  BY <1>2 DEF Trouble
<1>. QED
  BY <1>21, <1>8, <1>9, <1>10, <1>11, <1>12, <1>13, <1>14, <1>16, <1>18, StillGoing
     DEF TransferInv, DriveInv, ErrorBlock

(* The DMA engine has moved k sectors: in place, and no others are lost.   *)
LEMMA StepDmaDone ==
  ASSUME TransferInv, NEW k \in 0 .. N, NEW e \in {"none", "UNC", "ABRT", "bus"},
         DmaDone(k, e)
  PROVE  TransferInv'
<1>1. at = "wait" /\ Going
  BY Busy DEF DmaDone
<1>. DEFINE B == Before(pkt)  s == pkt.startsec  n == pkt.bytexfer
<1>0. dma => dev.left = n
  BY <1>1 DEF TransferInv, DriveInv, DmaRuns
<1>2. /\ dev.state = "busy" /\ dma /\ k \in 0 .. n
      /\ (e = "none" => k = n) /\ (e # "none" => k < n)
      /\ errors' = (IF e = "none" THEN errors ELSE errors + 1)
      /\ e # "none" => errors < MaxErrors
      /\ faulted' = (faulted \/ e = "bus")
      /\ UNCHANGED <<at, dir, dma, disk, alts, pkt, bp, slow>>
  BY <1>0 DEF DmaDone
<1>3. /\ N \in Nat /\ dev \in DevSet /\ disk \in Disks /\ Types /\ pkt \in PktSet
      /\ B \in Nat /\ n \in 1 .. N /\ B + n <= N /\ s \in Nat
      /\ Lies(dma, disk, pkt) /\ MovedIn(dir, disk, moved)
  BY <1>1, GoingFacts
<1>4. dev.lba = s /\ dev.irq = FALSE /\ pkt.sg = B
  <2>1. DmaRuns(at, dir, dma, disk, pkt, dev, moved, faulted)
    BY DEF TransferInv, DriveInv
  <2>2. dev.irq \in BOOLEAN
    BY <1>3, DevFields
  <2>3. ~dev.irq /\ dev.lba = s
    BY <2>1, <1>1, <1>2 DEF DmaRuns
  <2>. QED
    BY <2>2, <2>3, <1>2, <1>3 DEF Lies
<1>. DEFINE st == IF e \in {"UNC", "ABRT"} THEN "error" ELSE "idle"
            l == IF e \in {"UNC", "ABRT"} THEN dev.lba + k ELSE dev.lba + n - 1
<1>5. dev' = [dev EXCEPT !.state = st, !.error = e, !.irq = TRUE, !.lba = l]
  BY <1>0, <1>2 DEF DmaDone
<1>6. moved' = Move(dir, moved, B, s, k)
  <2>1. moved' = LET off == IF dir = "read" THEN B ELSE s
                     new == off .. off + k - 1
                     from == IF dir = "read" THEN s ELSE B
                 IN [i \in DOMAIN moved \cup new |->
                       IF i \in new THEN from + i - off ELSE moved[i]]
    BY <1>4 DEF DmaDone
  <2>. HIDE DEF B, s
  <2>. QED
    BY <2>1 DEF Move
<1>7. l \in Nat
  BY <1>2, <1>3, <1>4
<1>. HIDE DEF l
<1>8. /\ dev'.state = st /\ dev'.error = e /\ dev'.irq = TRUE /\ dev'.lba = l
      /\ dev'.left = dev.left
  BY <1>5, <1>3 DEF DevSet
<1>9. dev' \in DevSet
  BY <1>5, <1>7, <1>3 DEF DevSet
<1>10. Types'
  <2>1. errors' \in 0 .. MaxErrors
    BY <1>2, <1>3, TransferAssumption DEF Types
  <2>2. faulted' \in BOOLEAN
    BY <1>2, <1>3, Zenon DEF Types
  <2>. QED
    BY <2>1, <2>2, <1>2, <1>3, <1>9 DEF Types
<1>11. /\ MovedIn(dir, disk, moved') /\ Held(dir, disk, moved', B, k)
       /\ \A i \in 0 .. N - 1 : Kept(dir, disk, moved, i) => Kept(dir, disk, moved', i)
  <2>1. \A j \in 0 .. k - 1 : Place(disk, B + j) = s + j
    <3>1. \A j \in 0 .. n - 1 : Place(disk, B + j) = s + j
      BY <1>3, LiesFacts
    <3>2. \A j \in 0 .. k - 1 : j \in 0 .. n - 1
      BY <1>2, <1>3
    <3>. QED
      BY <3>1, <3>2
  <2>2. B + k <= N /\ k \in Nat
    BY <1>2, <1>3
  <2>. HIDE DEF B, s, n
  <2>. QED
    BY <2>1, <2>2, <1>3, <1>6, MoveKeeps
<1>12. Reading(at, dir, dma, pkt, dev)' /\ Writing(at, dir, dma, pkt, dev)'
       /\ Written(at, dir, dma, disk, pkt, dev, moved)'
  BY <1>2 DEF Reading, Writing, Written
<1>13. DmaRuns(at, dir, dma, disk, pkt, dev, moved, faulted)'
  <2>1. e = "none" => Held(dir, disk, moved', B, n)
    BY <1>2, <1>11
  <2>2. e \in {"UNC", "ABRT"} => l \in s .. s + n - 1 /\ l - s = k
    BY <1>2, <1>3, <1>4 DEF l
  <2>3. e \in {"UNC", "ABRT"} => Held(dir, disk, moved', B, l - s)
    BY <2>2, <1>11
  <2>4. (e \in {"none", "bus"} => l = s + n - 1) /\ (e = "bus" => faulted')
    BY <1>2, <1>4 DEF l
  <2>5. dev'.state # "busy"
    BY <1>8
  <2>. QED
    BY <2>1, <2>2, <2>3, <2>4, <2>5, <1>0, <1>1, <1>2, <1>8 DEF DmaRuns
<1>14. Drives(at, dir, dma, dev)'
  BY <1>1, <1>2, <1>8 DEF Drives
<1>17. (Hit => Hit') /\ (e # "none" => Hit')
  <2>1. errors \in Nat /\ slow \in Nat
    BY <1>3, TransferAssumption DEF Types
  <2>. QED
    BY <2>1, <1>2 DEF Hit
<1>15. Sure(at, dir, dma, disk, pkt, moved, faulted, Hit)'
  BY <1>1, <1>2, <1>11, <1>17, SureKept
<1>18. Progress(at, dma, pkt, Hit)'
  BY <1>1, <1>2, <1>17 DEF Going, Progress, Mis
<1>16. Going'
  BY <1>1, <1>2, <1>15, <1>18 DEF Going
<1>19. Trouble(dma, pkt, dev, Hit)'
  <2>1. Trouble(dma, pkt, dev, Hit)
    BY DEF TransferInv
  <2>. QED
    BY <2>1, <1>2, <1>8, <1>17 DEF Trouble
<1>. QED
  BY <1>1, <1>2, <1>10, <1>11, <1>12, <1>13, <1>14, <1>16, <1>19, StillGoing
     DEF TransferInv, DriveInv, ErrorBlock

(* The start functions: the command names the section's first sector, by   *)
(* RoundTrip.                                                              *)
LEMMA StepStart ==
  ASSUME TransferInv, Start
  PROVE  TransferInv'
<1>. DEFINE s == pkt.startsec  n == pkt.bytexfer  out == dir = "write" /\ ~dma
<1>1. /\ at = "queued" /\ dev' = Command
      /\ pkt' = (IF out THEN [pkt EXCEPT !.wrt_count = 0] ELSE pkt)
      /\ at' = (IF out THEN "poll_start" ELSE "wait")
      /\ UNCHANGED <<dir, dma, disk, alts, bp, moved, errors, faulted, slow>>
  BY DEF Start
<1>2. Going
  BY <1>1 DEF TransferInv
<1>3. /\ N \in Nat /\ disk \in Disks /\ Types /\ pkt \in PktSet
      /\ Before(pkt) \in Nat /\ n \in 1 .. N /\ s \in 0 .. Capacity(disk.id) - 1
      /\ pkt.resid \in Nat /\ Counted(pkt) = n - pkt.resid
      /\ Lies(dma, disk, pkt) /\ MovedIn(dir, disk, moved) /\ n <= MaxTransfer
  BY <1>2, GoingFacts
<1>c. CountTaken(pkt.count) = n
  <2>1. n \in 1 .. MaxTransfer
    BY <1>3, TransferAssumption, RegAssumption
  <2>2. pkt.count = IF Ext48(disk.id) THEN n ELSE n % Reg
    BY <1>3 DEF Lies
  <2>. HIDE DEF n
  <2>3. (pkt.count # 0 => pkt.count = n) /\ (pkt.count = 0 => ~Ext48(disk.id) /\ n = Reg)
    BY <2>1, <2>2, CountOf
  <2>. QED
    BY <2>3 DEF CountTaken
<1>4. LastBlockXferred(LoadRegs(s, disk.id), disk.id) = s /\ s \in Nat
  <2>1. Sound(disk.id, disk.bios) /\ Capacity(disk.id) \in Nat
    BY <1>3, DiskFacts
  <2>. QED
    BY <2>1, <1>3, RoundTrip
<1>. DEFINE l == LastBlockXferred(LoadRegs(pkt.startsec, disk.id), disk.id)
<1>5. dev' = [IdleDev EXCEPT !.state = "busy", !.lba = l, !.left = pkt.bytexfer, !.first = l]
  <2>1. dev' = [IdleDev EXCEPT !.state = "busy", !.lba = l, !.left = CountTaken(pkt.count),
                               !.first = l]
    BY <1>1, Zenon DEF Command
  <2>. QED
    BY <2>1, <1>c
<1>6. l = s
  BY <1>4
<1>. HIDE DEF l, s, n
<1>7. /\ dev'.state = "busy" /\ dev'.lba = s /\ dev'.left = n /\ dev'.first = s
      /\ dev'.irq = FALSE /\ dev'.error = "none" /\ dev' \in DevSet
  <2>1. dev' = [state |-> "busy", lba |-> s, left |-> n, first |-> s, block |-> 0,
                irq |-> FALSE, error |-> "none"]
    BY <1>5, <1>6 DEF IdleDev, n
  <2>2. s \in Nat /\ n \in 0 .. N /\ 0 \in 0 .. N
    BY <1>3, <1>4 DEF s, n
  <2>3. dev' \in DevSet
    BY <2>1, <2>2 DEF DevSet
  <2>. QED
    BY <2>1, <2>3
<1>8. /\ pkt' \in PktSet /\ Alike(pkt, pkt') /\ pkt'.wrt_count = (IF out THEN 0 ELSE pkt.wrt_count)
      /\ pkt'.resid = pkt.resid /\ pkt'.flags = pkt.flags /\ pkt'.v_addr = pkt.v_addr
      /\ pkt'.retry = pkt.retry /\ pkt'.cp_resid = pkt.cp_resid
  <2>1. CASE out
    <3>1. pkt' = [pkt EXCEPT !.wrt_count = 0]
      BY <2>1, <1>1
    <3>2. pkt' \in PktSet
      <4>1. 0 \in 0 .. N
        BY <1>3
      <4>. QED
        BY <3>1, <4>1, <1>3 DEF PktSet
    <3>3. /\ Alike(pkt, pkt') /\ pkt'.wrt_count = 0
          /\ pkt'.resid = pkt.resid /\ pkt'.flags = pkt.flags /\ pkt'.v_addr = pkt.v_addr
          /\ pkt'.retry = pkt.retry /\ pkt'.cp_resid = pkt.cp_resid
      BY <3>1, <1>3 DEF PktSet, Alike
    <3>. QED
      BY <3>2, <3>3, <2>1
  <2>2. CASE ~out
    BY <2>2, <1>1, <1>3 DEF Alike
  <2>. QED
    BY <2>1, <2>2
<1>9. Types'
  <2>1. at' \in Places
    BY <1>1 DEF Places
  <2>. QED
    BY <2>1, <1>1, <1>3, <1>7, <1>8 DEF Types
<1>10. Lies(dma, disk, pkt)'
  <2>1. Lies(dma, disk, pkt')
    BY <1>3, <1>8, LiesAlike
  <2>. QED
    BY <2>1, <1>1
<1>h. Hit' = Hit /\ Mis(dma, pkt', Hit) = Mis(dma, pkt, Hit)
  BY <1>1, <1>8 DEF Hit, Mis, Alike
<1>11. Before(pkt') = Before(pkt) /\ Counted(pkt') = Counted(pkt) /\ pkt'.bytexfer = n
       /\ pkt'.startsec = s
  BY <1>8 DEF Alike, Before, Counted, s, n
<1>12. Progress(at, dma, pkt, Hit) /\ Flags(at, dir, dma, pkt)
       /\ Sure(at, dir, dma, disk, pkt, moved, faulted, Hit)
       /\ bp = [resid |-> 0, error |-> "none"]
  BY <1>2 DEF Going
<1>13. pkt.flags = {} /\ (~dma => pkt.resid = n)
  BY <1>12, <1>1 DEF Progress, Flags, n
<1>14. Progress(at, dma, pkt, Hit)'
  BY <1>1, <1>8, <1>11, <1>12, <1>13, <1>h DEF Progress, n
<1>15. Flags(at, dir, dma, pkt)'
  BY <1>1, <1>8, <1>13 DEF Flags
<1>16. Sure(at, dir, dma, disk, pkt, moved, faulted, Hit)'
  BY <1>1, <1>8, <1>11, <1>12, <1>13, <1>h DEF Sure, Doubt
<1>17. Going'
  BY <1>1, <1>10, <1>12, <1>14, <1>15, <1>16 DEF Going
<1>18. ~dma => Counted(pkt) = 0
  BY <1>3, <1>13
<1>19. Reading(at, dir, dma, pkt, dev)'
  <2>1. SUFFICES ASSUME dir = "read", ~dma PROVE Reading(at, dir, dma, pkt, dev)'
    BY <1>1 DEF Reading
  <2>. QED
    BY <2>1, <1>1, <1>3, <1>4, <1>7, <1>8, <1>11, <1>13, <1>18 DEF Reading
<1>20. out => at' = "poll_start" /\ pkt'.wrt_count = 0 /\ Chunk(at', pkt') = 0
  BY <1>1, <1>8 DEF Chunk
<1>21. Writing(at, dir, dma, pkt, dev)'
  <2>1. SUFFICES ASSUME out PROVE Writing(at, dir, dma, pkt, dev)'
    BY <1>1 DEF Writing
  <2>2. s + 0 + 0 = s /\ s \in s .. s /\ n - 0 = n /\ n > 0 /\ s + 0 = s
    BY <1>3, <1>4
  <2>. QED
    BY <2>1, <2>2, <1>1, <1>3, <1>7, <1>8, <1>11, <1>13, <1>18, <1>20 DEF Writing
<1>22. Written(at, dir, dma, disk, pkt, dev, moved)'
  <2>1. SUFFICES ASSUME out PROVE Written(at, dir, dma, disk, pkt, dev, moved)'
    BY <1>1 DEF Written
  <2>2. Held(dir', disk', moved', Before(pkt') + Counted(pkt'), 0)
    BY <1>3, <1>11, HeldEmpty
  <2>. QED
    BY <2>1, <2>2, <1>20 DEF Written
<1>23. DmaRuns(at, dir, dma, disk, pkt, dev, moved, faulted)'
  BY <1>7, <1>11 DEF DmaRuns
<1>27. Trouble(dma, pkt, dev, Hit)'
  BY <1>7, <1>8, <1>13 DEF Trouble
<1>24. Drives(at, dir, dma, dev)'
  BY <1>1, <1>7 DEF Drives, Working
<1>25. MovedIn(dir, disk, moved)'
  BY <1>1, <1>3
<1>26. at' # "finished" /\ at' # "complete"
  BY <1>1
<1>. QED
  BY <1>9, <1>17, <1>19, <1>21, <1>22, <1>23, <1>24, <1>25, <1>26, <1>27, StillGoing
     DEF TransferInv, DriveInv, ErrorBlock

(* Finish and Fail.                                                        *)
LEMMA FinishFields ==
  ASSUME NEW p \in PktSet
  PROVE  LET q == [p EXCEPT !.cp_resid = p.resid]
         IN /\ q \in PktSet /\ Alike(p, q) /\ q.cp_resid = p.resid
            /\ q.resid = p.resid /\ q.flags = p.flags /\ q.v_addr = p.v_addr
            /\ q.retry = p.retry /\ q.wrt_count = p.wrt_count
            /\ Before(q) = Before(p) /\ Counted(q) = Counted(p)
<1>. DEFINE q == [p EXCEPT !.cp_resid = p.resid]
<1>1. p.resid \in Nat
  BY PktFields
<1>2. q \in PktSet
  BY <1>1 DEF PktSet
<1>3. /\ Alike(p, q) /\ q.cp_resid = p.resid
      /\ q.resid = p.resid /\ q.flags = p.flags /\ q.v_addr = p.v_addr
      /\ q.retry = p.retry /\ q.wrt_count = p.wrt_count
  BY DEF PktSet, Alike
<1>. HIDE DEF q
<1>4. Before(q) = Before(p) /\ Counted(q) = Counted(p)
  BY <1>3 DEF Alike, Before, Counted
<1>. QED
  BY <1>2, <1>3, <1>4 DEF q

(* An error is noted; where the section lies does not change.              *)
LEMMA FailFields ==
  ASSUME NEW p \in PktSet, NEW e \in {"none", "UNC", "ABRT", "BUSY"}
  PROVE  LET q == Fail(p, e)
         IN /\ q \in PktSet /\ Alike(p, q) /\ q.flags = p.flags \cup {"ERROR"}
            /\ q.error = e /\ q.resid = p.resid /\ q.v_addr = p.v_addr
            /\ q.cp_resid = p.cp_resid
            /\ q.retry = p.retry /\ q.wrt_count = p.wrt_count
            /\ q.bytes_per_block = p.bytes_per_block
            /\ Before(q) = Before(p) /\ Counted(q) = Counted(p)
<1>. DEFINE q == Fail(p, e)
<1>1. p.flags \cup {"ERROR"} \in SUBSET {"ERROR", "TIMEOUT", "BUS_RESET"}
  BY PktFields
<1>2. q = [p EXCEPT !.flags = p.flags \cup {"ERROR"}, !.error = e]
  BY DEF Fail
<1>. HIDE DEF q
<1>3. q \in PktSet
  BY <1>1, <1>2 DEF PktSet
<1>4. /\ Alike(p, q) /\ q.flags = p.flags \cup {"ERROR"}
      /\ q.error = e /\ q.resid = p.resid /\ q.v_addr = p.v_addr
      /\ q.cp_resid = p.cp_resid
      /\ q.retry = p.retry /\ q.wrt_count = p.wrt_count
      /\ q.bytes_per_block = p.bytes_per_block
  BY <1>2 DEF PktSet, Alike
<1>5. Before(q) = Before(p) /\ Counted(q) = Counted(p)
  BY <1>4 DEF Alike, Before, Counted
<1>. QED
  BY <1>3, <1>4, <1>5 DEF q

(* The chunk that moves: v_addr goes on, resid goes down.                  *)
LEMMA AdvanceFields ==
  ASSUME NEW p \in PktSet, NEW k \in Nat, k <= p.resid, p.v_addr + k <= N
  PROVE  LET q == [p EXCEPT !.v_addr = @ + k, !.resid = @ - k]
         IN /\ q \in PktSet /\ Alike(p, q) /\ q.flags = p.flags
            /\ q.resid = p.resid - k /\ q.v_addr = p.v_addr + k
            /\ q.retry = p.retry /\ q.wrt_count = p.wrt_count /\ q.cp_resid = p.cp_resid
            /\ Before(q) = Before(p) /\ Counted(q) = Counted(p) + k
<1>. DEFINE q == [p EXCEPT !.v_addr = @ + k, !.resid = @ - k]
<1>1. /\ p.v_addr + k \in 0 .. N /\ p.resid - k \in Nat
      /\ p.bytexfer \in Nat /\ p.resid \in Nat /\ N \in Nat
  BY PktFields, TransferAssumption
<1>2. q \in PktSet
  BY <1>1 DEF PktSet
<1>3. /\ Alike(p, q) /\ q.flags = p.flags
      /\ q.resid = p.resid - k /\ q.v_addr = p.v_addr + k
      /\ q.retry = p.retry /\ q.wrt_count = p.wrt_count /\ q.cp_resid = p.cp_resid
  BY DEF PktSet, Alike
<1>. HIDE DEF q
<1>4. Before(q) = Before(p) /\ q.bytexfer = p.bytexfer
  BY <1>3 DEF Alike, Before
<1>5. Counted(q) = Counted(p) + k
  BY <1>1, <1>3, <1>4 DEF Counted
<1>. QED
  BY <1>2, <1>3, <1>4, <1>5 DEF q

(* A step that completes the section.                                      *)
LEMMA Completes ==
  ASSUME TransferInv, Going, UNCHANGED <<dir, dma, disk, bp>>, at' = "complete",
         Types', MovedIn(dir, disk, moved)', ErrorBlock',
         Sure(at, dir, dma, disk, pkt, moved, faulted, Hit)',
         Alike(pkt, pkt'), pkt'.retry = pkt.retry, pkt'.cp_resid = pkt'.resid,
         Mis(dma, pkt', Hit') \/ pkt'.resid <= pkt'.bytexfer,
         ~dma => pkt'.v_addr = Before(pkt) + Counted(pkt'),
         pkt'.flags = {} => pkt'.resid = 0, Trouble(dma, pkt, dev, Hit)',
         dev'.state \notin {"busy", "error_drq"}, dev'.error = "bus" => dma
  PROVE  TransferInv'
<1>1. Lies(dma, disk, pkt)'
  <2>1. Lies(dma, disk, pkt')
    BY LiesAlike DEF Going
  <2>. QED
    BY <2>1
<1>2. Before(pkt') = Before(pkt)
  BY DEF Alike, Before
<1>3. Progress(at, dma, pkt, Hit)'
  <2>1. pkt.retry <= RetryCount
    BY DEF Going, Progress
  <2>. QED
    BY <2>1, <1>2 DEF Progress
<1>4. Flags(at, dir, dma, pkt)'
  BY DEF Flags
<1>5. Going'
  BY <1>1, <1>3, <1>4 DEF Going
<1>6. DriveInv'
  BY Settled DEF Working
<1>7. Correct' /\ ErrorResid' /\ Ended'
  BY StillGoing
<1>. QED
  BY <1>5, <1>6, <1>7 DEF TransferInv

(* ata_disk_start_pio_out waits for DRQ, and goes on to the interrupt.     *)
LEMMA StepPollStart ==
  ASSUME TransferInv, PollStart
  PROVE  TransferInv'
<1>1. /\ at = "poll_start" /\ at' = "intr"
      /\ slow' = slow \/ (slow < MaxSlow /\ slow' = slow + 1)
      /\ pkt' = (IF dev.state = "drq" THEN pkt ELSE [pkt EXCEPT !.flags = @ \cup {"ERROR"}])
      /\ UNCHANGED <<dir, dma, disk, alts, bp, dev, moved, errors, faulted>>
  <2>1. slow' = slow \/ (slow < MaxSlow /\ slow' = slow + 1)
    BY DEF PollStart
  <2>. QED
    BY <2>1 DEF PollStart
<1>2. Going
  BY <1>1 DEF TransferInv
<1>3. /\ N \in Nat /\ Types /\ pkt \in PktSet /\ Lies(dma, disk, pkt)
      /\ MovedIn(dir, disk, moved)
  BY <1>2, GoingFacts
<1>4. Progress(at, dma, pkt, Hit) /\ Flags(at, dir, dma, pkt)
      /\ Sure(at, dir, dma, disk, pkt, moved, faulted, Hit)
      /\ bp = [resid |-> 0, error |-> "none"]
  BY <1>2 DEF Going
<1>5. pkt.flags = {} /\ dir = "write" /\ ~dma
  BY <1>1, <1>4 DEF Flags
<1>6. /\ pkt' \in PktSet /\ Alike(pkt, pkt') /\ pkt'.flags \subseteq {"ERROR"}
      /\ pkt'.resid = pkt.resid /\ pkt'.v_addr = pkt.v_addr
      /\ pkt'.wrt_count = pkt.wrt_count
      /\ pkt'.retry = pkt.retry /\ pkt'.cp_resid = pkt.cp_resid
  <2>1. CASE dev.state = "drq"
    BY <2>1, <1>1, <1>3, <1>5 DEF Alike
  <2>2. CASE dev.state # "drq"
    <3>1. pkt' = [pkt EXCEPT !.flags = {"ERROR"}]
      BY <2>2, <1>1, <1>5
    <3>2. {"ERROR"} \in SUBSET {"ERROR", "TIMEOUT", "BUS_RESET"}
      OBVIOUS
    <3>3. pkt' \in PktSet
      BY <3>1, <3>2, <1>3 DEF PktSet
    <3>. QED
      BY <3>1, <3>3, <1>3 DEF PktSet, Alike
  <2>. QED
    BY <2>1, <2>2
<1>7. /\ Before(pkt') = Before(pkt) /\ Counted(pkt') = Counted(pkt)
      /\ pkt'.bytexfer = pkt.bytexfer /\ pkt'.startsec = pkt.startsec
  BY <1>6 DEF Alike, Before, Counted
<1>8. Types'
  <2>1. at' \in Places
    BY <1>1 DEF Places
  <2>2. slow' \in 0 .. MaxSlow
    BY <1>1, <1>3, TransferAssumption DEF Types
  <2>. QED
    BY <2>1, <2>2, <1>1, <1>3, <1>6 DEF Types
<1>9. Lies(dma, disk, pkt)'
  <2>1. Lies(dma, disk, pkt')
    BY <1>3, <1>6, LiesAlike
  <2>. QED
    BY <2>1, <1>1
<1>h. ~Mis(dma, pkt, Hit) /\ ~Mis(dma, pkt', Hit') /\ Trouble(dma, pkt, dev, Hit)'
  BY <1>1, <1>5 DEF Mis, Trouble
<1>10. Progress(at, dma, pkt, Hit)'
  BY <1>1, <1>4, <1>5, <1>6, <1>7, <1>h DEF Progress
<1>11. Flags(at, dir, dma, pkt)'
  BY <1>1, <1>5, <1>6 DEF Flags
<1>12. Sure(at, dir, dma, disk, pkt, moved, faulted, Hit)'
  BY <1>1, <1>4, <1>5, <1>6, <1>7, <1>h DEF Sure, Doubt, Over
<1>13. Going'
  BY <1>1, <1>4, <1>9, <1>10, <1>11, <1>12 DEF Going
<1>14. /\ Writing(at, dir, dma, pkt, dev) /\ Written(at, dir, dma, disk, pkt, dev, moved)
       /\ Drives(at, dir, dma, dev)
  BY DEF TransferInv, DriveInv
<1>15. Chunk(at', pkt') = Chunk(at, pkt)
  BY <1>1, <1>6 DEF Chunk
<1>16. Writing(at, dir, dma, pkt, dev)'
  BY <1>1, <1>5, <1>6, <1>7, <1>14, <1>15 DEF Writing, Polling
<1>17. Written(at, dir, dma, disk, pkt, dev, moved)'
  BY <1>1, <1>5, <1>7, <1>14, <1>15 DEF Written, Polling
<1>18. Reading(at, dir, dma, pkt, dev)' /\ DmaRuns(at, dir, dma, disk, pkt, dev, moved, faulted)'
  BY <1>1 DEF Reading, DmaRuns
<1>19. Drives(at, dir, dma, dev)'
  BY <1>1, <1>14 DEF Drives, Working
<1>20. MovedIn(dir, disk, moved)' /\ at' # "finished" /\ at' # "complete"
  BY <1>1, <1>3
<1>. QED
  BY <1>8, <1>13, <1>16, <1>17, <1>18, <1>19, <1>20, <1>h, StillGoing
     DEF TransferInv, DriveInv, ErrorBlock

(* DRQ does not come for the next chunk of a write.                        *)
LEMMA StepPollNextBusy ==
  ASSUME TransferInv, PollNextBusy
  PROVE  TransferInv'
<1>1. /\ at = "poll_next" /\ at' = "wait" /\ dev.state = "busy"
      /\ slow < MaxSlow /\ slow' = slow + 1
      /\ pkt' = Fail(pkt, "BUSY")
      /\ UNCHANGED <<dir, dma, disk, alts, bp, dev, moved, errors, faulted>>
  BY DEF PollNextBusy
<1>2. Going
  BY <1>1 DEF TransferInv
<1>3. /\ N \in Nat /\ Types /\ pkt \in PktSet /\ Lies(dma, disk, pkt)
      /\ MovedIn(dir, disk, moved)
  BY <1>2, GoingFacts
<1>4. Progress(at, dma, pkt, Hit) /\ Flags(at, dir, dma, pkt)
      /\ Sure(at, dir, dma, disk, pkt, moved, faulted, Hit)
      /\ bp = [resid |-> 0, error |-> "none"]
  BY <1>2 DEF Going
<1>5. pkt.flags \subseteq {"ERROR"} /\ dir = "write" /\ ~dma
  BY <1>1, <1>4 DEF Flags
<1>6. /\ pkt' \in PktSet /\ Alike(pkt, pkt') /\ pkt'.flags = pkt.flags \cup {"ERROR"}
      /\ pkt'.resid = pkt.resid /\ pkt'.v_addr = pkt.v_addr
      /\ pkt'.cp_resid = pkt.cp_resid
      /\ pkt'.wrt_count = pkt.wrt_count /\ pkt'.retry = pkt.retry
      /\ Before(pkt') = Before(pkt) /\ Counted(pkt') = Counted(pkt)
  BY <1>1, <1>3, FailFields
<1>7. pkt'.bytexfer = pkt.bytexfer /\ pkt'.startsec = pkt.startsec
  BY <1>6 DEF Alike
<1>8. Types'
  <2>1. at' \in Places
    BY <1>1 DEF Places
  <2>2. slow' \in 0 .. MaxSlow
    BY <1>1, <1>3, TransferAssumption DEF Types
  <2>. QED
    BY <2>1, <2>2, <1>1, <1>3, <1>6 DEF Types
<1>9. Lies(dma, disk, pkt)'
  <2>1. Lies(dma, disk, pkt')
    BY <1>3, <1>6, LiesAlike
  <2>. QED
    BY <2>1, <1>1
<1>h. ~Mis(dma, pkt, Hit) /\ ~Mis(dma, pkt', Hit') /\ Trouble(dma, pkt, dev, Hit)'
  BY <1>1, <1>5 DEF Mis, Trouble
<1>10. Progress(at, dma, pkt, Hit)'
  BY <1>1, <1>4, <1>5, <1>6, <1>7, <1>h DEF Progress
<1>11. Flags(at, dir, dma, pkt)'
  BY <1>1, <1>5, <1>6 DEF Flags
<1>12. Sure(at, dir, dma, disk, pkt, moved, faulted, Hit)'
  BY <1>1, <1>4, <1>5, <1>6, <1>7, <1>h DEF Sure, Doubt, Over
<1>13. Going'
  BY <1>1, <1>4, <1>9, <1>10, <1>11, <1>12 DEF Going
<1>14. /\ Writing(at, dir, dma, pkt, dev) /\ Written(at, dir, dma, disk, pkt, dev, moved)
       /\ Drives(at, dir, dma, dev)
  BY DEF TransferInv, DriveInv
<1>15. Chunk(at', pkt') = Chunk(at, pkt)
  BY <1>1, <1>5, <1>6, <1>14 DEF Chunk, Writing, Polling
<1>16. Writing(at, dir, dma, pkt, dev)'
  BY <1>1, <1>5, <1>6, <1>7, <1>14, <1>15 DEF Writing, Polling
<1>17. Written(at, dir, dma, disk, pkt, dev, moved)'
  <2>1. Held(dir, disk, moved, Before(pkt) + Counted(pkt), Chunk(at, pkt))
    BY <1>1, <1>5, <1>14 DEF Written, Polling
  <2>2. Held(dir', disk', moved', Before(pkt') + Counted(pkt'), Chunk(at', pkt'))
    BY <2>1, <1>1, <1>6, <1>15
  <2>. QED
    BY <2>2 DEF Written
<1>18. Reading(at, dir, dma, pkt, dev)' /\ DmaRuns(at, dir, dma, disk, pkt, dev, moved, faulted)'
  BY <1>1, <1>5 DEF Reading, DmaRuns
<1>19. Drives(at, dir, dma, dev)'
  BY <1>1, <1>14 DEF Drives, Working
<1>20. MovedIn(dir, disk, moved)' /\ at' # "finished" /\ at' # "complete"
  BY <1>1, <1>3
<1>. QED
  BY <1>8, <1>13, <1>16, <1>17, <1>18, <1>19, <1>20, <1>h, StillGoing
     DEF TransferInv, DriveInv, ErrorBlock

(* A timeout ends the section, early or by a bus reset.                    *)
LEMMA StepTimeout ==
  ASSUME TransferInv, Timeout
  PROVE  TransferInv'
<1>. DEFINE f == IF at = "queued" THEN "TIMEOUT" ELSE "BUS_RESET"
            p == [pkt EXCEPT !.flags = pkt.flags \cup {f}]
<1>1. /\ at \in {"queued", "wait"} /\ at' = "complete" /\ dev' = IdleDev
      /\ pkt' = [p EXCEPT !.cp_resid = p.resid]
      /\ UNCHANGED <<dir, dma, disk, alts, bp, moved, errors, faulted, slow>>
  BY DEF Timeout, Finish
<1>2. Going
  BY <1>1 DEF TransferInv
<1>3. /\ N \in Nat /\ Types /\ pkt \in PktSet /\ MovedIn(dir, disk, moved)
      /\ Before(pkt) \in Nat /\ Counted(pkt) \in Int /\ Factor \in Nat
      /\ Mis(dma, pkt, Hit) \/ pkt.resid <= pkt.bytexfer
  <2>1. Mis(dma, pkt, Hit) \/ pkt.resid <= pkt.bytexfer
    BY <1>2 DEF Going, Progress
  <2>. QED
    BY <2>1, <1>2, GoingFacts
<1>4. /\ p \in PktSet /\ Alike(pkt, p) /\ p.flags = pkt.flags \cup {f}
      /\ p.resid = pkt.resid /\ p.v_addr = pkt.v_addr /\ p.retry = pkt.retry
  <2>1. pkt.flags \cup {f} \in SUBSET {"ERROR", "TIMEOUT", "BUS_RESET"}
    BY <1>3, PktFields
  <2>. HIDE DEF f
  <2>2. p \in PktSet
    BY <2>1, <1>3 DEF PktSet
  <2>. QED
    BY <2>2, <1>3 DEF PktSet, Alike
<1>5. f \in {"TIMEOUT", "BUS_RESET"}
  OBVIOUS
<1>. HIDE DEF p, f
<1>6. /\ pkt' \in PktSet /\ Alike(pkt, pkt') /\ pkt'.flags = pkt.flags \cup {f}
      /\ pkt'.resid = pkt.resid /\ pkt'.v_addr = pkt.v_addr /\ pkt'.retry = pkt.retry
      /\ pkt'.cp_resid = pkt'.resid
  <2>1. /\ pkt' \in PktSet /\ Alike(p, pkt') /\ pkt'.flags = p.flags
        /\ pkt'.resid = p.resid /\ pkt'.v_addr = p.v_addr /\ pkt'.retry = p.retry
        /\ pkt'.cp_resid = p.resid
    BY <1>1, <1>4, FinishFields
  <2>. QED
    BY <2>1, <1>4 DEF Alike
<1>7. /\ Before(pkt') = Before(pkt) /\ Counted(pkt') = Counted(pkt)
      /\ pkt'.bytexfer = pkt.bytexfer
  BY <1>6 DEF Alike, Before, Counted
<1>8. dev' \in DevSet /\ dev'.state = "idle" /\ dev'.error = "none"
  BY <1>1, <1>3 DEF IdleDev, DevSet
<1>9. Types'
  <2>1. at' \in Places
    BY <1>1 DEF Places
  <2>. QED
    BY <2>1, <1>1, <1>3, <1>6, <1>8 DEF Types
<1>10. pkt'.flags # {} /\ ("ERROR" \in pkt'.flags <=> "ERROR" \in pkt.flags)
  BY <1>5, <1>6
<1>h. Hit' = Hit /\ (Mis(dma, pkt', Hit) <=> Mis(dma, pkt, Hit))
  BY <1>1, <1>6 DEF Hit, Mis, Alike
<1>11. Sure(at, dir, dma, disk, pkt, moved, faulted, Hit)'
  <2>1. Sure(at, dir, dma, disk, pkt, moved, faulted, Hit) /\ Flags(at, dir, dma, pkt)
    BY <1>2 DEF Going
  <2>. DEFINE D == Doubt(at', dir, dma, pkt')  B == Before(pkt)  C == Counted(pkt)
  <2>2. Doubt(at, dir, dma, pkt) = 0 /\ D \in Nat
    BY <2>1, <1>1, <1>3 DEF Doubt, Over, Flags
  <2>3. ASSUME ~(dma /\ faulted), ~Mis(dma, pkt, Hit)
        PROVE  Held(dir, disk, moved, B, C - D)
    <3>1. Held(dir, disk, moved, B, C - 0)
      BY <2>1, <2>2, <2>3 DEF Sure
    <3>2. B \in Int /\ C \in Int
      BY <1>3
    <3>. HIDE DEF D, B, C
    <3>3. C - 0 \in Int /\ C - D \in Int /\ B + (C - D) <= B + (C - 0) /\ B <= B
      BY <3>2, <2>2
    <3>. QED
      BY <3>1, <3>2, <3>3, HeldSub
  <2>4. Held(dir, disk, moved, 0, B)
    BY <2>1 DEF Sure
  <2>. HIDE DEF D
  <2>5. ~(dma' /\ faulted') /\ ~Mis(dma', pkt', Hit') =>
          Held(dir', disk', moved', Before(pkt'), Counted(pkt') - D)
    BY <2>3, <1>1, <1>7, <1>h
  <2>6. D = Doubt(at', dir', dma', pkt')
    BY <1>1 DEF D
  <2>. QED
    BY <2>4, <2>5, <2>6, <1>1, <1>7, <1>10 DEF Sure
<1>12. ErrorBlock' /\ Trouble(dma, pkt, dev, Hit)'
  <2>1. Trouble(dma, pkt, dev, Hit)
    BY DEF TransferInv
  <2>. QED
    BY <2>1, <1>1, <1>8, <1>10, <1>h DEF ErrorBlock, Trouble
<1>13. ~dma => pkt'.v_addr = Before(pkt) + Counted(pkt')
  BY <1>2, <1>6, <1>7 DEF Going, Progress
<1>14. MovedIn(dir, disk, moved)' /\ (Mis(dma, pkt', Hit') \/ pkt'.resid <= pkt'.bytexfer)
  BY <1>1, <1>3, <1>6, <1>7, <1>h
<1>. QED
  BY <1>1, <1>2, <1>6, <1>8, <1>9, <1>10, <1>11, <1>12, <1>13, <1>14, Completes

(* ata_disk_get_resid: what the drive did not reach, when the count        *)
(* register held the length of the section.                                *)
LEMMA GetResidIs ==
  ASSUME NEW p \in PktSet, NEW stop \in Nat,
         stop = LastBlockXferred(LoadRegs(dev.lba, disk.id), disk.id)
  PROVE  /\ GetResid(p) \in Nat
         /\ p.count # 0 /\ stop \in p.startsec .. p.startsec + p.count - 1 =>
              GetResid(p) = p.startsec + p.count - stop
              /\ GetResid(p) \in 1 .. p.count
<1>. DEFINE x == p.startsec + p.count - stop
<1>1. /\ UIntSectors \in Nat \ {0} /\ MaxTransfer \in Nat /\ MaxTransfer < UIntSectors
      /\ p.count \in 0 .. MaxTransfer /\ p.startsec \in Nat
  BY TransferAssumption, RegAssumption, PktFields
<1>2. GetResid(p) = x % UIntSectors
  BY DEF GetResid
<1>3. x \in Int
  BY <1>1
<1>4. stop \in p.startsec .. p.startsec + p.count - 1 =>
        x \in 1 .. p.count /\ x \in 0 .. UIntSectors - 1
  BY <1>1
<1>. HIDE DEF x
<1>5. x % UIntSectors \in Nat
  BY <1>1, <1>3
<1>6. x \in 0 .. UIntSectors - 1 => x % UIntSectors = x
  BY <1>1, SmallMod
<1>. QED
  BY <1>2, <1>4, <1>5, <1>6 DEF x

(* ata_disk_intr_dma: the residual is what the drive did not reach, by     *)
(* RoundTrip.                                                              *)
LEMMA StepIntrDma ==
  ASSUME TransferInv, IntrDma
  PROVE  TransferInv'
<1>. DEFINE B == Before(pkt)  s == pkt.startsec  n == pkt.bytexfer
            p == CASE dev.error = "none" -> pkt
                   [] dev.error = "bus"  -> Fail(pkt, pkt.error)
                   [] OTHER              -> Fail(pkt, dev.error)
            q == [p EXCEPT !.resid = IF "ERROR" \in p.flags THEN GetResid(p) ELSE 0]
            stop == LastBlockXferred(LoadRegs(dev.lba, disk.id), disk.id)
            bad == "ERROR" \in pkt.flags \/ dev.error # "none"
            r == IF bad THEN GetResid(pkt) ELSE 0
            short(e) == (e - Reg) % UIntSectors
            cut == short(s + n - dev.lba)
<1>1. /\ at = "wait" /\ dev.irq /\ dma /\ at' = "complete"
      /\ dev' = [dev EXCEPT !.irq = FALSE, !.state = "idle"]
      /\ pkt' = [q EXCEPT !.cp_resid = q.resid]
      /\ UNCHANGED <<dir, dma, disk, alts, bp, moved, errors, faulted, slow>>
  BY DEF IntrDma, Finish
<1>2. Going
  BY <1>1 DEF TransferInv
<1>3. /\ N \in Nat /\ Types /\ pkt \in PktSet /\ dev \in DevSet /\ disk \in Disks
      /\ MovedIn(dir, disk, moved) /\ B \in Nat /\ n \in 1 .. N /\ n <= MaxTransfer
      /\ s \in 0 .. Capacity(disk.id) - 1 /\ s + n - 1 \in 0 .. Capacity(disk.id) - 1
      /\ Lies(dma, disk, pkt)
  BY <1>2, GoingFacts
<1>4. DmaRuns(at, dir, dma, disk, pkt, dev, moved, faulted)
      /\ Sure(at, dir, dma, disk, pkt, moved, faulted, Hit) /\ Flags(at, dir, dma, pkt)
      /\ Trouble(dma, pkt, dev, Hit)
  BY <1>2 DEF TransferInv, DriveInv, Going
<1>5. /\ dev.error = "none" => Held(dir, disk, moved, B, n)
      /\ dev.error \in {"UNC", "ABRT"} =>
           dev.lba \in s .. s + n - 1 /\ Held(dir, disk, moved, B, dev.lba - s)
      /\ dev.error \in {"none", "bus"} => dev.lba = s + n - 1
      /\ dev.error = "bus" => faulted
      /\ pkt.flags \subseteq {"ERROR"}
      /\ bad => Hit
  BY <1>1, <1>4 DEF DmaRuns, Flags, Trouble
<1>6. dev.error \in {"none", "UNC", "ABRT", "bus"}
      /\ pkt.error \in {"none", "UNC", "ABRT", "BUSY"} /\ s \in Nat
  BY <1>3, DevFields, PktFields
<1>7. dev.lba \in s .. s + n - 1 /\ stop = dev.lba /\ stop \in Nat
  <2>1. dev.lba \in s .. s + n - 1
    <3>1. s + n - 1 \in s .. s + n - 1
      BY <1>3, <1>6
    <3>. QED
      BY <3>1, <1>5, <1>6
  <2>2. Sound(disk.id, disk.bios) /\ Capacity(disk.id) \in Nat
    BY <1>3, DiskFacts
  <2>3. dev.lba \in 0 .. Capacity(disk.id) - 1
    BY <2>1, <2>2, <1>3
  <2>4. stop = dev.lba
    BY <2>2, <2>3, RoundTrip
  <2>. QED
    BY <2>1, <2>3, <2>4
<1>8. /\ GetResid(pkt) \in Nat
      /\ pkt.count # 0 => GetResid(pkt) = s + n - dev.lba /\ GetResid(pkt) \in 1 .. n
      /\ pkt.count = 0 => GetResid(pkt) = cut
  <2>1. pkt.count = n \/ (pkt.count = 0 /\ n = Reg)
    <3>1. n \in 1 .. MaxTransfer
      BY <1>3, TransferAssumption, RegAssumption
    <3>2. pkt.count = IF Ext48(disk.id) THEN n ELSE n % Reg
      BY <1>3 DEF Lies
    <3>. HIDE DEF n
    <3>. QED
      BY <3>1, <3>2, CountOf
  <2>. HIDE DEF stop
  <2>2. /\ GetResid(pkt) \in Nat
        /\ pkt.count # 0 /\ stop \in s .. s + pkt.count - 1 =>
             GetResid(pkt) = s + pkt.count - stop /\ GetResid(pkt) \in 1 .. pkt.count
    BY <1>3, <1>7, GetResidIs DEF stop
  <2>3. GetResid(pkt) = (s + pkt.count - stop) % UIntSectors
    BY DEF GetResid, stop
  <2>4. ASSUME pkt.count = 0
        PROVE  GetResid(pkt) = cut
    <3>1. n = Reg /\ Reg \in Int /\ s \in Int /\ dev.lba \in Int /\ stop = dev.lba
      BY <2>1, <2>4, <1>3, <1>6, <1>7, RegAssumption
    <3>. DEFINE a == s + pkt.count - stop
                b == (s + n - dev.lba) - Reg
    <3>2. a = b
      BY <2>4, <3>1
    <3>3. GetResid(pkt) = a % UIntSectors
      BY <2>3
    <3>4. cut = b % UIntSectors
      OBVIOUS
    <3>. HIDE DEF a, b, cut
    <3>. QED
      BY <3>2, <3>3, <3>4
  <2>. QED
    BY <2>1, <2>2, <2>4, <1>3, <1>7
<1>. HIDE DEF stop, cut
<1>9. /\ r \in Nat
      /\ bad => Hit /\ (pkt.count # 0 => r = s + n - dev.lba /\ r \in 1 .. n)
      /\ bad /\ pkt.count = 0 => r = cut
      /\ ~bad => r = 0
  BY <1>5, <1>8
<1>10. /\ p \in PktSet /\ Alike(pkt, p) /\ p.retry = pkt.retry
       /\ p.flags = IF bad THEN {"ERROR"} ELSE {}
  <2>1. CASE dev.error = "none"
    <3>1. p = pkt
      BY <2>1
    <3>. HIDE DEF p
    <3>. QED
      BY <3>1, <2>1, <1>3, <1>5 DEF Alike
  <2>2. CASE dev.error # "none"
    <3>1. PICK e \in {"none", "UNC", "ABRT", "BUSY"} : p = Fail(pkt, e)
      BY <2>2, <1>6
    <3>. HIDE DEF p
    <3>2. p \in PktSet /\ Alike(pkt, p) /\ p.flags = pkt.flags \cup {"ERROR"}
          /\ p.retry = pkt.retry
      BY <3>1, <1>3, FailFields
    <3>. QED
      BY <3>2, <2>2, <1>5
  <2>. QED
    BY <2>1, <2>2
<1>. HIDE DEF p
<1>11. GetResid(p) = GetResid(pkt)
  BY <1>10 DEF GetResid, Alike
<1>12. q = [p EXCEPT !.resid = r]
  BY <1>10, <1>11
<1>. HIDE DEF q, r
<1>13. /\ q \in PktSet /\ Alike(pkt, q) /\ q.resid = r /\ q.retry = pkt.retry
       /\ q.flags = IF bad THEN {"ERROR"} ELSE {}
  <2>1. q \in PktSet
    BY <1>9, <1>10, <1>12 DEF PktSet
  <2>2. Alike(p, q) /\ q.resid = r /\ q.retry = p.retry /\ q.flags = p.flags
    BY <1>10, <1>12 DEF PktSet, Alike
  <2>. QED
    BY <2>1, <2>2, <1>10 DEF Alike
<1>14. /\ pkt' \in PktSet /\ Alike(pkt, pkt') /\ pkt'.flags = (IF bad THEN {"ERROR"} ELSE {})
       /\ pkt'.resid = r /\ pkt'.retry = pkt.retry /\ pkt'.cp_resid = pkt'.resid
  <2>1. /\ pkt' \in PktSet /\ Alike(q, pkt') /\ pkt'.flags = q.flags
        /\ pkt'.resid = q.resid /\ pkt'.retry = q.retry /\ pkt'.cp_resid = q.resid
    BY <1>1, <1>13, FinishFields
  <2>. QED
    BY <2>1, <1>13 DEF Alike
<1>15. /\ dev' \in DevSet /\ dev'.state = "idle" /\ dev'.error = dev.error
       /\ dev'.lba = dev.lba
  BY <1>1, <1>3 DEF DevSet
<1>16. Types'
  <2>1. at' \in Places
    BY <1>1 DEF Places
  <2>. QED
    BY <2>1, <1>1, <1>3, <1>14, <1>15 DEF Types
<1>17. /\ Before(pkt') = B /\ pkt'.bytexfer = n /\ pkt'.startsec = s
       /\ pkt'.count = pkt.count /\ Counted(pkt') = n - r
  BY <1>14 DEF Alike, Before, Counted
<1>h. Hit' = Hit /\ (Mis(dma', pkt', Hit') <=> pkt.count = 0 /\ Hit)
  BY <1>1, <1>17 DEF Hit, Mis
<1>. HIDE DEF bad
<1>18. Sure(at, dir, dma, disk, pkt, moved, faulted, Hit)'
  <2>1. Held(dir, disk, moved, 0, B)
    BY <1>4 DEF Sure
  <2>2. Doubt(at', dir', dma', pkt') = 0
    BY <1>1 DEF Doubt, Over
  <2>a. B \in Int /\ n \in Int /\ n >= 1 /\ r \in Int /\ dev.lba \in Int /\ s \in Int
    BY <1>3, <1>6, <1>7, <1>9
  <2>3. ASSUME ~faulted, ~(pkt.count = 0 /\ Hit) PROVE Held(dir, disk, moved, B, n - r - 0)
    <3>. HIDE DEF B, n, s
    <3>1. CASE ~bad
      <4>1. n - r - 0 = n
        BY <3>1, <2>a, <1>9
      <4>. QED
        BY <4>1, <3>1, <1>5 DEF bad
    <3>2. CASE bad /\ dev.error # "none"
      <4>1. n - r - 0 = dev.lba - s
        BY <3>2, <2>3, <2>a, <1>9
      <4>. QED
        BY <4>1, <2>3, <3>2, <1>5, <1>6
    <3>3. CASE bad /\ dev.error = "none"
      <4>1. r = 1
        BY <3>3, <2>3, <2>a, <1>5, <1>9
      <4>2. n - r - 0 \in Int /\ B + (n - r - 0) <= B + n /\ B <= B
        BY <4>1, <2>a
      <4>3. Held(dir, disk, moved, B, n)
        BY <3>3, <1>5
      <4>. QED
        BY <4>2, <4>3, <2>a, HeldSub
    <3>. QED
      BY <3>1, <3>2, <3>3
  <2>4. pkt'.flags = {} => Held(dir, disk, moved, B, n)
    BY <1>5, <1>14 DEF bad
  <2>. QED
    BY <2>1, <2>2, <2>3, <2>4, <1>1, <1>17, <1>h DEF Sure
<1>19. ErrorBlock'
  <2>. DEFINE e == s + n - dev.lba
              f == pkt'.startsec + pkt'.bytexfer - dev'.lba
  <2>1. dev.error = "UNC" => IF pkt.count # 0 THEN r = e ELSE r = cut
    BY <1>9 DEF bad
  <2>2. f = e /\ pkt'.count = pkt.count /\ pkt'.cp_resid = r /\ dev'.error = dev.error
    BY <1>14, <1>15, <1>17
  <2>3. short(f) = cut
    BY <2>2 DEF cut
  <2>4. ASSUME dev'.error = "UNC"
        PROVE  pkt'.cp_resid = IF pkt'.count # 0 THEN f ELSE short(f)
    <3>. HIDE DEF e, f, short
    <3>. QED
      BY <2>1, <2>2, <2>3, <2>4
  <2>. QED
    BY <2>4 DEF ErrorBlock
<1>20. Trouble(dma, pkt, dev, Hit)'
  BY <1>9, <1>14, <1>15, <1>h DEF Trouble, bad
<1>21. pkt'.flags = {} => pkt'.resid = 0
  BY <1>9, <1>14
<1>22. Mis(dma, pkt', Hit') \/ pkt'.resid <= pkt'.bytexfer
  <2>1. r <= n \/ (pkt.count = 0 /\ Hit)
    BY <1>3, <1>9
  <2>. QED
    BY <2>1, <1>1, <1>14, <1>17, <1>h
<1>23. MovedIn(dir, disk, moved)'
  BY <1>1, <1>3
<1>. QED
  BY <1>1, <1>2, <1>14, <1>15, <1>16, <1>18, <1>19, <1>20, <1>21, <1>22, <1>23, Completes

(* Its wait times out: the request stays where it is, with an error.       *)
LEMMA StepIntrDmaStuck ==
  ASSUME TransferInv, IntrDmaStuck
  PROVE  TransferInv'
<1>1. /\ at = "wait" /\ dma /\ slow < MaxSlow /\ slow' = slow + 1
      /\ UNCHANGED <<at, dir, dma, disk, alts, bp, dev, moved, errors, faulted>>
  BY DEF IntrDmaStuck
<1>2. PICK e \in {"BUSY", "ABRT"} : pkt' = Fail(pkt, e)
  BY DEF IntrDmaStuck
<1>3. Going
  BY <1>1 DEF TransferInv
<1>4. /\ N \in Nat /\ Types /\ pkt \in PktSet /\ Lies(dma, disk, pkt)
      /\ MovedIn(dir, disk, moved)
  BY <1>3, GoingFacts
<1>5. Progress(at, dma, pkt, Hit) /\ Flags(at, dir, dma, pkt)
      /\ Sure(at, dir, dma, disk, pkt, moved, faulted, Hit)
      /\ bp = [resid |-> 0, error |-> "none"]
  BY <1>3 DEF Going
<1>6. /\ pkt' \in PktSet /\ Alike(pkt, pkt') /\ pkt'.flags = pkt.flags \cup {"ERROR"}
      /\ pkt'.resid = pkt.resid /\ pkt'.v_addr = pkt.v_addr /\ pkt'.cp_resid = pkt.cp_resid
      /\ pkt'.wrt_count = pkt.wrt_count /\ pkt'.retry = pkt.retry
      /\ Before(pkt') = Before(pkt) /\ Counted(pkt') = Counted(pkt)
  BY <1>2, <1>4, FailFields
<1>7. /\ pkt'.bytexfer = pkt.bytexfer /\ pkt'.startsec = pkt.startsec
      /\ pkt'.count = pkt.count
  BY <1>6 DEF Alike
<1>8. Types' /\ Hit'
  <2>1. slow \in Nat /\ errors \in Nat
    BY <1>4, TransferAssumption DEF Types
  <2>2. slow' \in 0 .. MaxSlow
    BY <2>1, <1>1, TransferAssumption
  <2>3. Types'
    BY <2>2, <1>1, <1>4, <1>6 DEF Types
  <2>4. Hit'
    BY <2>1, <1>1 DEF Hit
  <2>. QED
    BY <2>3, <2>4
<1>9. Lies(dma, disk, pkt)'
  <2>1. Lies(dma, disk, pkt')
    BY <1>4, <1>6, LiesAlike
  <2>. QED
    BY <2>1, <1>1
<1>h. Mis(dma, pkt, Hit) => Mis(dma, pkt', Hit')
  BY <1>7, <1>8 DEF Mis
<1>10. Progress(at, dma, pkt, Hit)'
  BY <1>1, <1>5, <1>6, <1>7, <1>h DEF Progress
<1>11. Flags(at, dir, dma, pkt)'
  BY <1>1, <1>5, <1>6 DEF Flags
<1>12. Sure(at, dir, dma, disk, pkt, moved, faulted, Hit)'
  BY <1>1, <1>5, <1>6, <1>7, <1>h DEF Sure, Doubt
<1>13. Going'
  BY <1>1, <1>5, <1>9, <1>10, <1>11, <1>12 DEF Going
<1>14. /\ DmaRuns(at, dir, dma, disk, pkt, dev, moved, faulted)
       /\ Drives(at, dir, dma, dev)
  BY DEF TransferInv, DriveInv
<1>15. DmaRuns(at, dir, dma, disk, pkt, dev, moved, faulted)'
  BY <1>1, <1>6, <1>7, <1>14 DEF DmaRuns
<1>16. /\ Reading(at, dir, dma, pkt, dev)' /\ Writing(at, dir, dma, pkt, dev)'
       /\ Written(at, dir, dma, disk, pkt, dev, moved)'
  BY <1>1 DEF Reading, Writing, Written
<1>17. Drives(at, dir, dma, dev)' /\ Trouble(dma, pkt, dev, Hit)'
  BY <1>1, <1>8, <1>14 DEF Drives, Trouble
<1>18. MovedIn(dir, disk, moved)' /\ at' # "finished" /\ at' # "complete"
  BY <1>1, <1>4
<1>. QED
  BY <1>8, <1>13, <1>15, <1>16, <1>17, <1>18, StillGoing
     DEF TransferInv, DriveInv, ErrorBlock

(* ata_disk_intr_pio_in: a chunk is moved, with or without an error.       *)
LEMMA StepIntrPioIn ==
  ASSUME TransferInv, IntrPioIn
  PROVE  TransferInv'
<1>. DEFINE B == Before(pkt)  C == Counted(pkt)  s == pkt.startsec  n == pkt.bytexfer
            bad == dev.state # "drq"
            err == bad \/ "ERROR" \in pkt.flags
            p == IF bad THEN Fail(pkt, dev.error) ELSE pkt
            k == IF dev.state = "error" THEN 0 ELSE Least(p.resid, p.bytes_per_block)
            q == [p EXCEPT !.v_addr = @ + k, !.resid = @ - k]
            rest == dev.block - k
<1>1. /\ at = "wait" /\ dev.irq /\ dir = "read" /\ ~dma
      /\ UNCHANGED <<dir, dma, disk, alts, bp, errors, faulted>>
  BY DEF IntrPioIn
<1>2. /\ moved' = (IF k = 0 THEN moved ELSE Copy(p.v_addr, dev.lba, k, ~bad))
      /\ dev' = (IF bad \/ dev.left = k \/ "ERROR" \in q.flags
                 THEN [dev EXCEPT !.state = "idle", !.irq = FALSE]
                 ELSE [dev EXCEPT !.irq = FALSE, !.lba = @ + k, !.left = @ - k,
                                  !.block = rest,
                                  !.state = IF rest > 0 THEN "drq" ELSE "busy"])
      /\ \/ /\ slow' = slow
            /\ IF q.resid = 0 \/ "ERROR" \in q.flags
               THEN pkt' = [q EXCEPT !.cp_resid = q.resid] /\ at' = "complete"
               ELSE pkt' = q /\ at' = "wait"
         \/ /\ q.resid = 0 /\ slow < MaxSlow /\ slow' = slow + 1 /\ at' = "complete"
            /\ \E e \in {"BUSY", "ABRT"} :
                 pkt' = [Fail(q, e) EXCEPT !.cp_resid = Fail(q, e).resid]
  BY DEF IntrPioIn, Finish
<1>3. Going
  BY <1>1 DEF TransferInv
<1>4. /\ N \in Nat /\ Factor \in Nat \ {0} /\ Types /\ pkt \in PktSet /\ dev \in DevSet
      /\ disk \in Disks /\ MovedIn(dir, disk, moved) /\ B \in Nat /\ n \in 1 .. N
      /\ B + n <= N /\ s \in Nat /\ pkt.resid \in 0 .. n /\ C = n - pkt.resid /\ C \in 0 .. n
      /\ Lies(dma, disk, pkt)
  BY <1>1, <1>3, GoingFacts
<1>5. /\ Reading(at, dir, dma, pkt, dev) /\ Drives(at, dir, dma, dev)
      /\ Sure(at, dir, dma, disk, pkt, moved, faulted, Hit) /\ Flags(at, dir, dma, pkt)
      /\ Progress(at, dma, pkt, Hit) /\ bp = [resid |-> 0, error |-> "none"]
  BY <1>3 DEF TransferInv, DriveInv, Going
<1>6. /\ pkt.resid > 0 /\ dev.left = pkt.resid /\ dev.lba = s + C
      /\ dev.state \in {"drq", "error", "error_drq"}
      /\ dev.state = "drq" => dev.block = Least(dev.left, Factor)
  <2>1. dev.state \in {"idle", "busy", "drq", "error", "error_drq"}
    BY <1>4, DevFields
  <2>. QED
    BY <2>1, <1>1, <1>5 DEF Reading
<1>7. /\ pkt.flags \subseteq {"ERROR"} /\ pkt.v_addr = B + C /\ pkt.bytes_per_block \in {1, Factor}
      /\ dev.error \in {"none", "UNC", "ABRT"}
      /\ dev.block \in 0 .. N /\ dev.left \in 0 .. N
      /\ dev.lba \in Nat
  <2>1. dev.error \in {"none", "UNC", "ABRT", "bus"} /\ dev.error # "bus"
    BY <1>1, <1>4, <1>5, DevFields DEF Drives
  <2>. QED
    BY <2>1, <1>1, <1>4, <1>5, PktFields, DevFields DEF Flags, Progress
<1>8. /\ p \in PktSet /\ Alike(pkt, p) /\ p.resid = pkt.resid /\ p.v_addr = pkt.v_addr
      /\ p.retry = pkt.retry /\ p.bytes_per_block = pkt.bytes_per_block
      /\ Before(p) = B /\ Counted(p) = C
      /\ p.flags = (IF err THEN {"ERROR"} ELSE {}) /\ p.cp_resid = pkt.cp_resid
  <2>1. CASE bad
    <3>1. p = Fail(pkt, dev.error)
      BY <2>1
    <3>. HIDE DEF p
    <3>2. /\ p \in PktSet /\ Alike(pkt, p) /\ p.resid = pkt.resid /\ p.v_addr = pkt.v_addr
          /\ p.retry = pkt.retry /\ p.bytes_per_block = pkt.bytes_per_block
          /\ Before(p) = B /\ Counted(p) = C
          /\ p.flags = pkt.flags \cup {"ERROR"} /\ p.cp_resid = pkt.cp_resid
      BY <3>1, <1>4, <1>7, FailFields
    <3>. QED
      BY <3>2, <2>1, <1>7
  <2>2. CASE ~bad
    <3>1. p = pkt
      BY <2>2
    <3>. HIDE DEF p
    <3>. QED
      BY <3>1, <2>2, <1>4, <1>7 DEF Alike
  <2>. QED
    BY <2>1, <2>2
<1>. HIDE DEF p
<1>9. /\ k \in Nat /\ k <= pkt.resid /\ (dev.state = "error" => k = 0)
      /\ dev.state # "error" => k > 0
      /\ k <= Factor
      /\ dev.state = "drq" => k <= dev.block /\ dev.block - k \in 0 .. N
  <2>1. CASE dev.state = "error"
    BY <2>1, <1>4
  <2>2. CASE dev.state # "error"
    <3>1. k = Least(pkt.resid, pkt.bytes_per_block)
      BY <2>2, <1>8
    <3>. HIDE DEF k
    <3>. QED
      BY <3>1, <2>2, <1>4, <1>6, <1>7 DEF Least
  <2>. QED
    BY <2>1, <2>2
<1>. HIDE DEF k
<1>10. /\ q \in PktSet /\ Alike(p, q) /\ q.flags = p.flags
       /\ q.resid = p.resid - k /\ q.v_addr = p.v_addr + k
       /\ q.retry = p.retry /\ Before(q) = Before(p) /\ Counted(q) = Counted(p) + k
       /\ q.cp_resid = p.cp_resid
  <2>1. k <= p.resid /\ p.v_addr + k <= N
    BY <1>4, <1>7, <1>8, <1>9
  <2>. QED
    BY <2>1, <1>8, <1>9, AdvanceFields
<1>. HIDE DEF q
<1>11. /\ q \in PktSet /\ Alike(pkt, q) /\ q.flags = (IF err THEN {"ERROR"} ELSE {})
       /\ q.resid = pkt.resid - k /\ q.v_addr = B + (C + k)
       /\ q.retry = pkt.retry /\ Before(q) = B /\ Counted(q) = C + k
       /\ q.bytexfer = n /\ q.startsec = s /\ q.cp_resid = pkt.cp_resid
  <2>1. Alike(pkt, q) /\ q.bytexfer = n /\ q.startsec = s
    BY <1>8, <1>10 DEF Alike
  <2>2. (B + C) + k = B + (C + k)
    BY <1>4, <1>9
  <2>. QED
    BY <2>1, <2>2, <1>7, <1>8, <1>10
<1>a. \A j \in 0 .. k - 1 : Place(disk, (B + C) + j) = (s + C) + j
  <2>1. /\ C \in Nat /\ k \in Nat /\ C + k <= pkt.bytexfer
        /\ disk \in Disks /\ pkt \in PktSet /\ Lies(dma, disk, pkt)
    BY <1>4, <1>9
  <2>. QED
    BY ONLY <2>1, SectionPart, ZenonT(40)
<1>b. B + C \in Nat /\ s + C \in Nat /\ (B + C) + k <= N
  BY <1>4, <1>9
<1>c. Over(dir, dma) \in Nat
  BY <1>4 DEF Over
<1>12. /\ MovedIn(dir, disk, moved')
       /\ \A i \in 0 .. B + C - 1 : Kept(dir, disk, moved, i) => Kept(dir, disk, moved', i)
       /\ ~bad => Held(dir, disk, moved', B + C, k)
  <2>1. CASE ~bad
    <3>1. moved' = Copy(B + C, s + C, k, TRUE)
      <4>1. moved' = Copy(p.v_addr, dev.lba, k, ~bad)
        BY <2>1, <1>2, <1>6, <1>9
      <4>2. p.v_addr = B + C /\ dev.lba = s + C
        BY <1>6, <1>7, <1>8
      <4>3. (~bad) = TRUE
        BY <2>1, Zenon
      <4>. HIDE DEF bad, B, C, s
      <4>. QED
        BY ONLY <4>1, <4>2, <4>3, Zenon
    <3>2. k <= dev.block /\ dev.block \in Nat
      BY <2>1, <1>7, <1>9
    <3>3. moved' = Move(dir, moved, B + C, s + C, k)
      <4>1. Copy(B + C, s + C, k, TRUE) = Move(dir, moved, B + C, s + C, k)
        BY ONLY <3>2, <1>9, <1>b, CopyGood, Zenon
      <4>. QED
        BY ONLY <4>1, <3>1, <1>1, Zenon
    <3>4. /\ MovedIn(dir, disk, moved') /\ Held(dir, disk, moved', B + C, k)
          /\ \A i \in 0 .. N - 1 : Kept(dir, disk, moved, i) => Kept(dir, disk, moved', i)
      BY <3>3, <1>4, <1>9, <1>a, <1>b, MoveKeeps
    <3>5. \A i \in 0 .. B + C - 1 : i \in 0 .. N - 1
      BY <1>4
    <3>. QED
      BY <3>4, <3>5
  <2>2. CASE bad /\ k = 0
    BY <2>2, <1>2, <1>4
  <2>3. CASE bad /\ k # 0
    <3>1. moved' = Copy(B + C, s + C, k, FALSE)
      <4>1. moved' = Copy(p.v_addr, dev.lba, k, ~bad)
        BY <2>3, <1>2
      <4>2. p.v_addr = B + C /\ dev.lba = s + C
        BY <1>6, <1>7, <1>8
      <4>3. (~bad) = FALSE
        BY <2>3, Zenon
      <4>. HIDE DEF bad, B, C, s
      <4>. QED
        BY ONLY <4>1, <4>2, <4>3, Zenon
    <3>. DEFINE a == B + C
    <3>2. /\ dir = "read" /\ MovedIn(dir, disk, moved) /\ a \in Nat /\ k \in Nat /\ a + k <= N
          /\ moved' = Copy(a, s + C, k, FALSE)
      BY <3>1, <1>1, <1>4, <1>9, <1>b
    <3>3. /\ MovedIn(dir, disk, moved')
          /\ \A i \in 0 .. a - 1 : Kept(dir, disk, moved, i) => Kept(dir, disk, moved', i)
      <4>. HIDE DEF a
      <4>. QED
        BY ONLY <3>2, CopyBad, Zenon
    <3>4. \A i \in 0 .. B + C - 1 : Kept(dir, disk, moved, i) => Kept(dir, disk, moved', i)
      <4>1. a - 1 = B + C - 1
        BY <1>4
      <4>. QED
        BY <3>3, <4>1, Zenon
    <3>5. ~bad => Held(dir, disk, moved', B + C, k)
      BY <2>3, Zenon
    <3>. HIDE DEF a, bad, B, C
    <3>. QED
      BY <3>3, <3>4, <3>5, Zenon
  <2>. QED
    BY <2>1, <2>2, <2>3
<1>13. Held(dir, disk, moved, 0, B) /\ Held(dir, disk, moved, B, C)
  <2>1. Doubt(at, dir, dma, pkt) = 0
    BY <1>1 DEF Doubt
  <2>2. C - 0 = C
    BY <1>4
  <2>3. ~(dma /\ faulted) /\ ~Mis(dma, pkt, Hit)
    BY <1>1 DEF Mis
  <2>4. /\ Held(dir, disk, moved, 0, B)
        /\ Held(dir, disk, moved, B, C - Doubt(at, dir, dma, pkt))
    BY <2>3, <1>5 DEF Sure
  <2>. HIDE DEF B, C
  <2>. QED
    BY <2>1, <2>2, <2>4
<1>14. Held(dir, disk, moved', 0, B) /\ Held(dir, disk, moved', B, C)
  <2>1. /\ \A i \in 0 .. 0 + B - 1 : i \in 0 .. B + C - 1
        /\ \A i \in B .. B + C - 1 : i \in 0 .. B + C - 1
    BY <1>4
  <2>2. /\ \A i \in 0 .. 0 + B - 1 : Kept(dir, disk, moved, i) => Kept(dir, disk, moved', i)
        /\ \A i \in B .. B + C - 1 : Kept(dir, disk, moved, i) => Kept(dir, disk, moved', i)
    BY <2>1, <1>12
  <2>. QED
    BY <2>2, <1>4, <1>13, HeldKept
<1>15. ~bad => Held(dir, disk, moved', B, C + k)
  BY <1>4, <1>9, <1>12, <1>14, HeldJoin
<1>16. Held(dir, disk, moved', B, C + k - Over(dir, dma))
  <2>2. /\ bad => C + k - Over(dir, dma) <= C
        /\ C + k - Over(dir, dma) \in Int /\ C + k - Over(dir, dma) <= C + k
        /\ C + k \in Int
    <3>1. CASE dev.state = "error"
      BY <3>1, <1>4, <1>9 DEF Over
    <3>2. CASE dev.state = "error_drq"
      <4>1. ErrorData
        BY <3>2, <1>5 DEF Drives
      <4>. QED
        BY <4>1, <1>1, <1>4, <1>9 DEF Over
    <3>3. CASE dev.state = "drq"
      <4>1. C \in Int /\ k \in Nat /\ Over(dir, dma) \in Nat
        BY <1>4, <1>9, <1>c
      <4>2. ~bad
        BY <3>3
      <4>. HIDE DEF C, bad
      <4>. QED
        BY <4>1, <4>2
    <3>. QED
      BY <3>1, <3>2, <3>3, <1>6
  <2>. DEFINE m == C + k - Over(dir, dma)  c == C + k
  <2>. HIDE DEF m, c
  <2>3. m \in Int /\ c \in Int /\ m <= c /\ (bad => m <= C) /\ C \in Int
    BY <2>2, <1>4 DEF m, c
  <2>4. Held(dir, disk, moved', B, m)
    <3>1. CASE bad
      BY <3>1, <2>3, <1>4, <1>14, HeldSub
    <3>2. CASE ~bad
      <4>1. Held(dir, disk, moved', B, c)
        BY <3>2, <1>15 DEF c
      <4>. QED
        BY <4>1, <2>3, <1>4, HeldSub
    <3>. QED
      BY <3>1, <3>2
  <2>. QED
    BY <2>4 DEF m
<1>17. ASSUME NEW w \in PktSet, Alike(q, w), w.resid = q.resid, w.v_addr = q.v_addr,
              w.retry = q.retry, Before(w) = Before(q), Counted(w) = Counted(q),
              w.flags \in {q.flags, {"ERROR"}}, q.resid = 0 \/ "ERROR" \in q.flags,
              pkt' = [w EXCEPT !.cp_resid = w.resid], at' = "complete",
              slow' \in 0 .. MaxSlow
       PROVE  TransferInv'
  <2>1. at' = "complete" /\ slow' \in 0 .. MaxSlow
    BY <1>17
  <2>2. /\ pkt' \in PktSet /\ Alike(q, pkt') /\ pkt'.flags \in {q.flags, {"ERROR"}}
        /\ pkt'.resid = q.resid /\ pkt'.v_addr = q.v_addr
        /\ pkt'.retry = q.retry /\ pkt'.cp_resid = q.resid
        /\ Before(pkt') = Before(q) /\ Counted(pkt') = Counted(q)
    <3>1. /\ pkt' \in PktSet /\ Alike(w, pkt') /\ pkt'.flags = w.flags
          /\ pkt'.resid = w.resid /\ pkt'.v_addr = w.v_addr
          /\ pkt'.retry = w.retry /\ pkt'.cp_resid = w.resid
          /\ Before(pkt') = Before(w) /\ Counted(pkt') = Counted(w)
      BY <1>17, FinishFields
    <3>. QED
      BY <3>1, <1>17 DEF Alike
  <2>3. Alike(pkt, pkt') /\ pkt'.bytexfer = n
    BY <2>2, <1>11 DEF Alike
  <2>4. dev.left = k \/ "ERROR" \in q.flags
    BY <1>4, <1>6, <1>9, <1>11, <1>17
  <2>5. dev' = [dev EXCEPT !.state = "idle", !.irq = FALSE]
    BY <2>4, <1>2
  <2>6. dev' \in DevSet /\ dev'.state = "idle" /\ dev'.error = dev.error
    BY <2>5, <1>4 DEF DevSet
  <2>7. Types'
    <3>1. at' \in Places
      BY <2>1 DEF Places
    <3>. QED
      BY <3>1, <2>1, <2>2, <2>6, <1>1, <1>4 DEF Types
  <2>8. Sure(at, dir, dma, disk, pkt, moved, faulted, Hit)'
    <3>1. CASE pkt'.flags = {"ERROR"}
      <4>1. pkt'.flags = {"ERROR"}
        BY <3>1
      <4>2. Doubt(at', dir', dma', pkt') = Over(dir, dma)
        BY <4>1, <2>1, <1>1 DEF Doubt
      <4>3. /\ Held(dir', disk', moved', 0, Before(pkt'))
            /\ Held(dir', disk', moved', Before(pkt'), Counted(pkt') - Doubt(at', dir', dma', pkt'))
        <5>1. dir' = dir /\ disk' = disk /\ Before(pkt') = B /\ Counted(pkt') = C + k
          BY <2>2, <1>1, <1>11
        <5>. DEFINE x == Counted(pkt') - Doubt(at', dir', dma', pkt')
                    y == C + k - Over(dir, dma)
        <5>2. x = y
          BY <5>1, <4>2, <1>4, <1>9, <1>c
        <5>3. Held(dir, disk, moved', B, y)
          BY <3>1, <1>16
        <5>. HIDE DEF x, y
        <5>4. Held(dir', disk', moved', 0, Before(pkt')) /\ Held(dir', disk', moved', Before(pkt'), x)
          BY <5>1, <5>2, <5>3, <1>14
        <5>. QED
          BY <5>4 DEF x
      <4>. QED
        BY <4>1, <4>3 DEF Sure
    <3>2. CASE pkt'.flags # {"ERROR"}
      <4>1. pkt'.flags = {} /\ q.resid = 0 /\ ~bad
        BY <3>2, <2>2, <1>11, <1>17
      <4>2. Doubt(at', dir', dma', pkt') = 0
        BY <4>1 DEF Doubt
      <4>3. C + k - 0 = C + k /\ C + k = n
        BY <4>1, <1>4, <1>9, <1>11
      <4>4. /\ Held(dir', disk', moved', 0, Before(pkt'))
            /\ Held(dir', disk', moved', Before(pkt'), pkt'.bytexfer)
            /\ Held(dir', disk', moved', Before(pkt'), Counted(pkt') - Doubt(at', dir', dma', pkt'))
        <5>1. dir' = dir /\ disk' = disk /\ Before(pkt') = B /\ Counted(pkt') = C + k
              /\ pkt'.bytexfer = C + k
          BY <4>3, <2>2, <2>3, <1>1, <1>11
        <5>2. Held(dir, disk, moved', B, C + k)
          BY <4>1, <1>15
        <5>. DEFINE x == Counted(pkt') - Doubt(at', dir', dma', pkt')
                    y == C + k
        <5>3. x = y
          <6>1. Counted(pkt') = C + k
            BY <5>1
          <6>. QED
            BY <6>1, <4>2, <1>4, <1>9
        <5>4. Held(dir, disk, moved', B, y) /\ pkt'.bytexfer = y
          BY <5>1, <5>2
        <5>. HIDE DEF x, y
        <5>5. /\ Held(dir', disk', moved', 0, Before(pkt'))
              /\ Held(dir', disk', moved', Before(pkt'), pkt'.bytexfer)
              /\ Held(dir', disk', moved', Before(pkt'), x)
          BY <5>1, <5>3, <5>4, <1>14
        <5>. QED
          BY <5>5 DEF x
      <4>. QED
        BY <4>4 DEF Sure
    <3>. QED
      BY <3>1, <3>2
  <2>9. ErrorBlock' /\ Trouble(dma, pkt, dev, Hit)'
    BY <1>1 DEF ErrorBlock, Trouble
  <2>10. MovedIn(dir, disk, moved)'
    BY <1>1, <1>12
  <2>11. pkt'.flags = {} => pkt'.resid = 0
    BY <2>2, <1>11, <1>17
  <2>12. pkt'.resid <= pkt'.bytexfer /\ pkt'.v_addr = Before(pkt) + Counted(pkt')
    BY <2>2, <2>3, <1>4, <1>9, <1>11
  <2>13. dev'.error # "bus"
    BY <2>6, <1>7
  <2>. QED
    BY <2>1, <2>2, <2>3, <2>6, <2>7, <2>8, <2>9, <2>10, <2>11, <2>12, <2>13,
       <1>1, <1>3, <1>11, Completes
<1>18. ASSUME ~(q.resid = 0 \/ "ERROR" \in q.flags), pkt' = q, at' = "wait", slow' = slow
       PROVE  TransferInv'
  <2>1. pkt' = q /\ at' = "wait"
    BY <1>18
  <2>2. ~bad /\ q.flags = {} /\ q.resid # 0 /\ dev.left # k /\ dev.state = "drq"
    <3>1. ~bad /\ q.flags = {} /\ q.resid # 0
      BY <1>11, <1>18
    <3>. QED
      BY <3>1, <1>4, <1>6, <1>9, <1>11
  <2>. DEFINE st == IF rest > 0 THEN "drq" ELSE "busy"
  <2>3. dev' = [dev EXCEPT !.irq = FALSE, !.lba = dev.lba + k, !.left = dev.left - k,
                           !.block = rest, !.state = st]
    BY <2>2, <1>2
  <2>4. dev.lba + k \in Nat /\ dev.left - k \in 0 .. N /\ rest \in 0 .. N
        /\ st \in {"drq", "busy"}
    BY <2>2, <1>4, <1>6, <1>7, <1>9
  <2>. HIDE DEF st, rest
  <2>5. dev' \in DevSet
    BY <2>3, <2>4, <1>4 DEF DevSet
  <2>6. /\ dev'.irq = FALSE /\ dev'.lba = dev.lba + k /\ dev'.left = dev.left - k
        /\ dev'.state = st /\ dev'.error = dev.error
    BY <2>3, <1>4 DEF DevSet
  <2>7. Types'
    <3>1. at' \in Places
      BY <2>1 DEF Places
    <3>. QED
      BY <3>1, <2>1, <2>5, <1>1, <1>4, <1>11, <1>18 DEF Types
  <2>8. Lies(dma, disk, pkt)'
    <3>1. Lies(dma, disk, q)
      BY <1>4, <1>11, LiesAlike
    <3>. QED
      BY <3>1, <2>1, <1>1
  <2>9. Progress(at, dma, pkt, Hit)'
    <3>1. q.resid <= q.bytexfer /\ q.retry <= RetryCount /\ q.cp_resid <= q.bytexfer
      BY <1>1, <1>4, <1>5, <1>9, <1>11 DEF Progress, Mis
    <3>. QED
      BY <3>1, <2>1, <1>1, <1>11 DEF Progress
  <2>10. Flags(at, dir, dma, pkt)'
    BY <2>1, <2>2, <1>1 DEF Flags
  <2>11. Sure(at, dir, dma, disk, pkt, moved, faulted, Hit)'
    <3>1. Doubt(at', dir', dma', pkt') = 0
      BY <2>1, <2>2 DEF Doubt
    <3>2. C + k - 0 = C + k
      BY <1>4, <1>9
    <3>3. /\ Held(dir', disk', moved', 0, Before(pkt'))
          /\ Held(dir', disk', moved', Before(pkt'), Counted(pkt') - Doubt(at', dir', dma', pkt'))
      <4>1. dir' = dir /\ disk' = disk /\ Before(pkt') = B /\ Counted(pkt') = C + k
        BY <2>1, <1>1, <1>11
      <4>2. Held(dir, disk, moved', B, C + k)
        BY <2>2, <1>15
      <4>. DEFINE x == Counted(pkt') - Doubt(at', dir', dma', pkt')
                  y == C + k
      <4>3. x = y
        <5>1. Counted(pkt') = C + k
          BY <4>1
        <5>. QED
          BY <5>1, <3>1, <1>4, <1>9
      <4>4. Held(dir, disk, moved', B, y)
        BY <4>2
      <4>. HIDE DEF x, y
      <4>5. /\ Held(dir', disk', moved', 0, Before(pkt'))
            /\ Held(dir', disk', moved', Before(pkt'), x)
        BY <4>1, <4>3, <4>4, <1>14
      <4>. QED
        BY <4>5 DEF x
    <3>. QED
      BY <3>3, <2>1 DEF Sure
  <2>12. Going'
    BY <2>8, <2>9, <2>10, <2>11, <1>1, <1>5 DEF Going
  <2>13. Reading(at, dir, dma, pkt, dev)'
    <3>1. q.resid > 0 /\ dev'.left = q.resid /\ dev'.lba = s + (C + k)
      BY <2>2, <2>6, <1>4, <1>6, <1>9, <1>11
    <3>2. dev'.state # "idle"
      BY <2>4, <2>6
    <3>. QED
      BY <3>1, <3>2, <2>1, <2>6, <1>11 DEF Reading
  <2>14. Writing(at, dir, dma, pkt, dev)' /\ Written(at, dir, dma, disk, pkt, dev, moved)'
         /\ DmaRuns(at, dir, dma, disk, pkt, dev, moved, faulted)'
    BY <1>1 DEF Writing, Written, DmaRuns
  <2>15. Drives(at, dir, dma, dev)'
    BY <2>1, <2>4, <2>6, <1>7 DEF Drives, Working
  <2>16. MovedIn(dir, disk, moved)' /\ at' # "finished" /\ at' # "complete"
         /\ Trouble(dma, pkt, dev, Hit)'
    BY <2>1, <1>1, <1>12 DEF Trouble
  <2>. QED
    BY <2>7, <2>12, <2>13, <2>14, <2>15, <2>16, StillGoing
       DEF TransferInv, DriveInv, ErrorBlock
<1>19. slow \in Nat /\ slow \in 0 .. MaxSlow /\ MaxSlow \in Nat
  BY <1>4, TransferAssumption DEF Types
<1>20. CASE q.resid = 0 /\ slow < MaxSlow /\ slow' = slow + 1 /\ at' = "complete"
            /\ \E e \in {"BUSY", "ABRT"} :
                 pkt' = [Fail(q, e) EXCEPT !.cp_resid = Fail(q, e).resid]
  <2>1. PICK e \in {"BUSY", "ABRT"} :
          pkt' = [Fail(q, e) EXCEPT !.cp_resid = Fail(q, e).resid]
    BY <1>20
  <2>. DEFINE w == Fail(q, e)
  <2>2. pkt' = [w EXCEPT !.cp_resid = w.resid]
    BY <2>1
  <2>3. /\ w \in PktSet /\ Alike(q, w) /\ w.flags = q.flags \cup {"ERROR"}
        /\ w.resid = q.resid /\ w.v_addr = q.v_addr /\ w.retry = q.retry
        /\ Before(w) = Before(q) /\ Counted(w) = Counted(q)
    BY <1>11, FailFields
  <2>. HIDE DEF w
  <2>4. w.flags \in {q.flags, {"ERROR"}} /\ slow' \in 0 .. MaxSlow
    BY <2>3, <1>11, <1>19, <1>20
  <2>. QED
    BY <2>2, <2>3, <2>4, <1>17, <1>20
<1>21. CASE slow' = slow /\ (IF q.resid = 0 \/ "ERROR" \in q.flags
                             THEN pkt' = [q EXCEPT !.cp_resid = q.resid] /\ at' = "complete"
                             ELSE pkt' = q /\ at' = "wait")
  <2>1. Alike(q, q)
    BY DEF Alike
  <2>. QED
    BY <2>1, <1>11, <1>17, <1>18, <1>19, <1>21
<1>. QED
  BY <1>2, <1>20, <1>21

(* The wait times out before anything is moved: an error is noted, and the *)
(* drive is busy with what it was about to offer.                          *)
LEMMA StepIntrPioInBusy ==
  ASSUME TransferInv, IntrPioInBusy
  PROVE  TransferInv'
<1>1. /\ at = "wait" /\ dir = "read" /\ ~dma /\ slow < MaxSlow /\ slow' = slow + 1
      /\ dev' = [dev EXCEPT !.state = "busy", !.error = "none", !.irq = FALSE]
      /\ pkt' = Fail(pkt, "BUSY")
      /\ UNCHANGED <<at, dir, dma, disk, alts, bp, moved, errors, faulted>>
  BY DEF IntrPioInBusy
<1>2. Going
  BY <1>1 DEF TransferInv
<1>3. /\ N \in Nat /\ Types /\ pkt \in PktSet /\ Lies(dma, disk, pkt)
      /\ MovedIn(dir, disk, moved) /\ dev \in DevSet
  BY <1>2, GoingFacts
<1>4. Progress(at, dma, pkt, Hit) /\ Flags(at, dir, dma, pkt)
      /\ Sure(at, dir, dma, disk, pkt, moved, faulted, Hit)
      /\ bp = [resid |-> 0, error |-> "none"] /\ Reading(at, dir, dma, pkt, dev)
  BY <1>2 DEF Going, TransferInv, DriveInv
<1>5. /\ pkt' \in PktSet /\ Alike(pkt, pkt') /\ pkt'.flags = pkt.flags \cup {"ERROR"}
      /\ pkt'.resid = pkt.resid /\ pkt'.v_addr = pkt.v_addr /\ pkt'.cp_resid = pkt.cp_resid
      /\ pkt'.wrt_count = pkt.wrt_count /\ pkt'.retry = pkt.retry
      /\ Before(pkt') = Before(pkt) /\ Counted(pkt') = Counted(pkt)
  BY <1>1, <1>3, FailFields
<1>6. pkt'.bytexfer = pkt.bytexfer /\ pkt'.startsec = pkt.startsec
  BY <1>5 DEF Alike
<1>7. /\ dev' \in DevSet /\ dev'.state = "busy" /\ dev'.error = "none" /\ dev'.irq = FALSE
      /\ dev'.lba = dev.lba /\ dev'.left = dev.left
  BY <1>1, <1>3 DEF DevSet
<1>8. Types'
  <2>1. slow' \in 0 .. MaxSlow
    BY <1>1, <1>3, TransferAssumption DEF Types
  <2>. QED
    BY <2>1, <1>1, <1>3, <1>5, <1>7 DEF Types
<1>9. Lies(dma, disk, pkt)'
  <2>1. Lies(dma, disk, pkt')
    BY <1>3, <1>5, LiesAlike
  <2>. QED
    BY <2>1, <1>1
<1>10. Progress(at, dma, pkt, Hit)'
  BY <1>1, <1>4, <1>5, <1>6 DEF Progress, Mis
<1>11. Flags(at, dir, dma, pkt)'
  BY <1>1, <1>4, <1>5 DEF Flags
<1>12. Sure(at, dir, dma, disk, pkt, moved, faulted, Hit)'
  BY <1>1, <1>4, <1>5, <1>6 DEF Sure, Doubt, Mis
<1>13. Going'
  BY <1>1, <1>4, <1>9, <1>10, <1>11, <1>12 DEF Going
<1>14. Reading(at, dir, dma, pkt, dev)'
  BY <1>1, <1>4, <1>5, <1>6, <1>7 DEF Reading
<1>15. /\ DmaRuns(at, dir, dma, disk, pkt, dev, moved, faulted)'
       /\ Writing(at, dir, dma, pkt, dev)' /\ Written(at, dir, dma, disk, pkt, dev, moved)'
  BY <1>1 DEF DmaRuns, Writing, Written
<1>16. Drives(at, dir, dma, dev)' /\ Trouble(dma, pkt, dev, Hit)'
  BY <1>1, <1>7 DEF Drives, Trouble, Working
<1>17. MovedIn(dir, disk, moved)' /\ at' # "finished" /\ at' # "complete"
  BY <1>1, <1>3
<1>. QED
  BY <1>8, <1>13, <1>14, <1>15, <1>16, <1>17, StillGoing
     DEF TransferInv, DriveInv, ErrorBlock

(* What a write that is under way says, with the names the steps use.      *)
LEMMA WriteFacts ==
  ASSUME TransferInv, at \in {"wait"} \cup Polling, dir = "write", ~dma
  PROVE  /\ Going /\ bp = [resid |-> 0, error |-> "none"]
         /\ pkt.resid > 0 /\ Chunk(at, pkt) \in Nat /\ Chunk(at, pkt) <= pkt.resid
         /\ dev.left = pkt.resid - Chunk(at, pkt)
         /\ dev.lba = pkt.startsec + (Counted(pkt) + Chunk(at, pkt))
         /\ dev.first \in pkt.startsec + Counted(pkt) .. dev.lba
         /\ pkt.v_addr = Before(pkt) + Counted(pkt)
         /\ dev.state # "error_drq" /\ dev.error \in {"none", "UNC", "ABRT"}
         /\ dev.block \in 0 .. N /\ dev.left \in 0 .. N /\ dev.lba \in Nat
         /\ pkt.flags \subseteq {"ERROR"}
         /\ Held(dir, disk, moved, 0, Before(pkt))
         /\ Held(dir, disk, moved, Before(pkt), Counted(pkt))
         /\ dev.state # "error" =>
              Held(dir, disk, moved, Before(pkt) + Counted(pkt), Chunk(at, pkt))
<1>1. Going
  BY DEF TransferInv, Polling
<1>2. /\ Counted(pkt) \in 0 .. pkt.bytexfer /\ pkt.resid \in Nat /\ pkt.bytexfer \in Nat
      /\ pkt.startsec \in Nat /\ pkt.wrt_count \in Nat /\ pkt \in PktSet /\ dev \in DevSet
      /\ Before(pkt) \in Nat
  BY <1>1, GoingFacts
<1>3. /\ Writing(at, dir, dma, pkt, dev) /\ Written(at, dir, dma, disk, pkt, dev, moved)
      /\ Drives(at, dir, dma, dev) /\ Progress(at, dma, pkt, Hit) /\ Flags(at, dir, dma, pkt)
      /\ Sure(at, dir, dma, disk, pkt, moved, faulted, Hit)
      /\ bp = [resid |-> 0, error |-> "none"]
  BY <1>1 DEF TransferInv, DriveInv, Going
<1>4. Chunk(at, pkt) \in Nat
  BY <1>2 DEF Chunk
<1>5. /\ pkt.resid > 0 /\ Chunk(at, pkt) <= pkt.resid
      /\ dev.left = pkt.resid - Chunk(at, pkt)
      /\ dev.lba = pkt.startsec + Counted(pkt) + Chunk(at, pkt)
      /\ dev.first \in pkt.startsec + Counted(pkt) .. dev.lba
  BY <1>3 DEF Writing
<1>6. dev.lba = pkt.startsec + (Counted(pkt) + Chunk(at, pkt))
  BY <1>2, <1>4, <1>5
<1>7. pkt.v_addr = Before(pkt) + Counted(pkt)
  BY <1>3 DEF Progress
<1>8. /\ dev.state # "error_drq" /\ dev.error \in {"none", "UNC", "ABRT"}
  <2>1. dev.error \in {"none", "UNC", "ABRT", "bus"}
    BY <1>2, DevFields
  <2>. QED
    BY <2>1, <1>3 DEF Drives
<1>9. dev.block \in 0 .. N /\ dev.left \in 0 .. N /\ dev.lba \in Nat
  BY <1>2, DevFields
<1>10. pkt.flags \subseteq {"ERROR"}
  <2>1. at \in {"wait", "intr", "poll_next"} => pkt.flags \subseteq {"ERROR"}
    BY <1>3 DEF Flags
  <2>2. at = "poll_start" => pkt.flags = {}
    BY <1>3 DEF Flags
  <2>. QED
    BY <2>1, <2>2 DEF Polling
<1>11. Held(dir, disk, moved, 0, Before(pkt)) /\ Held(dir, disk, moved, Before(pkt), Counted(pkt))
  <2>1. Doubt(at, dir, dma, pkt) = 0
    BY DEF Doubt, Over
  <2>2. Counted(pkt) - 0 = Counted(pkt)
    BY <1>2
  <2>3. ~(dma /\ faulted) /\ ~Mis(dma, pkt, Hit)
    BY DEF Mis
  <2>4. /\ Held(dir, disk, moved, 0, Before(pkt))
        /\ Held(dir, disk, moved, Before(pkt), Counted(pkt) - Doubt(at, dir, dma, pkt))
    BY <2>3, <1>3 DEF Sure
  <2>. QED
    BY <2>1, <2>2, <2>4
<1>12. dev.state # "error" =>
         Held(dir, disk, moved, Before(pkt) + Counted(pkt), Chunk(at, pkt))
  BY <1>3 DEF Written
<1>. QED
  BY <1>1, <1>3, <1>4, <1>5, <1>6, <1>7, <1>8, <1>9, <1>10, <1>11, <1>12

(* A write that ends its section, with or without an error.                *)
LEMMA WriteCompletes ==
  ASSUME TransferInv, Going, UNCHANGED <<dir, dma, disk, alts, bp, errors, faulted, slow>>,
         dir = "write", ~dma, MovedIn(dir, disk, moved)',
         NEW q \in PktSet, at' = "complete", pkt' = [q EXCEPT !.cp_resid = q.resid],
         Alike(pkt, q), q.retry = pkt.retry, q.resid <= pkt.bytexfer,
         q.v_addr = Before(pkt) + (pkt.bytexfer - q.resid),
         q.flags = {} => q.resid = 0,
         Held(dir, disk, moved', 0, Before(pkt)),
         Held(dir, disk, moved', Before(pkt), pkt.bytexfer - q.resid),
         dev' \in DevSet, dev'.state \notin {"busy", "error_drq"}, dev'.error # "bus"
  PROVE  TransferInv'
<1>1. /\ pkt' \in PktSet /\ Alike(q, pkt') /\ pkt'.flags = q.flags
      /\ pkt'.resid = q.resid /\ pkt'.v_addr = q.v_addr
      /\ pkt'.retry = q.retry /\ pkt'.cp_resid = q.resid
  BY FinishFields
<1>2. /\ Alike(pkt, pkt') /\ Before(pkt') = Before(pkt) /\ pkt'.bytexfer = pkt.bytexfer
      /\ Counted(pkt') = pkt.bytexfer - q.resid
  BY <1>1 DEF Alike, Before, Counted
<1>3. Types'
  <2>1. at' \in Places
    <3>1. at' = "complete"
      OBVIOUS
    <3>. QED
      BY ONLY <3>1 DEF Places
  <2>. QED
    BY <2>1, <1>1 DEF TransferInv, Types
<1>4. q.resid \in Nat /\ pkt.bytexfer \in Nat
  <2>1. q.resid \in Nat
    BY PktFields
  <2>2. pkt.bytexfer \in Nat
    BY GoingFacts
  <2>. QED
    BY <2>1, <2>2
<1>5. Sure(at, dir, dma, disk, pkt, moved, faulted, Hit)'
  <2>. DEFINE c == pkt.bytexfer - q.resid
  <2>1. Doubt(at', dir', dma', pkt') = 0
    BY DEF Doubt, Over
  <2>2. c - 0 = c /\ c \in Int
    BY <1>4
  <2>3. pkt'.flags = {} => pkt'.bytexfer = c
    BY <1>1, <1>2, <1>4
  <2>4. Held(dir', disk', moved', 0, Before(pkt')) /\ Held(dir', disk', moved', Before(pkt'), c)
    BY <1>2
  <2>5. Counted(pkt') - Doubt(at', dir', dma', pkt') = c
    BY <2>1, <2>2, <1>2
  <2>. HIDE DEF c
  <2>. QED
    BY <2>3, <2>4, <2>5 DEF Sure
<1>6. ErrorBlock' /\ Trouble(dma, pkt, dev, Hit)'
  BY DEF ErrorBlock, Trouble
<1>7. ~dma => pkt'.v_addr = Before(pkt) + Counted(pkt')
  BY <1>1, <1>2
<1>. QED
  BY <1>1, <1>2, <1>3, <1>5, <1>6, <1>7, Completes

(* ata_disk_intr_pio_out: the chunk before counts now, unless the drive    *)
(* reports an error.                                                       *)
LEMMA StepIntrPioOut ==
  ASSUME TransferInv, IntrPioOut
  PROVE  TransferInv'
<1>. DEFINE B == Before(pkt)  C == Counted(pkt)  s == pkt.startsec  n == pkt.bytexfer
            w == pkt.wrt_count
            p == [pkt EXCEPT !.v_addr = @ + w, !.resid = @ - w]
<1>1. /\ (at = "wait" /\ dev.irq) \/ at = "intr"
      /\ dir = "write" /\ ~dma /\ dev' = [dev EXCEPT !.irq = FALSE]
      /\ UNCHANGED <<dir, dma, disk, alts, bp, moved, errors, faulted, slow>>
  BY DEF IntrPioOut
<1>2. IF dev.state = "error"
      THEN pkt' = [Fail(pkt, dev.error) EXCEPT !.cp_resid = Fail(pkt, dev.error).resid]
           /\ at' = "complete"
      ELSE IF p.resid = 0 THEN pkt' = [p EXCEPT !.cp_resid = p.resid] /\ at' = "complete"
      ELSE pkt' = p /\ at' = "poll_next"
  BY DEF IntrPioOut, Finish
<1>3. at \in {"wait"} \cup Polling /\ Chunk(at, pkt) = w
  BY <1>1 DEF Polling, Chunk
<1>4. /\ Going /\ bp = [resid |-> 0, error |-> "none"]
      /\ pkt.resid > 0 /\ w \in Nat /\ w <= pkt.resid
      /\ dev.left = pkt.resid - w
      /\ dev.lba = s + (C + w)
      /\ dev.first \in s + C .. dev.lba
      /\ pkt.v_addr = B + C
      /\ dev.state # "error_drq" /\ dev.error \in {"none", "UNC", "ABRT"}
      /\ dev.block \in 0 .. N /\ dev.left \in 0 .. N /\ dev.lba \in Nat
      /\ pkt.flags \subseteq {"ERROR"}
      /\ Held(dir, disk, moved, 0, B) /\ Held(dir, disk, moved, B, C)
      /\ dev.state # "error" => Held(dir, disk, moved, B + C, w)
  BY <1>1, <1>3, WriteFacts
<1>5. /\ N \in Nat /\ Factor \in Nat \ {0} /\ Types /\ pkt \in PktSet /\ dev \in DevSet
      /\ disk \in Disks /\ MovedIn(dir, disk, moved) /\ B \in Nat /\ n \in 1 .. N
      /\ B + n <= N /\ s \in Nat /\ pkt.resid \in 0 .. n /\ C = n - pkt.resid /\ C \in 0 .. n
      /\ Lies(dma, disk, pkt)
  BY <1>1, <1>4, GoingFacts
<1>6. /\ Writing(at, dir, dma, pkt, dev) /\ Progress(at, dma, pkt, Hit) /\ Drives(at, dir, dma, dev)
  BY <1>4 DEF TransferInv, DriveInv, Going
<1>7. at = "intr" => w = 0 /\ pkt.resid = n
  BY <1>1, <1>6 DEF Progress
<1>8. /\ dev.irq => dev.state # "busy" /\ (at \in Polling => dev.state = "error")
      /\ dev.irq /\ dev.state # "error" => dev.first = dev.lba
      /\ dev.state = "drq" /\ (dev.irq \/ at \in Polling) => dev.block = Least(dev.left, Factor)
  BY <1>1, <1>3, <1>6 DEF Writing
<1>9. /\ dev' \in DevSet /\ dev'.irq = FALSE /\ dev'.state = dev.state /\ dev'.lba = dev.lba
      /\ dev'.left = dev.left /\ dev'.first = dev.first /\ dev'.block = dev.block
      /\ dev'.error = dev.error
  BY <1>1, <1>5 DEF DevSet
<1>10. MovedIn(dir, disk, moved)'
  BY <1>1, <1>5
<1>11. /\ p \in PktSet /\ Alike(pkt, p) /\ p.flags = pkt.flags
       /\ p.resid = pkt.resid - w /\ p.v_addr = pkt.v_addr + w
       /\ p.retry = pkt.retry /\ p.wrt_count = w /\ p.cp_resid = pkt.cp_resid
       /\ Before(p) = B /\ Counted(p) = C + w
  <2>1. pkt.v_addr + w <= N
    BY <1>4, <1>5
  <2>. HIDE DEF w, B, C
  <2>2. /\ p \in PktSet /\ Alike(pkt, p) /\ p.flags = pkt.flags
        /\ p.resid = pkt.resid - w /\ p.v_addr = pkt.v_addr + w
        /\ p.retry = pkt.retry /\ p.wrt_count = pkt.wrt_count /\ p.cp_resid = pkt.cp_resid
        /\ Before(p) = Before(pkt) /\ Counted(p) = Counted(pkt) + w
    BY <2>1, <1>4, <1>5, AdvanceFields
  <2>. QED
    BY <2>2 DEF w, B, C
<1>. HIDE DEF p
<1>12. dev.state # "error" => Held(dir, disk, moved, B, C + w)
  BY <1>4, <1>5, HeldJoin
<1>13. CASE dev.state = "error"
  <2>. DEFINE f == Fail(pkt, dev.error)
  <2>1. /\ f \in PktSet /\ Alike(pkt, f) /\ f.flags = pkt.flags \cup {"ERROR"}
        /\ f.resid = pkt.resid /\ f.v_addr = pkt.v_addr /\ f.retry = pkt.retry
    BY <1>4, <1>5, FailFields
  <2>2. pkt' = [f EXCEPT !.cp_resid = f.resid] /\ at' = "complete"
    BY <1>2, <1>13
  <2>. HIDE DEF f
  <2>3. f.v_addr = B + (n - f.resid) /\ f.resid <= n /\ f.flags # {}
    BY <2>1, <1>4, <1>5
  <2>4. Held(dir, disk, moved', 0, B) /\ Held(dir, disk, moved', B, n - f.resid)
    <3>1. n - f.resid = C /\ moved' = moved
      BY <2>1, <1>1, <1>5
    <3>. DEFINE x == n - f.resid
    <3>2. Held(dir, disk, moved', 0, B) /\ Held(dir, disk, moved', B, x)
      <4>1. x = C
        BY <3>1
      <4>. HIDE DEF x, C, B
      <4>. QED
        BY <3>1, <4>1, <1>4
    <3>. QED
      BY <3>2
  <2>5. dev'.state \notin {"busy", "error_drq"} /\ dev'.error # "bus"
    BY <1>4, <1>9, <1>13
  <2>. QED
    BY <2>1, <2>2, <2>3, <2>4, <2>5, <1>1, <1>4, <1>9, <1>10, WriteCompletes
<1>14. CASE dev.state # "error" /\ p.resid = 0
  <2>1. pkt' = [p EXCEPT !.cp_resid = p.resid] /\ at' = "complete"
    BY <1>2, <1>14
  <2>2. p.v_addr = B + (n - p.resid) /\ p.resid <= n
    BY <1>4, <1>5, <1>11, <1>14
  <2>3. Held(dir, disk, moved', 0, B) /\ Held(dir, disk, moved', B, n - p.resid)
    <3>. DEFINE x == n - p.resid  y == C + w
    <3>1. x = y /\ moved' = moved
      BY <1>1, <1>4, <1>5, <1>11, <1>14
    <3>2. Held(dir, disk, moved, 0, B) /\ Held(dir, disk, moved, B, y)
      BY <1>4, <1>12, <1>14
    <3>. HIDE DEF x, y, B
    <3>3. Held(dir, disk, moved', 0, B) /\ Held(dir, disk, moved', B, x)
      BY <3>1, <3>2
    <3>. QED
      BY <3>3 DEF x
  <2>4. dev.irq /\ dev.state # "busy"
    <3>1. ASSUME at = "intr"
          PROVE  FALSE
      <4>1. w = 0 /\ pkt.resid = n
        BY <3>1, <1>7
      <4>2. p.resid = pkt.resid - w /\ p.resid = 0
        BY <1>11, <1>14
      <4>. HIDE DEF w, n
      <4>3. n \in 1 .. N
        BY <1>5
      <4>. QED
        BY <4>1, <4>2, <4>3, <1>5
    <3>. QED
      BY <3>1, <1>1, <1>8
  <2>5. dev'.state \notin {"busy", "error_drq"} /\ dev'.error # "bus"
    BY <2>4, <1>4, <1>9
  <2>. QED
    BY <2>1, <2>2, <2>3, <2>5, <1>1, <1>4, <1>9, <1>10, <1>11, <1>14, WriteCompletes
<1>15. CASE dev.state # "error" /\ p.resid # 0
  <2>1. pkt' = p /\ at' = "poll_next"
    BY <1>2, <1>15
  <2>2. Types'
    <3>1. at' \in Places
      BY <2>1 DEF Places
    <3>. QED
      BY <3>1, <2>1, <1>1, <1>5, <1>9, <1>11 DEF Types
  <2>3. Lies(dma, disk, pkt)'
    <3>1. Lies(dma, disk, p)
      BY <1>5, <1>11, LiesAlike
    <3>. QED
      BY <3>1, <2>1, <1>1
  <2>4. p.bytexfer = n /\ p.startsec = s
    BY <1>11 DEF Alike
  <2>5. Progress(at, dma, pkt, Hit)'
    <3>1. p.resid <= p.bytexfer /\ p.retry <= RetryCount
      BY <2>4, <1>4, <1>5, <1>6, <1>11 DEF Progress
    <3>3. p.cp_resid <= p.bytexfer
      BY <2>4, <1>1, <1>6, <1>11 DEF Progress, Mis
    <3>2. p.v_addr = Before(p) + Counted(p)
      BY <1>4, <1>5, <1>11
    <3>. QED
      BY <3>1, <3>2, <3>3, <2>1, <1>1 DEF Progress
  <2>6. Flags(at, dir, dma, pkt)'
    BY <2>1, <1>1, <1>4, <1>11 DEF Flags
  <2>7. Sure(at, dir, dma, disk, pkt, moved, faulted, Hit)'
    <3>. DEFINE y == C + w
    <3>1. Doubt(at', dir', dma', pkt') = 0
      BY <1>1 DEF Doubt, Over
    <3>2. y - 0 = y /\ y \in Int
      BY <1>4, <1>5
    <3>3. Held(dir, disk, moved, 0, B) /\ Held(dir, disk, moved, B, y)
      BY <1>4, <1>12, <1>15
    <3>4. Counted(pkt') = y /\ Before(pkt') = B
      BY <2>1, <1>11
    <3>. HIDE DEF y, B
    <3>5. Counted(pkt') - Doubt(at', dir', dma', pkt') = y
      BY <3>1, <3>2, <3>4
    <3>. QED
      BY <3>3, <3>4, <3>5, <2>1, <1>1 DEF Sure
  <2>8. Going'
    BY <2>3, <2>5, <2>6, <2>7, <1>1, <1>4 DEF Going
  <2>9. Writing(at, dir, dma, pkt, dev)'
    <3>1. dev.first = dev.lba
      BY <1>1, <1>4, <1>5, <1>7, <1>8, <1>15
    <3>2. dev.lba = s + Counted(p) + 0 /\ dev.first \in s + Counted(p) .. dev.lba
      BY <3>1, <1>4, <1>5, <1>11
    <3>3. p.resid > 0 /\ 0 <= p.resid /\ dev.left = p.resid - 0
      BY <1>4, <1>5, <1>11, <1>15
    <3>4. dev.state = "busy" => at = "intr"
      BY <1>1, <1>8
    <3>5. dev.state = "busy" => p.wrt_count = 0 /\ p.resid = p.bytexfer
      BY <3>4, <2>4, <1>5, <1>7, <1>11
    <3>6. dev.state = "drq" => dev.block = Least(dev.left, Factor)
      BY <1>1, <1>3, <1>8 DEF Polling
    <3>7. Chunk(at', pkt') = 0
      BY <2>1 DEF Chunk
    <3>. QED
      BY <3>2, <3>3, <3>5, <3>6, <3>7, <2>1, <2>4, <1>9 DEF Writing
  <2>10. Written(at, dir, dma, disk, pkt, dev, moved)'
    <3>1. Chunk(at', pkt') = 0
      BY <2>1 DEF Chunk
    <3>2. Before(pkt') + Counted(pkt') \in Int
      BY <2>1, <1>4, <1>5, <1>11
    <3>3. Held(dir', disk', moved', Before(pkt') + Counted(pkt'), 0)
      BY <3>2, HeldEmpty
    <3>. QED
      BY <3>1, <3>3 DEF Written
  <2>11. Reading(at, dir, dma, pkt, dev)' /\ DmaRuns(at, dir, dma, disk, pkt, dev, moved, faulted)'
    BY <2>1 DEF Reading, DmaRuns
  <2>12. Drives(at, dir, dma, dev)'
    BY <2>1, <1>4, <1>9 DEF Drives, Working
  <2>13. at' # "finished" /\ at' # "complete" /\ Trouble(dma, pkt, dev, Hit)'
    BY <2>1, <1>1 DEF Trouble
  <2>. QED
    BY <2>2, <2>8, <2>9, <2>10, <2>11, <2>12, <2>13, <1>10, StillGoing
       DEF TransferInv, DriveInv, ErrorBlock
<1>. QED
  BY <1>13, <1>14, <1>15

(* The next chunk of a write: it is moved but does not count yet.           *)
LEMMA StepPollNext ==
  ASSUME TransferInv, PollNext
  PROVE  TransferInv'
<1>. DEFINE B == Before(pkt)  C == Counted(pkt)  s == pkt.startsec  n == pkt.bytexfer
            k == Least(pkt.resid, pkt.bytes_per_block)
            rest == dev.block - k
<1>1. /\ at = "poll_next" /\ dev.state # "busy"
      /\ UNCHANGED <<dir, dma, disk, alts, bp, errors, faulted, slow>>
  BY DEF PollNext
<1>2. dir = "write" /\ ~dma
  BY <1>1 DEF TransferInv, Going, Flags
<1>3. at \in {"wait"} \cup Polling /\ Chunk(at, pkt) = 0
  BY <1>1 DEF Polling, Chunk
<1>4. /\ Going /\ bp = [resid |-> 0, error |-> "none"]
      /\ pkt.resid > 0 /\ dev.left = pkt.resid - 0
      /\ dev.lba = s + (C + 0)
      /\ dev.first \in s + C .. dev.lba
      /\ pkt.v_addr = B + C
      /\ dev.state # "error_drq" /\ dev.error \in {"none", "UNC", "ABRT"}
      /\ dev.block \in 0 .. N /\ dev.left \in 0 .. N /\ dev.lba \in Nat
      /\ pkt.flags \subseteq {"ERROR"}
      /\ Held(dir, disk, moved, 0, B) /\ Held(dir, disk, moved, B, C)
  BY <1>2, <1>3, WriteFacts
<1>5. /\ N \in Nat /\ Factor \in Nat \ {0} /\ Types /\ pkt \in PktSet /\ dev \in DevSet
      /\ disk \in Disks /\ MovedIn(dir, disk, moved) /\ B \in Nat /\ n \in 1 .. N
      /\ B + n <= N /\ s \in Nat /\ pkt.resid \in 0 .. n /\ C = n - pkt.resid /\ C \in 0 .. n
      /\ Lies(dma, disk, pkt)
  BY <1>2, <1>4, GoingFacts
<1>6. /\ Writing(at, dir, dma, pkt, dev) /\ Progress(at, dma, pkt, Hit) /\ Drives(at, dir, dma, dev)
  BY <1>4 DEF TransferInv, DriveInv, Going
<1>7. CASE dev.state # "drq"
  <2>. DEFINE f == Fail(pkt, dev.error)
  <2>1. /\ f \in PktSet /\ Alike(pkt, f) /\ f.flags = pkt.flags \cup {"ERROR"}
        /\ f.resid = pkt.resid /\ f.v_addr = pkt.v_addr /\ f.retry = pkt.retry
    BY <1>4, <1>5, FailFields
  <2>2. pkt' = [f EXCEPT !.cp_resid = f.resid] /\ at' = "complete"
        /\ UNCHANGED <<dev, moved>>
    BY <1>7 DEF PollNext, Finish
  <2>. HIDE DEF f
  <2>3. f.v_addr = B + (n - f.resid) /\ f.resid <= n /\ f.flags # {}
    BY <2>1, <1>4, <1>5
  <2>4. Held(dir, disk, moved', 0, B) /\ Held(dir, disk, moved', B, n - f.resid)
    <3>. DEFINE x == n - f.resid
    <3>1. x = C /\ moved' = moved
      BY <2>1, <2>2, <1>5
    <3>. HIDE DEF x, C, B
    <3>2. Held(dir, disk, moved', 0, B) /\ Held(dir, disk, moved', B, x)
      BY <3>1, <1>4
    <3>. QED
      BY <3>2 DEF x
  <2>5. dev'.state \notin {"busy", "error_drq"} /\ dev'.error # "bus" /\ dev' \in DevSet
    BY <2>2, <1>1, <1>4, <1>5
  <2>6. MovedIn(dir, disk, moved)'
    BY <2>2, <1>1, <1>5
  <2>. QED
    BY <2>1, <2>2, <2>3, <2>4, <2>5, <2>6, <1>1, <1>2, <1>4, WriteCompletes
<1>8. CASE dev.state = "drq"
  <2>1. /\ moved' = Copy(pkt.v_addr, dev.lba, k, TRUE)
        /\ dev' = [dev EXCEPT !.lba = @ + k, !.left = @ - k, !.block = rest,
                              !.state = IF rest > 0 THEN "drq" ELSE "busy"]
        /\ pkt' = [pkt EXCEPT !.wrt_count = k]
        /\ at' = "wait"
    BY <1>8 DEF PollNext
  <2>2. /\ dev.block = Least(dev.left, Factor) /\ dev.irq = FALSE
    <3>1. dev.irq => dev.state = "error"
      BY <1>1, <1>2, <1>6 DEF Writing, Polling
    <3>2. dev.irq \in BOOLEAN
      BY <1>5, DevFields
    <3>3. dev.block = Least(dev.left, Factor)
      BY <1>1, <1>2, <1>3, <1>6, <1>8 DEF Writing, Polling
    <3>. QED
      BY <3>1, <3>2, <3>3, <1>8
  <2>3. /\ k \in Nat /\ k <= pkt.resid /\ k <= dev.block /\ k \in 0 .. N
        /\ rest \in 0 .. N
    <3>1. pkt.bytes_per_block \in {1, Factor}
      BY <1>5, PktFields
    <3>. QED
      BY <3>1, <2>2, <1>4, <1>5 DEF Least
  <2>. DEFINE st == IF rest > 0 THEN "drq" ELSE "busy"
  <2>. HIDE DEF k
  <2>4. st \in {"drq", "busy"} /\ dev.lba + k \in Nat /\ dev.left - k \in 0 .. N
    BY <2>3, <1>4, <1>5
  <2>. HIDE DEF rest, st
  <2>5. dev' = [dev EXCEPT !.lba = dev.lba + k, !.left = dev.left - k, !.block = rest,
                           !.state = st]
    BY <2>1 DEF st
  <2>6. dev' \in DevSet
    BY <2>3, <2>4, <2>5, <1>5 DEF DevSet
  <2>7. /\ dev'.irq = FALSE /\ dev'.lba = dev.lba + k /\ dev'.left = dev.left - k
        /\ dev'.state = st /\ dev'.error = dev.error /\ dev'.first = dev.first
    BY <2>2, <2>5, <1>5 DEF DevSet
  <2>8. /\ pkt' \in PktSet /\ Alike(pkt, pkt') /\ pkt'.wrt_count = k
        /\ pkt'.resid = pkt.resid /\ pkt'.flags = pkt.flags /\ pkt'.v_addr = pkt.v_addr
        /\ pkt'.retry = pkt.retry /\ pkt'.cp_resid = pkt.cp_resid
    <3>1. pkt' \in PktSet
      BY <2>1, <2>3, <1>5 DEF PktSet
    <3>. QED
      BY <3>1, <2>1, <1>5 DEF PktSet, Alike
  <2>9. Before(pkt') = B /\ Counted(pkt') = C /\ pkt'.bytexfer = n /\ pkt'.startsec = s
    BY <2>8 DEF Alike, Before, Counted
  <2>10. Types'
    <3>1. at' \in Places
      BY <2>1 DEF Places
    <3>. QED
      BY <3>1, <2>6, <2>8, <1>1, <1>5 DEF Types
  <2>11. \A j \in 0 .. k - 1 : Place(disk, (B + C) + j) = (s + C) + j
    <3>1. /\ C \in Nat /\ k \in Nat /\ C + k <= pkt.bytexfer
          /\ disk \in Disks /\ pkt \in PktSet /\ Lies(dma, disk, pkt)
      BY <2>3, <1>5
    <3>. QED
      BY ONLY <3>1, SectionPart, ZenonT(40)
  <2>. DEFINE a == B + C  l == s + C
  <2>12. a \in Nat /\ l \in Nat /\ a + k <= N /\ dev.block \in Nat /\ pkt.v_addr = a /\ dev.lba = l
    BY <2>3, <1>4, <1>5
  <2>13. moved' = Move(dir, moved, a, l, k)
    <3>. HIDE DEF a, l
    <3>1. Copy(a, l, k, TRUE) = Move(dir, moved, a, l, k)
      BY ONLY <2>3, <2>12, CopyGood, Zenon
    <3>2. moved' = Copy(a, l, k, TRUE)
      BY <2>1, <2>12
    <3>. QED
      BY ONLY <3>1, <3>2, Zenon
  <2>14. /\ MovedIn(dir, disk, moved') /\ Held(dir, disk, moved', a, k)
         /\ \A i \in 0 .. N - 1 : Kept(dir, disk, moved, i) => Kept(dir, disk, moved', i)
    <3>1. \A j \in 0 .. k - 1 : Place(disk, a + j) = l + j
      BY <2>11
    <3>. HIDE DEF a, l
    <3>. QED
      BY <3>1, <2>3, <2>12, <2>13, <1>5, MoveKeeps
  <2>15. Held(dir, disk, moved', 0, B) /\ Held(dir, disk, moved', B, C)
    <3>1. /\ \A i \in 0 .. 0 + B - 1 : i \in 0 .. N - 1
          /\ \A i \in B .. B + C - 1 : i \in 0 .. N - 1
      BY <1>5
    <3>2. /\ \A i \in 0 .. 0 + B - 1 : Kept(dir, disk, moved, i) => Kept(dir, disk, moved', i)
          /\ \A i \in B .. B + C - 1 : Kept(dir, disk, moved, i) => Kept(dir, disk, moved', i)
      BY <3>1, <2>14
    <3>. QED
      BY <3>2, <1>4, <1>5, HeldKept
  <2>16. Lies(dma, disk, pkt)'
    <3>1. Lies(dma, disk, pkt')
      BY <2>8, <1>5, LiesAlike
    <3>. QED
      BY <3>1, <1>1
  <2>17. Progress(at, dma, pkt, Hit)'
    <3>1. pkt.cp_resid <= n /\ pkt.resid <= n
      BY <1>2, <1>6 DEF Progress, Mis
    <3>. QED
      BY <3>1, <2>1, <2>8, <2>9, <1>1, <1>4, <1>5, <1>6 DEF Progress
  <2>18. Flags(at, dir, dma, pkt)'
    BY <2>1, <2>8, <1>1, <1>2, <1>4 DEF Flags
  <2>19. Sure(at, dir, dma, disk, pkt, moved, faulted, Hit)'
    <3>1. Doubt(at', dir', dma', pkt') = 0
      BY <1>1, <1>2 DEF Doubt, Over
    <3>2. Counted(pkt') - Doubt(at', dir', dma', pkt') = C
      BY <3>1, <2>9, <1>5
    <3>. HIDE DEF B, C
    <3>. QED
      BY <3>2, <2>1, <2>9, <2>15, <1>1 DEF Sure
  <2>20. Going'
    BY <2>16, <2>17, <2>18, <2>19, <1>1, <1>4 DEF Going
  <2>21. Chunk(at', pkt') = k
    BY <2>1, <2>8 DEF Chunk
  <2>22. Writing(at, dir, dma, pkt, dev)'
    <3>1. /\ dev'.left = pkt.resid - k /\ dev'.lba = s + C + k
          /\ dev'.first \in s + C .. dev'.lba
      BY <2>3, <2>7, <1>4, <1>5
    <3>. QED
      BY <3>1, <2>1, <2>3, <2>7, <2>8, <2>9, <2>21, <1>4 DEF Writing, Polling
  <2>23. Written(at, dir, dma, disk, pkt, dev, moved)'
    <3>1. Before(pkt') + Counted(pkt') = a
      BY <2>9
    <3>. HIDE DEF a
    <3>2. Held(dir', disk', moved', Before(pkt') + Counted(pkt'), Chunk(at', pkt'))
      BY <3>1, <2>14, <2>21, <1>1
    <3>. QED
      BY <3>2 DEF Written
  <2>24. Reading(at, dir, dma, pkt, dev)' /\ DmaRuns(at, dir, dma, disk, pkt, dev, moved, faulted)'
    BY <1>1, <1>2 DEF Reading, DmaRuns
  <2>25. Drives(at, dir, dma, dev)'
    BY <2>1, <2>4, <2>7, <1>4 DEF Drives, Working
  <2>26. MovedIn(dir, disk, moved)' /\ at' # "finished" /\ at' # "complete"
         /\ Trouble(dma, pkt, dev, Hit)'
    BY <2>1, <2>14, <1>1, <1>2 DEF Trouble
  <2>. QED
    BY <2>10, <2>20, <2>22, <2>23, <2>24, <2>25, <2>26, StillGoing
       DEF TransferInv, DriveInv, ErrorBlock
<1>. QED
  BY <1>7, <1>8

-----------------------------------------------------------------------------
(* dadk_pktcb, dadk_iodone, dadk_ioretry: the request is at rest, and the  *)
(* next section, another try or the end follows.                           *)

(* What is known of a request at dadk_pktcb or dadk_restart.               *)
LEMMA CallbackFacts ==
  ASSUME TransferInv, at \in {"complete", "backoff"}
  PROVE  /\ Going /\ Lies(dma, disk, pkt) /\ bp = [resid |-> 0, error |-> "none"]
         /\ pkt.retry <= RetryCount /\ pkt.cp_resid = pkt.resid
         /\ ~dma => pkt.v_addr = Before(pkt) + Counted(pkt)
         /\ Held(dir, disk, moved, 0, Before(pkt))
         /\ ~(dma /\ faulted) /\ ~Mis(dma, pkt, Hit) =>
              Held(dir, disk, moved, Before(pkt), Counted(pkt) - Doubt(at, dir, dma, pkt))
         /\ at = "complete" /\ pkt.flags = {} =>
              pkt.resid = 0 /\ Held(dir, disk, moved, Before(pkt), pkt.bytexfer)
BY DEF TransferInv, Going, Progress, Sure

(* What these steps keep, whatever becomes of the request.                 *)
LEMMA Callback ==
  ASSUME TransferInv, at \in {"complete", "backoff"},
         at' \in {"queued", "backoff", "finished"},
         UNCHANGED <<dir, dma, disk, alts, dev, moved, errors, faulted, slow>>,
         pkt' \in PktSet, bp' \in [resid : Nat, error : {"none", "EIO", "ENXIO"}],
         "ERROR" \in pkt'.flags => "ERROR" \in pkt.flags
  PROVE  /\ Types' /\ MovedIn(dir, disk, moved)' /\ DriveInv' /\ ErrorBlock'
         /\ Trouble(dma, pkt, dev, Hit)' /\ Hit' = Hit
<1>1. Types /\ MovedIn(dir, disk, moved) /\ Drives(at, dir, dma, dev)
  BY DEF TransferInv, DriveInv
<1>2. Types'
  <2>1. at' \in Places
    BY DEF Places
  <2>. QED
    BY <2>1, <1>1 DEF Types
<1>3. dev.state # "busy" /\ at' \notin Working
  BY <1>1 DEF Drives, Working
<1>4. DriveInv'
  BY <1>1, <1>3, Settled DEF Drives
<1>5. MovedIn(dir, disk, moved)'
  BY <1>1
<1>6. Hit' = Hit
  BY DEF Hit
<1>7. Trouble(dma, pkt, dev, Hit)'
  BY <1>6 DEF TransferInv, Trouble
<1>. QED
  BY <1>2, <1>4, <1>5, <1>6, <1>7 DEF ErrorBlock

(* The packet, when only the counters of the transfer change.              *)
LEMMA LeftFields ==
  ASSUME NEW p \in PktSet, NEW left \in 0 .. N
  PROVE  [p EXCEPT !.byteleft = left] \in PktSet
BY DEF PktSet

(* ... and when only the retries are counted.                              *)
LEMMA RetryFields ==
  ASSUME NEW p \in PktSet, NEW n \in 0 .. RetryCount + 1
  PROVE  LET r == [p EXCEPT !.retry = n]
         IN /\ r \in PktSet /\ Alike(p, r) /\ r.retry = n /\ r.resid = p.resid
            /\ r.cp_resid = p.cp_resid /\ r.flags = p.flags /\ r.v_addr = p.v_addr
<1>. DEFINE r == [p EXCEPT !.retry = n]
<1>1. r \in PktSet
  BY DEF PktSet
<1>. QED
  BY <1>1 DEF PktSet, Alike

(* A section ends well and there is more to move: dadk_iosetup is ready.   *)
LEMMA NextReady ==
  ASSUME TransferInv, at = "complete", pkt.flags = {}, NEW left,
         left = pkt.byteleft - pkt.bytexfer, left # 0
  PROVE  LET p == [pkt EXCEPT !.byteleft = left, !.retry = 0]
         IN /\ p \in PktSet /\ Ready(dma, disk, p) /\ p.flags = {} /\ p.retry = 0
            /\ p.byteleft = left /\ Before(p) = Before(pkt) + pkt.bytexfer
            /\ p.v_addr = pkt.v_addr
<1>. DEFINE p == [pkt EXCEPT !.byteleft = left, !.retry = 0]
            B == Before(pkt)  n == pkt.bytexfer  L == pkt.secleft - pkt.bytexfer
<1>1. /\ Going /\ Lies(dma, disk, pkt) /\ pkt.resid = 0
      /\ ~dma => pkt.v_addr = B + Counted(pkt)
  BY CallbackFacts
<1>2. /\ N \in Nat /\ pkt \in PktSet /\ B \in 0 .. N - 1 /\ n \in 1 .. N
      /\ B + n <= N /\ pkt.byteleft = N - B /\ pkt.bytexfer = n
      /\ Counted(pkt) = n - pkt.resid /\ pkt.flags = {}
  BY <1>1, GoingFacts
<1>3. left \in 0 .. N /\ left = N - (B + n) /\ 0 \in 0 .. RetryCount + 1
  BY <1>2, TransferAssumption
<1>4. /\ p \in PktSet /\ p.byteleft = left /\ p.retry = 0
      /\ p.secleft = pkt.secleft /\ p.srtsec = pkt.srtsec /\ p.cookies = pkt.cookies
      /\ p.h_idx = pkt.h_idx /\ p.bytexfer = n /\ p.cursor = pkt.cursor
      /\ p.v_addr = pkt.v_addr /\ p.flags = {}
  <2>1. p \in PktSet
    BY <1>2, <1>3 DEF PktSet
  <2>. QED
    BY <2>1, <1>2 DEF PktSet
<1>. HIDE DEF p
<1>5. Before(p) = B + n /\ B + n < N
  BY <1>2, <1>3, <1>4 DEF Before
<1>6. /\ n <= pkt.secleft /\ B + pkt.secleft <= N /\ pkt.secleft \in 0 .. N
      /\ pkt.srtsec \in Nat
      /\ \A j \in 0 .. pkt.secleft - 1 : Place(disk, B + j) = pkt.srtsec + j
      /\ IF pkt.cookies = <<>> THEN B + pkt.secleft = N
         ELSE Behind(disk, pkt, B + pkt.secleft)
      /\ dma => pkt.cookies = <<>> /\ pkt.cursor = B + n
  BY <1>1, <1>2, PktFields DEF Lies
<1>7. L >= 0 /\ (B + n) + L <= N /\ (B + n) + L = B + pkt.secleft /\ L \in Int
  BY <1>2, <1>6
<1>8. \A j \in 0 .. L - 1 : Place(disk, (B + n) + j) = pkt.srtsec + n + j
  <2>1. SUFFICES ASSUME NEW j \in 0 .. L - 1
                 PROVE  Place(disk, (B + n) + j) = pkt.srtsec + n + j
    OBVIOUS
  <2>. DEFINE i == n + j
  <2>2. i \in 0 .. pkt.secleft - 1 /\ (B + n) + j = B + i /\ pkt.srtsec + n + j = pkt.srtsec + i
    <3>1. /\ B \in Int /\ n \in Nat /\ j \in Nat /\ j <= pkt.secleft - n - 1
          /\ pkt.secleft \in Int /\ pkt.srtsec \in Int
      BY <2>1, <1>2, <1>6
    <3>. HIDE DEF B, n
    <3>. QED
      BY ONLY <3>1
  <2>3. Place(disk, B + i) = pkt.srtsec + i
    BY <2>2, <1>6
  <2>. HIDE DEF i
  <2>. QED
    BY <2>2, <2>3
<1>9. p.cookies # <<>> => Behind(disk, p, (B + n) + L)
  <2>1. SUFFICES ASSUME p.cookies # <<>> PROVE Behind(disk, p, (B + n) + L)
    OBVIOUS
  <2>2. Behind(disk, pkt, B + pkt.secleft)
    BY <2>1, <1>4, <1>6
  <2>. DEFINE e == B + pkt.secleft
  <2>3. Behind(disk, p, e)
    BY <2>2, <1>4, BehindSame
  <2>. HIDE DEF e
  <2>4. (B + n) + L = e
    BY <1>7 DEF e
  <2>. QED
    BY <2>3, <2>4
<1>10. Ready(dma, disk, p)
  <2>. DEFINE E == B + n
  <2>1. p.secleft - p.bytexfer = L
    BY <1>4
  <2>2. L # 0 => \A j \in 0 .. L - 1 : Place(disk, E + j) = p.srtsec + p.bytexfer + j
    BY <1>4, <1>8
  <2>3. p.cookies = <<>> => L # 0 /\ E + L = N
    BY <1>2, <1>4, <1>5, <1>6, <1>7
  <2>4. IF dma THEN p.cookies = <<>> /\ p.cursor = E ELSE p.v_addr = E
    BY <1>1, <1>2, <1>4, <1>6
  <2>5. Before(p) = E /\ E < N /\ L >= 0 /\ E + L <= N
    BY <1>5, <1>7
  <2>6. p.cookies # <<>> => Behind(disk, p, E + L)
    BY <1>9
  <2>. HIDE DEF E, L
  <2>. QED
    BY <2>1, <2>2, <2>3, <2>4, <2>5, <2>6 DEF Ready
<1>. QED
  BY <1>4, <1>5, <1>10 DEF p

(* dadk_iodone after a section that ended well.                            *)
LEMMA StepIodone ==
  ASSUME TransferInv, at = "complete", pkt.flags = {}, bp' = bp, Iodone(pkt, bp),
         UNCHANGED <<dir, dma, disk, alts, dev, moved, errors, faulted, slow>>
  PROVE  TransferInv'
<1>. DEFINE B == Before(pkt)  n == pkt.bytexfer  left == pkt.byteleft - pkt.bytexfer
<1>1. /\ Going /\ bp = [resid |-> 0, error |-> "none"] /\ pkt.resid = 0
      /\ ~dma => pkt.v_addr = B + Counted(pkt)
      /\ Held(dir, disk, moved, 0, B) /\ Held(dir, disk, moved, B, n)
  BY CallbackFacts
<1>2. /\ N \in Nat /\ pkt \in PktSet /\ B \in Nat /\ n \in 1 .. N /\ B + n <= N
      /\ pkt.byteleft = N - B /\ pkt.bytexfer = n /\ Counted(pkt) = n - pkt.resid
  BY <1>1, GoingFacts
<1>3. left = N - (B + n) /\ left \in 0 .. N
  BY <1>2
<1>4. bp' \in [resid : Nat, error : {"none", "EIO", "ENXIO"}] /\ bp'.error = "none"
      /\ bp'.resid = 0
  BY <1>1, <1>2
<1>5. Held(dir, disk, moved, 0, B + n)
  <2>1. Held(dir, disk, moved, 0 + B, n) /\ B \in Nat /\ n \in Int /\ 0 \in Int
    <3>1. 0 + B = B
      BY <1>2
    <3>. QED
      BY <3>1, <1>1, <1>2
  <2>. HIDE DEF B, n
  <2>. QED
    BY <2>1, <1>1, HeldJoin
<1>6. CASE left # 0
  <2>. DEFINE p == [pkt EXCEPT !.byteleft = left, !.retry = 0]
  <2>1. pkt' = DadkIosetup(p) /\ at' = "queued"
    BY <1>1, <1>6 DEF Iodone
  <2>2. /\ p \in PktSet /\ Ready(dma, disk, p) /\ p.flags = {} /\ p.retry = 0
        /\ p.byteleft = left /\ Before(p) = B + n /\ p.v_addr = pkt.v_addr
    BY <1>6, NextReady
  <2>. HIDE DEF p
  <2>3. /\ pkt' \in PktSet /\ Lies(dma, disk, pkt') /\ Carried(p, pkt')
        /\ pkt'.resid = pkt'.bytexfer /\ pkt'.cp_resid = pkt'.bytexfer /\ pkt'.flags = {}
    BY <2>1, <2>2, DadkIosetupLies
  <2>4. /\ Before(pkt') = B + n /\ pkt'.retry = 0 /\ pkt'.v_addr = pkt.v_addr
        /\ Counted(pkt') = 0
    <3>1. pkt'.bytexfer \in Nat
      BY <2>3, PktFields
    <3>2. Before(pkt') = Before(p)
      BY <2>3 DEF Carried, Before
    <3>. QED
      BY <3>1, <3>2, <2>2, <2>3 DEF Carried, Counted
  <2>5. Types' /\ MovedIn(dir, disk, moved)' /\ DriveInv' /\ ErrorBlock'
         /\ Trouble(dma, pkt, dev, Hit)' /\ Hit' = Hit
    BY <2>1, <2>3, <1>4, Callback
  <2>6. Progress(at, dma, pkt, Hit)'
    <3>1. pkt'.bytexfer \in Nat
      BY <2>3, PktFields
    <3>2. ~dma => pkt'.v_addr = Before(pkt') + Counted(pkt')
      BY <2>4, <1>1, <1>2
    <3>. QED
      BY <3>1, <3>2, <2>1, <2>3, <2>4, TransferAssumption DEF Progress
  <2>7. Flags(at, dir, dma, pkt)'
    BY <2>1, <2>3 DEF Flags
  <2>8. Sure(at, dir, dma, disk, pkt, moved, faulted, Hit)'
    <3>1. Doubt(at', dir', dma', pkt') = 0
      BY <2>3 DEF Doubt
    <3>2. Counted(pkt') - Doubt(at', dir', dma', pkt') = 0
      BY <3>1, <2>4
    <3>. DEFINE E == B + n
    <3>3. E \in Int /\ Before(pkt') = E /\ Held(dir, disk, moved, 0, E)
      BY <2>4, <1>2, <1>5
    <3>. HIDE DEF E
    <3>4. Held(dir, disk, moved, E, 0)
      BY <3>3, HeldEmpty
    <3>. QED
      BY <3>2, <3>3, <3>4, <2>1 DEF Sure
  <2>9. Lies(dma, disk, pkt)' /\ (bp = [resid |-> 0, error |-> "none"])'
    BY <2>3, <1>1
  <2>10. Going' /\ at' # "finished"
    BY <2>1, <2>6, <2>7, <2>8, <2>9 DEF Going
  <2>. QED
    BY <2>5, <2>10, StillGoing DEF TransferInv
<1>7. CASE left = 0
  <2>1. pkt' = [pkt EXCEPT !.byteleft = left] /\ at' = "finished"
    BY <1>7 DEF Iodone
  <2>2. pkt' \in PktSet
    <3>. HIDE DEF left
    <3>. QED
      BY <2>1, <1>2, <1>3, LeftFields
  <2>3. Types' /\ MovedIn(dir, disk, moved)' /\ DriveInv' /\ ErrorBlock'
         /\ Trouble(dma, pkt, dev, Hit)' /\ Hit' = Hit
    BY <2>1, <2>2, <1>4, Callback
  <2>4. B + n = N
    BY <1>2, <1>3, <1>7
  <2>5. \A i \in 0 .. N - 1 : Kept(dir, disk, moved, i)
    <3>1. Held(dir, disk, moved, 0, N)
      BY <2>4, <1>5
    <3>. QED
      BY <3>1, <1>2 DEF Held
  <2>6. \A i \in 0 .. N - 1 : InPlace(i)'
    BY <2>5 DEF InPlace, OnDisk, Kept, Place
  <2>7. Correct' /\ ErrorResid'
    BY <2>6, <1>4 DEF Correct, ErrorResid
  <2>8. Ended'
    <3>1. pkt'.resid = pkt.resid /\ pkt'.cp_resid = pkt.cp_resid
      BY <2>1, <1>2 DEF PktSet
    <3>2. pkt'.resid = 0 /\ pkt'.cp_resid = 0
      BY <3>1, <1>1, CallbackFacts
    <3>. QED
      BY <3>2, <1>2, <1>4 DEF Ended
  <2>. QED
    BY <2>1, <2>3, <2>7, <2>8 DEF TransferInv
<1>. QED
  BY <1>6, <1>7

(* dadk_ioretry with COMMAND_DONE_ERROR.                                   *)
LEMMA StepGiveUp ==
  ASSUME TransferInv, at \in {"complete", "backoff"},
         NEW p \in PktSet, Alike(pkt, p), p.cp_resid = pkt.cp_resid,
         p.resid = pkt.resid, p.flags = pkt.flags,
         NEW e \in {"EIO", "ENXIO"}, GiveUp(p, e),
         UNCHANGED <<dir, dma, disk, alts, dev, moved, errors, faulted, slow>>
  PROVE  TransferInv'
<1>. DEFINE B == Before(pkt)  n == pkt.bytexfer  C == Counted(pkt)
            R == bp.resid + p.byteleft - p.bytexfer + p.cp_resid
            left == p.byteleft - p.bytexfer  m == Mis(dma, pkt, Hit)
<1>1. /\ Going /\ bp = [resid |-> 0, error |-> "none"] /\ pkt.cp_resid = pkt.resid
      /\ Held(dir, disk, moved, 0, B)
      /\ ~(dma /\ faulted) /\ ~m =>
           Held(dir, disk, moved, B, C - Doubt(at, dir, dma, pkt))
  BY CallbackFacts
<1>2. /\ N \in Nat /\ Factor \in Nat /\ pkt \in PktSet /\ B \in Nat /\ n \in 1 .. N
      /\ B + n <= N /\ pkt.byteleft = N - B /\ pkt.bytexfer = n
      /\ C = n - pkt.resid /\ pkt.resid \in Nat /\ (~m => pkt.resid \in 0 .. n)
  BY <1>1, GoingFacts
<1>. HIDE DEF m
<1>3. /\ p.byteleft = N - B /\ p.bytexfer = n /\ p.cp_resid = pkt.resid /\ bp.resid = 0
  BY <1>1, <1>2 DEF Alike
<1>4. /\ R = N - (B + C) /\ R \in Nat /\ left \in 0 .. N /\ C \in Int
      /\ ~m => R \in 0 .. N /\ C \in 0 .. n
  <2>. HIDE DEF B, C, n
  <2>. QED
    BY <1>2, <1>3
<1>5. /\ bp' = [resid |-> R, error |-> e] /\ at' = "finished"
      /\ pkt' = [p EXCEPT !.byteleft = left]
  <2>. DEFINE b == [resid |-> R, error |-> e]
  <2>1. b.error # "none" /\ bp' = b /\ Iodone(p, b)
    BY DEF GiveUp
  <2>. HIDE DEF b, left
  <2>2. at' = "finished" /\ pkt' = [p EXCEPT !.byteleft = p.byteleft - p.bytexfer]
    BY <2>1 DEF Iodone
  <2>. QED
    BY <2>1, <2>2 DEF b, left
<1>. HIDE DEF R, left
<1>6. /\ bp' \in [resid : Nat, error : {"none", "EIO", "ENXIO"}]
      /\ bp'.error # "none" /\ bp'.resid = R
  BY <1>4, <1>5
<1>7. pkt' \in PktSet
  BY <1>4, <1>5, LeftFields
<1>a. /\ pkt'.flags = pkt.flags /\ pkt'.count = pkt.count
      /\ pkt'.resid = pkt.resid /\ pkt'.cp_resid = pkt.resid
  <2>1. pkt'.flags = p.flags /\ pkt'.count = p.count /\ pkt'.resid = p.resid
        /\ pkt'.cp_resid = p.cp_resid
    BY <1>5 DEF PktSet
  <2>. QED
    BY <2>1, <1>3 DEF Alike
<1>8. Types' /\ MovedIn(dir, disk, moved)' /\ DriveInv' /\ ErrorBlock'
         /\ Trouble(dma, pkt, dev, Hit)' /\ Hit' = Hit
  BY <1>5, <1>6, <1>7, <1>a, Callback
<1>b. m => Misled'
  BY <1>a DEF m, Mis, Hit, Misled
<1>9. ~faulted /\ ~m => \A i \in 0 .. N - R - 1 - Over(dir, dma) : Kept(dir, disk, moved, i)
  <2>1. SUFFICES ASSUME ~faulted, ~m, NEW i \in 0 .. N - R - 1 - Over(dir, dma)
                 PROVE  Kept(dir, disk, moved, i)
    OBVIOUS
  <2>. DEFINE o == Over(dir, dma)  q == Doubt(at, dir, dma, pkt)  x == C - q
  <2>2. o \in Nat /\ q \in {0, o}
    BY <1>2 DEF Over, Doubt
  <2>3. Held(dir, disk, moved, B, x)
    BY <2>1, <1>1
  <2>. HIDE DEF o, q, B, C, n
  <2>4. /\ i \in Int /\ 0 <= i /\ i <= N - R - 1 - o
    BY <2>1, <2>2, <1>2, <1>4 DEF o
  <2>5. i < B + C - q
    BY <2>2, <2>4, <1>2, <1>4
  <2>6. x \in Int /\ i < B + x
    BY <2>2, <2>5, <2>4, <1>2, <1>4
  <2>. HIDE DEF x
  <2>7. CASE i < B
    <3>1. i \in 0 .. 0 + B - 1
      BY <2>4, <2>7, <1>2
    <3>. QED
      BY <3>1, <1>1 DEF Held
  <2>8. CASE i >= B
    <3>1. i \in B .. B + x - 1
      BY <2>4, <2>6, <2>8, <1>2
    <3>. QED
      BY <3>1, <2>3 DEF Held
  <2>. QED
    BY <2>4, <2>7, <2>8, <1>2
<1>10. ErrorResid' /\ Correct'
  <2>1. Overcount' = Over(dir, dma)
    BY DEF Overcount, Over
  <2>2. ~faulted /\ ~m => \A i \in 0 .. N - R - 1 - Over(dir, dma) : InPlace(i)'
    BY <1>9 DEF InPlace, OnDisk, Kept, Place
  <2>3. ~faulted' /\ ~m =>
                     /\ bp'.resid \in 0 .. N
                     /\ \A i \in 0 .. N - bp'.resid - 1 - Overcount' : InPlace(i)'
    BY <2>1, <2>2, <1>4, <1>6
  <2>. QED
    BY <2>3, <1>6, <1>b DEF ErrorResid, Correct
<1>11. Ended'
  <2>1. ~m => {pkt'.resid, pkt'.cp_resid, bp'.resid} \subseteq 0 .. N
    BY <1>2, <1>4, <1>6, <1>a
  <2>. QED
    BY <2>1, <1>b DEF Ended
<1>. QED
  BY <1>5, <1>8, <1>10, <1>11 DEF TransferInv

(* A DMA section is tried again as it stands.                              *)
LEMMA StepAgainDma ==
  ASSUME TransferInv, at \in {"complete", "backoff"}, dma,
         NEW q \in PktSet, Alike(pkt, q), q.resid = pkt.resid,
         q.cp_resid = pkt.cp_resid, q.retry <= RetryCount,
         pkt' = [q EXCEPT !.flags = {}], at' = "queued", bp' = bp,
         UNCHANGED <<dir, dma, disk, alts, dev, moved, errors, faulted, slow>>
  PROVE  TransferInv'
<1>1. /\ Going /\ bp = [resid |-> 0, error |-> "none"] /\ Lies(dma, disk, pkt)
      /\ Held(dir, disk, moved, 0, Before(pkt))
      /\ ~(dma /\ faulted) /\ ~Mis(dma, pkt, Hit) =>
           Held(dir, disk, moved, Before(pkt), Counted(pkt) - Doubt(at, dir, dma, pkt))
      /\ pkt.cp_resid = pkt.resid
  BY CallbackFacts
<1>2. /\ N \in Nat /\ pkt \in PktSet /\ pkt.resid \in Nat /\ pkt.bytexfer \in 1 .. N
      /\ ~Mis(dma, pkt, Hit) => pkt.resid \in 0 .. pkt.bytexfer
  BY <1>1, GoingFacts
<1>3. /\ pkt' \in PktSet /\ Alike(pkt, pkt') /\ pkt'.flags = {}
      /\ pkt'.resid = pkt.resid /\ pkt'.cp_resid = pkt.cp_resid /\ pkt'.retry <= RetryCount
  <2>1. {} \in SUBSET {"ERROR", "TIMEOUT", "BUS_RESET"}
    OBVIOUS
  <2>2. pkt' \in PktSet
    BY <2>1 DEF PktSet
  <2>. QED
    BY <2>2 DEF PktSet, Alike
<1>4. /\ Before(pkt') = Before(pkt) /\ Counted(pkt') = Counted(pkt)
      /\ pkt'.bytexfer = pkt.bytexfer /\ pkt'.count = pkt.count
  BY <1>3 DEF Alike, Before, Counted
<1>5. bp' \in [resid : Nat, error : {"none", "EIO", "ENXIO"}]
  BY <1>1, <1>2
<1>6. Types' /\ MovedIn(dir, disk, moved)' /\ DriveInv' /\ ErrorBlock'
         /\ Trouble(dma, pkt, dev, Hit)' /\ Hit' = Hit
  BY <1>3, <1>5, Callback
<1>7. Lies(dma, disk, pkt)'
  <2>1. Lies(dma, disk, pkt')
    BY <1>1, <1>3, LiesAlike
  <2>. QED
    BY <2>1
<1>m. Mis(dma', pkt', Hit') <=> Mis(dma, pkt, Hit)
  BY <1>4, <1>6 DEF Mis
<1>8. Progress(at, dma, pkt, Hit)' /\ Flags(at, dir, dma, pkt)'
  <2>1. Progress(at, dma, pkt, Hit)'
    <3>1. Mis(dma', pkt', Hit') \/ (pkt'.resid <= pkt'.bytexfer /\ pkt'.cp_resid <= pkt'.bytexfer)
      <4>1. Mis(dma, pkt, Hit) \/ pkt.resid <= pkt.bytexfer
        <5>1. Progress(at, dma, pkt, Hit)
          BY <1>1 DEF Going
        <5>. QED
          BY <5>1 DEF Progress
      <4>. QED
        BY <4>1, <1>1, <1>3, <1>4, <1>m
    <3>. QED
      BY <3>1, <1>3 DEF Progress
  <2>2. Flags(at, dir, dma, pkt)'
    BY <1>3 DEF Flags
  <2>. QED
    BY <2>1, <2>2
<1>9. Sure(at, dir, dma, disk, pkt, moved, faulted, Hit)'
  <2>1. Doubt(at, dir, dma, pkt) = 0 /\ Doubt(at', dir', dma', pkt') = 0
    BY DEF Doubt, Over
  <2>2. ~(dma' /\ faulted') /\ ~Mis(dma', pkt', Hit') =>
          Held(dir', disk', moved', Before(pkt'), Counted(pkt') - Doubt(at', dir', dma', pkt'))
    BY <2>1, <1>1, <1>4, <1>m
  <2>3. Held(dir', disk', moved', 0, Before(pkt'))
    BY <1>1, <1>4
  <2>. QED
    BY <2>2, <2>3 DEF Sure
<1>10. Going' /\ at' # "finished"
  BY <1>1, <1>7, <1>8, <1>9 DEF Going
<1>. QED
  BY <1>6, <1>10, StillGoing DEF TransferInv

(* A PIO section is tried again from its start, one sector at first.       *)
LEMMA StepAgainPio ==
  ASSUME TransferInv, at \in {"complete", "backoff"}, ~dma,
         NEW q \in PktSet, Alike(pkt, q), q.retry <= RetryCount,
         pkt' = SetSection([q EXCEPT !.bytes_per_block = 1, !.v_addr = q.v_addr_sav], 1),
         at' = "queued", bp' = bp,
         UNCHANGED <<dir, dma, disk, alts, dev, moved, errors, faulted, slow>>
  PROVE  TransferInv'
<1>. DEFINE z == [q EXCEPT !.bytes_per_block = 1, !.v_addr = q.v_addr_sav]
            B == Before(pkt)
<1>1. /\ Going /\ bp = [resid |-> 0, error |-> "none"] /\ Lies(dma, disk, pkt)
      /\ Held(dir, disk, moved, 0, B)
  BY CallbackFacts
<1>2. /\ N \in Nat /\ MaxTransfer \in Nat \ {0} /\ pkt \in PktSet /\ B \in Nat
      /\ pkt.bytexfer \in 1 .. N
  BY <1>1, GoingFacts
<1>3. /\ z \in PktSet /\ z.byteleft = q.byteleft /\ z.secleft = q.secleft
      /\ z.srtsec = q.srtsec /\ z.cookies = q.cookies /\ z.h_idx = q.h_idx
      /\ z.v_addr = q.v_addr_sav /\ z.v_addr_sav = q.v_addr_sav /\ z.retry = q.retry
  <2>1. q.v_addr_sav \in 0 .. N
    BY PktFields
  <2>2. z \in PktSet
    BY <2>1 DEF PktSet
  <2>. QED
    BY <2>2 DEF PktSet
<1>. HIDE DEF z
<1>4. /\ z.byteleft = pkt.byteleft /\ z.secleft = pkt.secleft /\ z.srtsec = pkt.srtsec
      /\ z.cookies = pkt.cookies /\ z.h_idx = pkt.h_idx
      /\ z.v_addr = pkt.v_addr_sav /\ z.v_addr_sav = pkt.v_addr_sav
  BY <1>3 DEF Alike
<1>5. Before(z) = B
  BY <1>4 DEF Before
<1>6. Fits(dma, disk, z) /\ 1 <= z.secleft
  <2>1. /\ pkt.bytexfer <= pkt.secleft /\ B + pkt.secleft <= N
        /\ \A j \in 0 .. pkt.secleft - 1 : Place(disk, B + j) = pkt.srtsec + j
        /\ IF pkt.cookies = <<>> THEN B + pkt.secleft = N
           ELSE Behind(disk, pkt, B + pkt.secleft)
        /\ pkt.v_addr_sav = B
    BY <1>1 DEF Lies
  <2>2. pkt.secleft \in 0 .. N
    BY <1>2, PktFields
  <2>3. 0 < pkt.secleft /\ 1 <= pkt.secleft
    BY <2>1, <2>2, <1>2
  <2>. DEFINE e == B + pkt.secleft
  <2>4. pkt.cookies # <<>> => Behind(disk, z, e)
    BY <2>1, <1>4, BehindSame
  <2>5. e = Before(z) + z.secleft
    BY <1>4, <1>5
  <2>6. e <= N /\ (pkt.cookies = <<>> => e = N)
    BY <2>1
  <2>. HIDE DEF e
  <2>7. IF z.cookies = <<>> THEN Before(z) + z.secleft = N
        ELSE Behind(disk, z, Before(z) + z.secleft)
    BY <2>4, <2>5, <2>6, <1>4
  <2>8. \A j \in 0 .. z.secleft - 1 : Place(disk, Before(z) + j) = z.srtsec + j
    BY <2>1, <1>4, <1>5
  <2>. QED
    BY <2>1, <2>3, <2>5, <2>6, <2>7, <2>8, <1>4, <1>5 DEF Fits
<1>7. /\ pkt' \in PktSet /\ Lies(dma, disk, pkt') /\ Carried(z, pkt')
      /\ pkt'.resid = pkt'.bytexfer /\ pkt'.cp_resid = pkt'.bytexfer /\ pkt'.flags = {}
  <2>1. 1 \in 1 .. MaxTransfer
    BY <1>2
  <2>2. pkt' = SetSection(z, 1)
    BY DEF z
  <2>. QED
    BY <2>1, <2>2, <1>3, <1>6, SectionLies
<1>8. /\ Before(pkt') = B /\ Counted(pkt') = 0 /\ pkt'.v_addr = B
      /\ pkt'.retry <= RetryCount /\ pkt'.bytexfer \in Nat
  <2>1. pkt'.bytexfer \in Nat
    BY <1>7, PktFields
  <2>2. Before(pkt') = B
    BY <1>5, <1>7 DEF Carried, Before
  <2>3. z.v_addr = B
    BY <1>1, <1>4 DEF Lies
  <2>. QED
    BY <2>1, <2>2, <2>3, <1>3, <1>7 DEF Carried, Counted
<1>9. bp' \in [resid : Nat, error : {"none", "EIO", "ENXIO"}]
  BY <1>1, <1>2
<1>10. Types' /\ MovedIn(dir, disk, moved)' /\ DriveInv' /\ ErrorBlock'
         /\ Trouble(dma, pkt, dev, Hit)' /\ Hit' = Hit
  BY <1>7, <1>9, Callback
<1>11. Progress(at, dma, pkt, Hit)' /\ Flags(at, dir, dma, pkt)'
  <2>1. pkt'.v_addr = Before(pkt') + Counted(pkt')
    BY <1>2, <1>8
  <2>2. Progress(at, dma, pkt, Hit)'
    BY <2>1, <1>7, <1>8 DEF Progress
  <2>3. Flags(at, dir, dma, pkt)'
    BY <1>7 DEF Flags
  <2>. QED
    BY <2>2, <2>3
<1>12. Sure(at, dir, dma, disk, pkt, moved, faulted, Hit)'
  <2>1. Counted(pkt') - Doubt(at', dir', dma', pkt') = 0
    BY <1>7, <1>8 DEF Doubt
  <2>. HIDE DEF B
  <2>2. Held(dir, disk, moved, B, 0)
    BY <1>2, HeldEmpty
  <2>. QED
    BY <2>1, <2>2, <1>1, <1>8 DEF Sure
<1>13. Going' /\ at' # "finished"
  <2>1. Lies(dma, disk, pkt)' /\ (bp = [resid |-> 0, error |-> "none"])'
    BY <1>1, <1>7
  <2>. QED
    BY <2>1, <1>11, <1>12 DEF Going
<1>. QED
  BY <1>10, <1>13, StillGoing DEF TransferInv

(* dadk_ioretry with QUE_COMMAND: another try, or the end.                 *)
LEMMA StepRetry ==
  ASSUME TransferInv, at \in {"complete", "backoff"}, "ERROR" \in pkt.flags, Retry,
         UNCHANGED <<dir, dma, disk, alts, dev, moved, errors, faulted, slow>>
  PROVE  TransferInv'
<1>. DEFINE n == pkt.retry + 1  q == [pkt EXCEPT !.retry = n]
<1>1. Going /\ pkt.retry <= RetryCount
  BY CallbackFacts
<1>2. pkt \in PktSet /\ pkt.retry \in 0 .. RetryCount
  BY <1>1, GoingFacts
<1>3. n \in 0 .. RetryCount + 1 /\ n \in Int
  BY <1>2, TransferAssumption
<1>4. /\ Retry
      /\ [pkt EXCEPT !.retry = @ + 1] = q
  OBVIOUS
<1>5. /\ q \in PktSet /\ Alike(pkt, q) /\ q.retry = n /\ q.resid = pkt.resid
      /\ q.cp_resid = pkt.cp_resid /\ q.flags = pkt.flags
  <2>. HIDE DEF n
  <2>. QED
    BY <1>2, <1>3, RetryFields
<1>6. CASE pkt.retry < RetryCount
  <2>1. pkt' = Iosetup(q) /\ at' = "queued" /\ bp' = bp
    BY <1>4, <1>6 DEF Retry
  <2>2. q.retry <= RetryCount
    BY <1>2, <1>5, <1>6, TransferAssumption
  <2>. HIDE DEF q
  <2>3. CASE dma
    <3>1. pkt' = [q EXCEPT !.flags = {}]
      BY <2>1, <2>3, <1>5 DEF Iosetup
    <3>. QED
      BY <3>1, <2>1, <2>2, <2>3, <1>5, StepAgainDma
  <2>4. CASE ~dma
    <3>1. pkt' = SetSection([q EXCEPT !.bytes_per_block = 1, !.v_addr = q.v_addr_sav], 1)
      BY <2>1, <2>4, <1>5 DEF Iosetup
    <3>. QED
      BY <3>1, <2>1, <2>2, <2>4, <1>5, StepAgainPio
  <2>. QED
    BY <2>3, <2>4
<1>7. CASE ~(pkt.retry < RetryCount)
  <2>1. GiveUp(q, "ENXIO")
    BY <1>4, <1>7 DEF Retry
  <2>. HIDE DEF q
  <2>. QED
    BY <2>1, <1>5, StepGiveUp
<1>. QED
  BY <1>6, <1>7

(* JUST_RETURN: the request rests until dadk_restart.                      *)
LEMMA StepBackoff ==
  ASSUME TransferInv, at = "complete", "ERROR" \in pkt.flags, at' = "backoff",
         UNCHANGED <<pkt, bp, dir, dma, disk, alts, dev, moved, errors, faulted, slow>>
  PROVE  TransferInv'
<1>1. /\ Going /\ bp = [resid |-> 0, error |-> "none"] /\ Lies(dma, disk, pkt)
      /\ Progress(at, dma, pkt, Hit) /\ Sure(at, dir, dma, disk, pkt, moved, faulted, Hit)
  BY CallbackFacts DEF Going
<1>2. N \in Nat /\ pkt \in PktSet
  BY <1>1, GoingFacts
<1>3. Types' /\ MovedIn(dir, disk, moved)' /\ DriveInv' /\ ErrorBlock'
         /\ Trouble(dma, pkt, dev, Hit)' /\ Hit' = Hit
  <2>1. bp' \in [resid : Nat, error : {"none", "EIO", "ENXIO"}]
    BY <1>1, <1>2
  <2>. QED
    BY <2>1, <1>2, Callback
<1>4. Progress(at, dma, pkt, Hit)' /\ Flags(at, dir, dma, pkt)'
  BY <1>1, <1>3 DEF Progress, Flags
<1>5. Sure(at, dir, dma, disk, pkt, moved, faulted, Hit)'
  BY <1>1, <1>3 DEF Sure, Doubt
<1>6. Going' /\ at' # "finished"
  BY <1>1, <1>4, <1>5 DEF Going
<1>. QED
  BY <1>3, <1>6, StillGoing DEF TransferInv

(* dadk_pktcb does what dadk_errtab says.                                  *)
LEMMA StepPktcb ==
  ASSUME TransferInv, Pktcb
  PROVE  TransferInv'
<1>1. /\ at = "complete"
      /\ CASE Action = "COMMAND_DONE"       -> bp' = bp /\ Iodone(pkt, bp)
           [] Action = "QUE_COMMAND"        -> Retry
           [] Action = "COMMAND_DONE_ERROR" -> GiveUp(pkt, "EIO")
           [] Action = "JUST_RETURN"        -> at' = "backoff" /\ UNCHANGED <<pkt, bp>>
      /\ UNCHANGED <<dir, dma, disk, alts, dev, moved, errors, faulted, slow>>
  BY DEF Pktcb
<1>2. /\ Action \in {"COMMAND_DONE", "QUE_COMMAND", "COMMAND_DONE_ERROR", "JUST_RETURN"}
      /\ Action = "COMMAND_DONE" => pkt.flags = {}
      /\ Action \in {"QUE_COMMAND", "JUST_RETURN"} => "ERROR" \in pkt.flags
  BY DEF Action
<1>3. CASE Action = "COMMAND_DONE"
  BY <1>1, <1>2, <1>3, StepIodone
<1>4. CASE Action = "QUE_COMMAND"
  BY <1>1, <1>2, <1>4, StepRetry
<1>5. CASE Action = "COMMAND_DONE_ERROR"
  <2>1. pkt \in PktSet /\ Alike(pkt, pkt) /\ GiveUp(pkt, "EIO")
    BY <1>1, <1>5 DEF TransferInv, Types, Alike
  <2>. QED
    BY <2>1, <1>1, StepGiveUp
<1>6. CASE Action = "JUST_RETURN"
  BY <1>1, <1>2, <1>6, StepBackoff
<1>. QED
  BY <1>2, <1>3, <1>4, <1>5, <1>6

(* dadk_restart tries again.                                               *)
LEMMA StepRestart ==
  ASSUME TransferInv, Restart
  PROVE  TransferInv'
<1>1. at = "backoff" /\ Retry
      /\ UNCHANGED <<dir, dma, disk, alts, dev, moved, errors, faulted, slow>>
  BY DEF Restart
<1>2. "ERROR" \in pkt.flags
  BY <1>1, CallbackFacts DEF Going, Flags
<1>. QED
  BY <1>1, <1>2, StepRetry

(* Every step keeps the invariant.                                         *)
LEMMA StepInv ==
  ASSUME TransferInv, [Next]_vars
  PROVE  TransferInv'
<1>1. CASE DevReady
  BY <1>1, StepDevReady
<1>2. CASE \E e \in {"UNC", "ABRT"} : DevError(e)
  BY <1>2, StepDevError
<1>3. CASE \E k \in 0 .. N, e \in {"none", "UNC", "ABRT"} \cup
                              (IF DmaFaults THEN {"bus"} ELSE {}) : DmaDone(k, e)
  <2>1. PICK k \in 0 .. N, e \in {"none", "UNC", "ABRT", "bus"} : DmaDone(k, e)
    BY <1>3
  <2>. QED
    BY <2>1, StepDmaDone
<1>4. CASE Start
  BY <1>4, StepStart
<1>5. CASE PollStart
  BY <1>5, StepPollStart
<1>6. CASE IntrPioIn
  BY <1>6, StepIntrPioIn
<1>7. CASE IntrPioOut
  BY <1>7, StepIntrPioOut
<1>8. CASE PollNext
  BY <1>8, StepPollNext
<1>9. CASE PollNextBusy
  BY <1>9, StepPollNextBusy
<1>10. CASE IntrDma
  BY <1>10, StepIntrDma
<1>11. CASE Pktcb
  BY <1>11, StepPktcb
<1>12. CASE Restart
  BY <1>12, StepRestart
<1>13. CASE Timeout
  BY <1>13, StepTimeout
<1>14. CASE UNCHANGED vars
  BY <1>14
     DEF vars, TransferInv, Types, DriveInv, Going, ErrorBlock, Correct,
         ErrorResid, Ended, Misled, Hit, Overcount, InPlace, OnDisk
<1>15. CASE Done
  BY <1>14, <1>15 DEF Done
<1>16. CASE IntrPioInBusy
  BY <1>16, StepIntrPioInBusy
<1>17. CASE IntrDmaStuck
  BY <1>17, StepIntrDmaStuck
<1>. QED
  BY <1>1, <1>2, <1>3, <1>4, <1>5, <1>6, <1>7, <1>8, <1>9, <1>10, <1>11, <1>12, <1>13,
     <1>14, <1>15, <1>16, <1>17
     DEF Next, Drive, Driver

-----------------------------------------------------------------------------
(* The theorems about a transfer.                                          *)

(* The invariant of every transfer by PIO, and of every transfer by DMA    *)
(* that meets no bad sector: Unmapped speaks of the first state. A DMA     *)
(* that meets one is the known exception (ata_disk_iosetup takes the       *)
(* cookies of the whole buffer for each piece between bad sectors).        *)
THEOREM TransferInvariant ==
  Spec /\ Unmapped => []TransferInv
<1>1. Init /\ Unmapped => TransferInv
  BY InitInv
<1>2. TransferInv /\ [Next]_vars => TransferInv'
  BY StepInv
<1>. QED
  BY <1>1, <1>2, PTL DEF Spec

(* dadk_iodone: a transfer that ends without an error has moved every      *)
(* sector between its place in the buffer and its place on the disk, and   *)
(* leaves no residual, whatever the number and the size of its sections,   *)
(* windows, cookies, DRQ blocks and retries.                               *)
THEOREM TransferCorrect ==
  Spec /\ Unmapped => []Correct
<1>1. TransferInv => Correct
  BY DEF TransferInv
<1>. QED
  BY <1>1, TransferInvariant, PTL

(* dadk_ioretry, ata_disk_get_resid: a transfer that ends with an error    *)
(* has moved the sectors that b_resid does not count, but for the DRQ      *)
(* block a PIO read may count too much, unless the section at fault is a   *)
(* DMA whose count register holds 0.                                       *)
THEOREM TransferErrorResid ==
  Spec /\ Unmapped => []ErrorResid
<1>1. TransferInv => ErrorResid
  BY DEF TransferInv
<1>. QED
  BY <1>1, TransferInvariant, PTL

(* ata_disk_intr_dma, ata_disk_get_resid: cp_resid of a failed DMA names   *)
(* the sector that the drive reports bad when the count register held the  *)
(* length of the section, and is a register's range short when it held 0.  *)
THEOREM TransferErrorBlock ==
  Spec /\ Unmapped => []ErrorBlock
<1>1. TransferInv => ErrorBlock
  BY DEF TransferInv
<1>. QED
  BY <1>1, TransferInvariant, PTL

(* ata_disk_pio_xfer_data_in and _out, ghd_dmaget_attr, cmdk_bbh_bsearch:  *)
(* no sector is moved outside the buffer, none is written on the disk but  *)
(* to the good sectors asked for and the alternates of the bad ones, and   *)
(* no residual wraps but those that ata_disk_get_resid computes from a     *)
(* count register of 0.                                                    *)
THEOREM TransferInBounds ==
  Spec /\ Unmapped => []InBounds
<1>1. ASSUME TransferInv
      PROVE  InBounds
  <2>1. Types /\ MovedIn(dir, disk, moved)
    BY <1>1 DEF TransferInv
  <2>2. pkt \in PktSet
    BY <2>1 DEF Types
  <2>3. Misled \/ {pkt.resid, pkt.cp_resid, bp.resid} \subseteq 0 .. N
    <3>1. CASE at = "finished"
      BY <3>1, <1>1 DEF TransferInv, Ended
    <3>2. CASE at # "finished"
      <4>1. /\ Lies(dma, disk, pkt) /\ Progress(at, dma, pkt, Hit)
            /\ bp = [resid |-> 0, error |-> "none"]
        BY <3>2, <1>1 DEF TransferInv, Going
      <4>2. Mis(dma, pkt, Hit) \/ (pkt.resid <= pkt.bytexfer /\ pkt.cp_resid <= pkt.bytexfer)
        BY <4>1 DEF Progress
      <4>3. Mis(dma, pkt, Hit) => Misled
        BY DEF Mis, Hit, Misled
      <4>4. /\ pkt.bytexfer \in 0 .. N /\ pkt.resid \in Nat /\ pkt.cp_resid \in Nat
            /\ N \in Nat
        BY <2>2, PktFields, TransferAssumption
      <4>. QED
        BY <4>1, <4>2, <4>3, <4>4
    <3>. QED
      BY <3>1, <3>2
  <2>5. bp.error \in {"none", "EIO", "ENXIO"}
    BY <2>1 DEF Types
  <2>6. TypeOK
    BY <2>1, <2>2, <2>5, PktFields DEF Types, TypeOK
  <2>7. \A i : OnDisk(i) = Place(disk, i)
    BY DEF OnDisk, Place
  <2>8. IF dir = "read" THEN DOMAIN moved \subseteq 0 .. N - 1
        ELSE /\ DOMAIN moved \subseteq {OnDisk(i) : i \in 0 .. N - 1}
             /\ \A i \in DOMAIN moved : moved[i] \in 0 .. N - 1
    BY <2>1, <2>7 DEF MovedIn
  <2>. QED
    BY <2>3, <2>6, <2>8 DEF InBounds
<1>2. TransferInv => InBounds
  BY <1>1
<1>. QED
  BY <1>2, TransferInvariant, PTL

(* All of it at once, for a system in which no DMA meets a bad sector.     *)
COROLLARY TransferSafe ==
  ASSUME ~DmaRemap
  PROVE  Spec => [](Correct /\ InBounds /\ ErrorResid /\ ErrorBlock)
<1>1. Init => Unmapped
  BY DEF Init, Unmapped
<1>. QED
  BY <1>1, TransferCorrect, TransferInBounds, TransferErrorResid, TransferErrorBlock, PTL
     DEF Spec
=============================================================================
