----------------------------- MODULE BootProofs -----------------------------
(***************************************************************************)
(* The load loop of the boot sector, for disks of any size and geometry.   *)
(***************************************************************************)
EXTENDS Boot, TLAPS

(* The heads the loop counts: 256, kept as 0, count as one.                *)
H == IF disk.heads = 256 THEN 1 ELSE disk.heads

InOrder(n) == [k \in 0 .. (n - 1) |-> k + 1]

(* n sectors are in low memory, and the loop is at the sector after them.  *)
Loading(n) ==
  /\ bx = SectorBytes * n
  /\ n + 1 = (pos.ch * H + pos.dh) * disk.spt + pos.cl - 1
  /\ Countable => low = InOrder(n)

Counters ==
  /\ es = KERNEL_LOAD_SEG
  /\ sectors_per_track = disk.spt
  /\ heads = disk.heads % 256
  /\ pos \in [ch : 0 .. 255, dh : 0 .. 255, cl : Nat]
  /\ pos.dh < H /\ 1 <= pos.cl /\ pos.cl <= disk.spt

(* What is left behind when the loop ends without overwriting itself.      *)
Loaded ==
  \E n \in 0 .. 60 : /\ Countable => low = InOrder(n)
                     /\ Countable /\ ~failed => disk.sectors <= n + 1

BootInv ==
  /\ disk \in Disks
  /\ pc = "start" => low = << >> /\ es = KERNEL_LOAD_SEG /\ bx = 0 /\ pos = [ch |-> 0, dh |-> 0, cl |-> 2]
  /\ pc = "load" => Counters /\ \E n \in 0 .. 59 : Loading(n)
  /\ pc \in {"loaded", "kmain", "format", "running"} => Loaded
  /\ pc = "lost" => disk.sectors > 60
  /\ KernelArrives
  /\ LoadedInOrder

(* What the assumption on the disks says of the one in the drive.          *)
LEMMA Geometry ==
  ASSUME disk \in Disks
  PROVE  /\ disk.spt \in 2 .. 63 /\ disk.heads \in 1 .. 256 /\ H \in 1 .. 255
         /\ disk.kernel \in Nat /\ disk.sectors \in Nat /\ disk.kernel < disk.sectors
         /\ Countable => H = disk.heads
         /\ H <= disk.heads
  BY BootAssumption DEF H, Countable

(* An ordered prefix and the next sector make a longer ordered prefix.     *)
LEMMA OneMore ==
  ASSUME NEW n \in Nat
  PROVE  [k \in DOMAIN InOrder(n) \cup {n} |-> IF k = n THEN n + 1 ELSE InOrder(n)[k]] = InOrder(n + 1)
<1>1. DOMAIN InOrder(n) \cup {n} = 0 .. n
  BY DEF InOrder
<1>2. QED
  BY <1>1 DEF InOrder

(* The three steps of the nested counters, for a linear number of sectors. *)
LEMMA NextHead ==
  ASSUME NEW c \in Nat, NEW d \in Nat, NEW h \in Nat, NEW s \in Nat
  PROVE  (c * h + (d + 1)) * s = (c * h + d) * s + s
  BY SMT

LEMMA NextCylinder ==
  ASSUME NEW c \in Nat, NEW d \in Nat, NEW h \in Nat, NEW s \in Nat, d + 1 = h
  PROVE  ((c + 1) * h + 0) * s = (c * h + d) * s + s
<1>1. (c + 1) * h + 0 = c * h + d + 1
  BY SMT
<1>2. QED
  BY <1>1, NextHead

(* Few sectors are read long before the cylinder number wraps.             *)
LEMMA CylinderBound ==
  ASSUME NEW c \in Nat, NEW d \in Nat, NEW h \in Nat \ {0}, NEW s \in Nat \ {0}
  PROVE  c <= (c * h + d) * s
<1>1. c * h \in Nat /\ c <= c * h
  BY SMT
<1>2. \A x \in Nat : x <= x * s
  BY SMT
<1>3. c * h + d \in Nat
  BY <1>1
<1>4. QED
  BY <1>1, <1>2, <1>3

(* With more heads the same position lies further on.                      *)
LEMMA MoreHeads ==
  ASSUME NEW c \in Nat, NEW d \in Nat, NEW h \in Nat, NEW g \in Nat, NEW s \in Nat, h <= g
  PROVE  (c * h + d) * s <= (c * g + d) * s
<1>1. c * h <= c * g /\ c * h \in Nat /\ c * g \in Nat
  BY SMT
<1>2. \A x, y \in Nat : x <= y => x * s <= y * s
  BY SMT
<1>3. QED
  BY <1>1, <1>2

LEMMA InitEstablishes == Init => BootInv
<1> SUFFICES ASSUME Init PROVE BootInv
  OBVIOUS
<1>1. disk \in Disks /\ pc = "start" /\ low = << >> /\ es = KERNEL_LOAD_SEG /\ bx = 0
      /\ pos = [ch |-> 0, dh |-> 0, cl |-> 2]
  BY DEF Init
<1>2. low = InOrder(0)
  BY <1>1, SMT DEF InOrder
<1>3. LoadedInOrder
  BY <1>2 DEF LoadedInOrder, InOrder, CopiedSlots
<1>4. KernelArrives
  BY <1>1 DEF KernelArrives
<1>5. QED
  BY <1>1, <1>3, <1>4 DEF BootInv

(* Where the loop stands, as plain numbers.                                *)
LEMMA AtSlot ==
  ASSUME disk \in Disks, Counters, NEW n \in 0 .. 59, Loading(n)
  PROVE  /\ Slot = n /\ Lba \in Nat /\ n + 1 <= Lba
         /\ Countable => Lba = n + 1
         /\ pos.ch <= 60
<1>1. /\ pos.ch \in Nat /\ pos.dh \in Nat /\ pos.cl \in Nat /\ 1 <= pos.cl
      /\ disk.spt \in Nat \ {0} /\ disk.heads \in Nat /\ H \in Nat \ {0} /\ H <= disk.heads
  BY Geometry DEF Counters
<1> DEFINE b == (pos.ch * H + pos.dh) * disk.spt
           a == (pos.ch * disk.heads + pos.dh) * disk.spt
<1>2. a \in Nat /\ b \in Nat
  BY <1>1, SMT
<1>3. b <= a
  BY <1>1, MoreHeads
<1>4. pos.ch <= b
  BY <1>1, CylinderBound
<1>5. n + 1 = b + pos.cl - 1 /\ Lba = a + pos.cl - 1
  BY DEF Loading, Lba
<1>6. Slot = n
  <2>1. es = 80 /\ bx = 512 * n
    BY DEF Counters, Loading, KERNEL_LOAD_SEG, SectorBytes
  <2>2. QED
    BY <2>1 DEF Slot, SectorBytes
<1>7. Countable => a = b
  BY Geometry
<1> HIDE DEF a, b
<1>8. QED
  BY <1>1, <1>2, <1>3, <1>4, <1>5, <1>6, <1>7

LEMMA StartKeeps == BootInv /\ GetParameters => BootInv'
<1> SUFFICES ASSUME BootInv, GetParameters PROVE BootInv'
  OBVIOUS
<1>1. /\ pc = "start" /\ pc' = "load" /\ disk' = disk /\ pos' = pos /\ es' = es /\ bx' = bx
      /\ low' = low /\ high' = high /\ failed' = failed
      /\ sectors_per_track' = disk.spt /\ heads' = (disk.heads - 1 + 1) % 256
  BY DEF GetParameters
<1>2. /\ disk \in Disks /\ low = << >> /\ es = KERNEL_LOAD_SEG /\ bx = 0
      /\ pos = [ch |-> 0, dh |-> 0, cl |-> 2]
  BY <1>1 DEF BootInv
<1>3. disk.spt \in 2 .. 63 /\ disk.heads \in 1 .. 256 /\ H \in 1 .. 255
  BY <1>2, Geometry
<1>4. Counters'
  <2>1. heads' = disk.heads % 256
    BY <1>1, <1>3
  <2>2. H' = H /\ 0 < H
    BY <1>1, <1>3 DEF H
  <2>3. pos' = [ch |-> 0, dh |-> 0, cl |-> 2] /\ pos' \in [ch : 0 .. 255, dh : 0 .. 255, cl : Nat]
    BY <1>1, <1>2
  <2>4. es' = KERNEL_LOAD_SEG /\ sectors_per_track' = disk'.spt /\ heads' = disk'.heads % 256
    BY <1>1, <1>2, <2>1
  <2>5. pos'.dh < H' /\ 1 <= pos'.cl /\ pos'.cl <= disk'.spt
    BY <1>1, <1>3, <2>2, <2>3
  <2>6. QED
    BY <2>3, <2>4, <2>5 DEF Counters
<1>5. Loading(0)'
  <2>1. low = InOrder(0)
    BY <1>2, SMT DEF InOrder
  <2>2. (0 * H + 0) * disk.spt = 0
    <3>1. \A h, s \in Nat : (0 * h + 0) * s = 0
      BY SMT
    <3>2. H \in Nat /\ disk.spt \in Nat
      BY <1>3
    <3>3. QED
      BY <3>1, <3>2
  <2>3. InOrder(0)' = InOrder(0) /\ H' = H /\ Countable' = Countable
    BY <1>1 DEF InOrder, H, Countable
  <2>4. QED
    BY <1>1, <1>2, <2>1, <2>2, <2>3 DEF Loading, SectorBytes
<1>6. LoadedInOrder' /\ KernelArrives'
  BY <1>1 DEF BootInv, LoadedInOrder, KernelArrives, Countable
<1>7. QED
  BY <1>1, <1>2, <1>4, <1>5, <1>6 DEF BootInv

(* The number of sectors grows by one in each of the three steps.          *)
LEMMA Walk ==
  ASSUME NEW c \in Nat, NEW d \in Nat, NEW e \in Nat, NEW h \in Nat, NEW s \in Nat, NEW n \in Nat,
         n + 1 = (c * h + d) * s + e - 1
  PROVE  /\ n + 2 = (c * h + d) * s + (e + 1) - 1
         /\ e = s => n + 2 = (c * h + (d + 1)) * s + 1 - 1
         /\ e = s /\ d + 1 = h => n + 2 = ((c + 1) * h + 0) * s + 1 - 1
<1> DEFINE b == (c * h + d) * s
<1>1. b \in Nat
  BY SMT
<1>2. (c * h + (d + 1)) * s = b + s
  BY NextHead
<1>3. d + 1 = h => ((c + 1) * h + 0) * s = b + s
  BY NextCylinder
<1>4. n + 1 = b + e - 1
  OBVIOUS
<1> HIDE DEF b
<1>5. n + 2 = b + (e + 1) - 1 /\ (e = s => n + 2 = b + s + 1 - 1)
  BY <1>1, <1>4
<1>6. QED
  BY <1>2, <1>3, <1>5 DEF b

LEMMA ReadKeeps == BootInv /\ ReadSector => BootInv'
<1> SUFFICES ASSUME BootInv, ReadSector PROVE BootInv'
  OBVIOUS
<1>1. /\ pc = "load" /\ disk' = disk /\ sectors_per_track' = sectors_per_track /\ heads' = heads
      /\ failed' = failed /\ high' = high /\ pos' = Following /\ Slot \notin LoaderSlots
      /\ bx' = (bx + SectorBytes) % 65536
      /\ es' = IF bx' = 0 THEN (es + 4096) % 65536 ELSE es
      /\ low' = [k \in DOMAIN low \cup {Slot} |-> IF k = Slot THEN Lba ELSE low[k]]
      /\ pc' = IF pos' = [ch |-> 0, dh |-> 0, cl |-> 1] THEN "loaded" ELSE "load"
  BY DEF ReadSector
<1>2. disk \in Disks /\ Counters
  BY <1>1 DEF BootInv
<1>3. PICK n \in 0 .. 59 : Loading(n)
  BY <1>1 DEF BootInv
<1>4. Slot = n /\ Lba \in Nat /\ (Countable => Lba = n + 1) /\ pos.ch <= 60
  BY <1>2, <1>3, AtSlot
<1>5. n \in 0 .. 58
  BY <1>1, <1>4 DEF LoaderSlots
<1>6. bx' = SectorBytes * (n + 1) /\ es' = es
  <2>1. bx = 512 * n
    BY <1>3 DEF Loading, SectorBytes
  <2>2. bx' = 512 * (n + 1) /\ bx' # 0
    BY <1>1, <1>5, <2>1 DEF SectorBytes
  <2>3. QED
    BY <1>1, <2>2 DEF SectorBytes
<1>7. Countable' = Countable /\ H' = H /\ InOrder(n + 1)' = InOrder(n + 1)
  BY <1>1 DEF Countable, H, InOrder
<1>8. Countable => low' = InOrder(n + 1)
  <2> SUFFICES ASSUME Countable PROVE low' = InOrder(n + 1)
    OBVIOUS
  <2>1. low = InOrder(n)
    BY <1>3 DEF Loading
  <2>2. QED
    BY <1>1, <1>4, <2>1, OneMore
<1>9. /\ pos' \in [ch : 0 .. 255, dh : 0 .. 255, cl : Nat]
      /\ pos'.dh < H /\ 1 <= pos'.cl /\ pos'.cl <= disk.spt
      /\ n + 2 = (pos'.ch * H + pos'.dh) * disk.spt + pos'.cl - 1
      /\ pos' # [ch |-> 0, dh |-> 0, cl |-> 1]
  <2>1. /\ pos.ch \in 0 .. 60 /\ pos.dh \in 0 .. 255 /\ pos.dh < H /\ pos.cl \in 1 .. 63
        /\ pos.cl <= disk.spt /\ disk.spt \in 2 .. 63 /\ H \in 1 .. 255
        /\ sectors_per_track = disk.spt
    BY <1>2, <1>4, Geometry DEF Counters
  <2>2. PICK c \in 0 .. 60, d \in 0 .. 255, e \in 1 .. 63 : pos = [ch |-> c, dh |-> d, cl |-> e]
    <3>1. pos = [ch |-> pos.ch, dh |-> pos.dh, cl |-> pos.cl]
      BY <1>2 DEF Counters
    <3>2. QED
      BY <2>1, <3>1
  <2>3. PICK h \in 1 .. 255, s \in 2 .. 63 : h = H /\ s = disk.spt
    BY <2>1
  <2>4. /\ n + 2 = (c * h + d) * s + (e + 1) - 1
        /\ e = s => n + 2 = (c * h + (d + 1)) * s + 1 - 1
        /\ e = s /\ d + 1 = h => n + 2 = ((c + 1) * h + 0) * s + 1 - 1
    <3>1. n + 1 = (c * h + d) * s + e - 1
      BY <1>3, <2>2, <2>3 DEF Loading
    <3>2. QED
      BY <3>1, Walk
  <2>5. d < h /\ e <= s /\ sectors_per_track = s /\ (d + 1 < heads <=> d + 1 < h)
    <3>1. d < h /\ e <= s /\ sectors_per_track = s
      BY <2>1, <2>2, <2>3
    <3>2. heads = h \/ (heads = 0 /\ h = 1)
      BY <1>2, <2>3, Geometry DEF Counters, H
    <3>3. QED
      BY <3>1, <3>2
  <2>6. CASE e + 1 <= s
    <3>1. pos' = [ch |-> c, dh |-> d, cl |-> e + 1]
      BY <1>1, <2>2, <2>5, <2>6 DEF Following
    <3>2. QED
      BY <2>3, <2>4, <2>5, <2>6, <3>1
  <2>7. CASE e + 1 > s /\ d + 1 < h
    <3>1. pos' = [ch |-> c, dh |-> d + 1, cl |-> 1]
      <4>1. /\ ~(pos.cl + 1 <= sectors_per_track)
            /\ pos.cl + 1 > sectors_per_track /\ pos.dh + 1 < heads
        BY <2>2, <2>5, <2>7
      <4>2. pos' = [pos EXCEPT !.cl = 1, !.dh = @ + 1]
        BY <1>1, <4>1 DEF Following
      <4>3. QED
        BY <2>2, <4>2
    <3>2. e = s
      BY <2>5, <2>7
    <3>3. pos'.ch = c /\ pos'.dh = d + 1 /\ pos'.cl = 1
      BY <3>1, <3>2
    <3>4. n + 2 = (pos'.ch * H + pos'.dh) * disk.spt + pos'.cl - 1
      BY <2>3, <2>4, <2>5, <2>7, <3>3, <3>2
    <3>5. /\ pos' \in [ch : 0 .. 255, dh : 0 .. 255, cl : Nat]
          /\ pos'.dh < H /\ 1 <= pos'.cl /\ pos'.cl <= disk.spt
      BY <2>3, <2>5, <2>7, <3>1, <3>2, <3>3
    <3>6. pos' # [ch |-> 0, dh |-> 0, cl |-> 1]
      BY <2>5, <2>7, <3>1, <3>2, <3>3
    <3>7. QED
      BY <3>4, <3>5, <3>6
  <2>8. CASE e + 1 > s /\ ~(d + 1 < h)
    <3>1. pos' = [ch |-> (c + 1) % 256, dh |-> 0, cl |-> 1]
      BY <1>1, <2>2, <2>5, <2>8 DEF Following
    <3>2. (c + 1) % 256 = c + 1 /\ c + 1 \in 1 .. 255 /\ e = s /\ d + 1 = h
      BY <2>5, <2>8
    <3>3. pos'.ch = c + 1 /\ pos'.dh = 0 /\ pos'.cl = 1
      BY <3>1, <3>2
    <3>4. n + 2 = (pos'.ch * H + pos'.dh) * disk.spt + pos'.cl - 1
      BY <2>3, <2>4, <3>3, <3>2
    <3>5. /\ pos' \in [ch : 0 .. 255, dh : 0 .. 255, cl : Nat]
          /\ pos'.dh < H /\ 1 <= pos'.cl /\ pos'.cl <= disk.spt
      BY <2>3, <3>1, <3>2, <3>3
    <3>6. pos' # [ch |-> 0, dh |-> 0, cl |-> 1]
      BY <3>1, <3>2, <3>3
    <3>7. QED
      BY <3>4, <3>5, <3>6
  <2>9. QED
    BY <2>6, <2>7, <2>8
<1>10. pc' = "load"
  BY <1>1, <1>9
<1>11. Counters'
  BY <1>1, <1>2, <1>6, <1>7, <1>9 DEF Counters
<1>12. Loading(n + 1)'
  BY <1>1, <1>5, <1>6, <1>7, <1>8, <1>9 DEF Loading
<1>13. LoadedInOrder'
  <2>1. n + 1 \in 0 .. CopiedSlots
    BY <1>5 DEF CopiedSlots
  <2>2. QED
    BY <1>7, <1>8, <2>1 DEF LoadedInOrder, InOrder
<1>14. KernelArrives'
  BY <1>10 DEF KernelArrives
<1>15. n + 1 \in 0 .. 59
  BY <1>5
<1>16. QED
  BY <1>1, <1>2, <1>10, <1>11, <1>12, <1>13, <1>14, <1>15 DEF BootInv

LEMMA FailKeeps == BootInv /\ ReadFails => BootInv'
<1> SUFFICES ASSUME BootInv, ReadFails PROVE BootInv'
  OBVIOUS
<1>1. /\ pc = "load" /\ pc' = "loaded" /\ failed' = (Lba < disk.sectors)
      /\ disk' = disk /\ low' = low /\ high' = high
  BY DEF ReadFails
<1>2. disk \in Disks /\ Counters /\ LoadedInOrder
  BY <1>1 DEF BootInv
<1>3. PICK n \in 0 .. 59 : Loading(n)
  BY <1>1 DEF BootInv
<1>4. Lba \in Nat /\ (Countable => Lba = n + 1)
  BY <1>2, <1>3, AtSlot
<1>5. Countable' = Countable /\ InOrder(n)' = InOrder(n)
  BY <1>1 DEF Countable, InOrder
<1>6. Loaded'
  <2>1. Countable' => low' = InOrder(n)'
    BY <1>1, <1>3, <1>5 DEF Loading
  <2>2. Countable' /\ ~failed' => disk'.sectors <= n + 1
    <3> SUFFICES ASSUME Countable, ~failed' PROVE disk.sectors <= n + 1
      BY <1>1, <1>5
    <3>1. ~(Lba < disk.sectors)
      BY <1>1, Zenon
    <3>2. disk.sectors \in Nat /\ Lba = n + 1
      BY <1>2, <1>4, Geometry
    <3>3. QED
      BY <3>1, <3>2
  <2>3. n \in 0 .. 60
    OBVIOUS
  <2>4. QED
    BY <2>1, <2>2, <2>3 DEF Loaded
<1>7. LoadedInOrder' /\ KernelArrives'
  BY <1>1, <1>2, <1>5 DEF LoadedInOrder, KernelArrives
<1>8. QED
  BY <1>1, <1>2, <1>6, <1>7 DEF BootInv

(* The first slot of the loader's memory is reached with 59 sectors read:  *)
(* the sector in hand is the 60th of the kernel or a later one.            *)
LEMMA OverLoaderKeeps == BootInv /\ ReadOverLoader => BootInv'
<1> SUFFICES ASSUME BootInv, ReadOverLoader PROVE BootInv'
  OBVIOUS
<1>1. /\ pc = "load" /\ pc' = "lost" /\ Lba < disk.sectors /\ Slot \in LoaderSlots
      /\ disk' = disk /\ low' = low /\ high' = high
  BY DEF ReadOverLoader
<1>2. disk \in Disks /\ Counters /\ LoadedInOrder
  BY <1>1 DEF BootInv
<1>3. PICK n \in 0 .. 59 : Loading(n)
  BY <1>1 DEF BootInv
<1>4. Slot = n /\ Lba \in Nat /\ n + 1 <= Lba
  BY <1>2, <1>3, AtSlot
<1>5. disk.sectors \in Nat
  BY <1>2, Geometry
<1>6. disk.sectors > 60
  BY <1>1, <1>4, <1>5 DEF LoaderSlots
<1>7. LoadedInOrder' /\ KernelArrives'
  BY <1>1, <1>2, <1>6 DEF LoadedInOrder, KernelArrives, Countable
<1>8. QED
  BY <1>1, <1>2, <1>6, <1>7 DEF BootInv

LEMMA EnterKeeps == BootInv /\ EnterKernel => BootInv'
<1> SUFFICES ASSUME BootInv, EnterKernel PROVE BootInv'
  OBVIOUS
<1>1. /\ pc = "loaded" /\ pc' = "kmain" /\ disk' = disk /\ low' = low /\ failed' = failed
      /\ high' = [k \in 0 .. (CopiedSlots - 1) |-> IF k \in DOMAIN low THEN low[k] ELSE Unknown]
  BY DEF EnterKernel
<1>2. disk \in Disks /\ Loaded /\ LoadedInOrder
  BY <1>1 DEF BootInv
<1>3. Loaded' /\ LoadedInOrder' /\ Countable' = Countable
  BY <1>1, <1>2 DEF Loaded, LoadedInOrder, Countable, InOrder
<1>4. KernelArrives'
  <2> SUFFICES ASSUME Countable, ~failed, NEW k \in 0 .. (disk.kernel - 1)
               PROVE  high'[k] = k + 1
    BY <1>1, <1>3 DEF KernelArrives
  <2>1. PICK n \in 0 .. 60 : low = InOrder(n) /\ disk.sectors <= n + 1
    BY <1>2 DEF Loaded
  <2>2. k \in 0 .. (n - 1) /\ k \in 0 .. 239
    BY <1>2, <2>1, Geometry
  <2>3. k \in DOMAIN low /\ low[k] = k + 1
    BY <2>1, <2>2 DEF InOrder
  <2>4. QED
    BY <1>1, <2>2, <2>3 DEF CopiedSlots
<1>5. QED
  BY <1>1, <1>2, <1>3, <1>4 DEF BootInv

(* What comes after touches neither the disk nor low memory.               *)
LEMMA RestKeeps ==
  BootInv /\ (DiskError \/ InitAllocator \/ AllocateSuper \/ UNCHANGED vars) => BootInv'
<1> SUFFICES ASSUME BootInv, DiskError \/ InitAllocator \/ AllocateSuper \/ UNCHANGED vars
             PROVE  BootInv'
  OBVIOUS
<1>1. CASE DiskError
  <2>1. pc = "start" /\ pc' = "error" /\ disk' = disk /\ low' = low
    BY <1>1 DEF DiskError
  <2>2. QED
    BY <2>1 DEF BootInv, LoadedInOrder, KernelArrives, Countable
<1>2. CASE InitAllocator \/ AllocateSuper
  <2>1. /\ pc \in {"kmain", "format"} /\ pc' \in {"format", "running"}
        /\ disk' = disk /\ low' = low /\ failed' = failed
    BY <1>2 DEF InitAllocator, AllocateSuper
  <2>2. disk \in Disks /\ Loaded /\ LoadedInOrder
    BY <2>1 DEF BootInv
  <2>3. Loaded' /\ LoadedInOrder'
    BY <2>1, <2>2 DEF Loaded, LoadedInOrder, Countable, InOrder
  <2>4. KernelArrives'
    BY <2>1 DEF KernelArrives
  <2>5. QED
    BY <2>1, <2>2, <2>3, <2>4 DEF BootInv
<1>3. CASE UNCHANGED vars
  BY <1>3 DEF vars, BootInv, Counters, Loading, Loaded, InOrder, H, LoadedInOrder, KernelArrives, Countable
<1>4. QED
  BY <1>1, <1>2, <1>3

LEMMA NextKeeps == BootInv /\ [Next]_vars => BootInv'
  BY StartKeeps, ReadKeeps, FailKeeps, OverLoaderKeeps, EnterKeeps, RestKeeps DEF Next

(* The invariant of the load loop (boot.asm:48-77), for every disk.        *)
THEOREM BootInvariant == Spec => []BootInv
  BY InitEstablishes, NextKeeps, PTL DEF Spec

(* The disk is loaded in order, without gap or repetition, whatever its    *)
(* geometry (boot.asm:57-77).                                              *)
THEOREM BootLoadedInOrder == Spec => []LoadedInOrder
<1>1. BootInv => LoadedInOrder
  BY DEF BootInv
<1>2. QED
  BY <1>1, BootInvariant, PTL

(* A disk of at most 60 sectors never reaches the loader's own memory, and *)
(* kmain is entered with the whole kernel at 1 MB unless a read failed     *)
(* (boot.asm:55, boot.asm:126-131).                                        *)
THEOREM BootKernelArrives == Spec => []KernelArrives
<1>1. BootInv => KernelArrives
  BY DEF BootInv
<1>2. QED
  BY <1>1, BootInvariant, PTL

=============================================================================
