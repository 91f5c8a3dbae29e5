-------------------------------- MODULE Boot --------------------------------
(***************************************************************************)
(* The boot sector (boot.asm) and the start of kmain: the kernel's sectors *)
(* are read one at a time through the BIOS to 0x500, copied to 1 MB and    *)
(* called; the memory at 1 MB is then given to the heap.  Memory is seen   *)
(* in slots of one sector: slot k of low memory begins at 0x500 + 512 * k, *)
(* slot k of high memory at 1 MB + 512 * k.  The disk and its BIOS are     *)
(* external; A20 is taken to be on, as no code turns it on.                *)
(***************************************************************************)
EXTENDS Integers

CONSTANT
  Disks   (* records [sectors, kernel, spt, heads]: the sectors of the     *)
          (* disk, those of the kernel from LBA 1 on, and the geometry     *)

(* No disk has tracks of one sector; the loop would begin past the first.  *)
ASSUME BootAssumption ==
  \A d \in Disks : /\ d.spt \in 2 .. 63 /\ d.heads \in 1 .. 256
                   /\ d.kernel \in Nat /\ d.sectors \in Nat /\ d.kernel < d.sectors

KERNEL_LOAD_SEG == 80          \* 0x0050
SectorBytes == 512
CopiedSlots == 240             \* 30720 dwords

(* The loader runs at 0x7C00 with its stack right below: the slot at       *)
(* 0x7B00 is the first to overlap the two, the one at 0x7D00 the last.     *)
LoaderSlots == {59, 60}

VARIABLES
  disk,
  pc,
  pos,                       (* the sector to read next: CH, DH and CL     *)
  es, bx,                    (* where to                                   *)
  sectors_per_track, heads,  (* bytes, as the boot sector keeps them       *)
  low,                       (* slot -> the LBA loaded there               *)
  high,                      (* slot -> the LBA copied there               *)
  failed                     (* a read of a sector of the disk has failed  *)

vars == <<disk, pc, pos, es, bx, sectors_per_track, heads, low, high, failed>>

Init ==
  /\ disk \in Disks /\ pc = "start"
  /\ pos = [ch |-> 0, dh |-> 0, cl |-> 2]
  /\ es = KERNEL_LOAD_SEG /\ bx = 0
  /\ sectors_per_track = 0 /\ heads = 0
  /\ low = << >> /\ high = << >> /\ failed = FALSE

(* INT 13h AH = 8 gives the last head in DH; AH = 0 resets the disk.       *)
\* Mutation: the last head is taken for the number of heads.
GetParameters_LastHead ==
  /\ pc = "start" /\ pc' = "load"
  /\ sectors_per_track' = disk.spt /\ heads' = disk.heads - 1
  /\ UNCHANGED <<disk, pos, es, bx, low, high, failed>>
GetParameters ==
  /\ pc = "start" /\ pc' = "load"
  /\ sectors_per_track' = disk.spt
  /\ heads' = (disk.heads - 1 + 1) % 256
  /\ UNCHANGED <<disk, pos, es, bx, low, high, failed>>

(* Either of the two calls fails: "ERR".                                   *)
DiskError ==
  /\ pc = "start" /\ pc' = "error"
  /\ UNCHANGED <<disk, pos, es, bx, sectors_per_track, heads, low, high, failed>>

(* The sector at pos, by the disk's geometry, and the slot at es:bx.       *)
Lba == (pos.ch * disk.heads + pos.dh) * disk.spt + pos.cl - 1
Slot == (16 * es + bx - 1280) \div SectorBytes

\* Mutation: the last sector of a track is left out.
Following_ShortTrack ==
  CASE pos.cl + 1 < sectors_per_track -> [pos EXCEPT !.cl = @ + 1]
    [] pos.cl + 1 >= sectors_per_track /\ pos.dh + 1 < heads -> [pos EXCEPT !.cl = 1, !.dh = @ + 1]
    [] OTHER -> [ch |-> (pos.ch + 1) % 256, dh |-> 0, cl |-> 1]
Following ==
  CASE pos.cl + 1 <= sectors_per_track -> [pos EXCEPT !.cl = @ + 1]
    [] pos.cl + 1 > sectors_per_track /\ pos.dh + 1 < heads -> [pos EXCEPT !.cl = 1, !.dh = @ + 1]
    [] OTHER -> [ch |-> (pos.ch + 1) % 256, dh |-> 0, cl |-> 1]

(* CF is clear: on to the next sector and the next 512 bytes; bx that      *)
(* overflows takes es along.  Past cylinder 255 the loop falls through.    *)
ReadSector ==
  /\ pc = "load" /\ Lba < disk.sectors /\ Slot \notin LoaderSlots
  /\ low' = [k \in DOMAIN low \cup {Slot} |-> IF k = Slot THEN Lba ELSE low[k]]
  /\ bx' = (bx + SectorBytes) % 65536
  /\ es' = IF bx' = 0 THEN (es + 4096) % 65536 ELSE es
  /\ pos' = Following
  /\ pc' = IF pos' = [ch |-> 0, dh |-> 0, cl |-> 1] THEN "loaded" ELSE "load"
  /\ UNCHANGED <<disk, sectors_per_track, heads, high, failed>>

(* The sector lands on the running loader or on its stack: what the        *)
(* processor does next is decided by the kernel's bytes.                   *)
ReadOverLoader ==
  /\ pc = "load" /\ Lba < disk.sectors /\ Slot \in LoaderSlots
  /\ pc' = "lost"
  /\ UNCHANGED <<disk, pos, es, bx, sectors_per_track, heads, low, high, failed>>

(* CF is set, past the end of the disk or by a sector that cannot be read: *)
(* either way the kernel counts as loaded.                                 *)
\* Mutation: the read is tried again.
ReadFails_Retried ==
  /\ pc = "load" /\ failed' = (failed \/ Lba < disk.sectors)
  /\ UNCHANGED <<disk, pc, pos, es, bx, sectors_per_track, heads, low, high>>
ReadFails ==
  /\ pc = "load" /\ pc' = "loaded"
  /\ failed' = (Lba < disk.sectors)
  /\ UNCHANGED <<disk, pos, es, bx, sectors_per_track, heads, low, high>>

(* rep movsd and the call.  A slot nobody loaded carries whatever the BIOS *)
(* left there; so does .bss, which nobody clears.                          *)
Unknown == -1
EnterKernel ==
  /\ pc = "loaded" /\ pc' = "kmain"
  /\ high' = [k \in 0 .. (CopiedSlots - 1) |-> IF k \in DOMAIN low THEN low[k] ELSE Unknown]
  /\ UNCHANGED <<disk, pos, es, bx, sectors_per_track, heads, low, failed>>

(* kmain gives the heap its region from 1 MB on: the header of the first   *)
(* block is written there.                                                 *)
InitAllocator ==
  /\ pc = "kmain" /\ pc' = "format"
  /\ high' = [high EXCEPT ![0] = Unknown]
  /\ UNCHANGED <<disk, pos, es, bx, sectors_per_track, heads, low, failed>>

(* elixir_format's first kmalloc, for the superblock: kmalloc clears its   *)
(* 512 bytes behind the header and writes the header of the rest.          *)
AllocateSuper ==
  /\ pc = "format" /\ pc' = "running"
  /\ high' = [high EXCEPT ![0] = Unknown, ![1] = Unknown]
  /\ UNCHANGED <<disk, pos, es, bx, sectors_per_track, heads, low, failed>>

Next ==
  \/ GetParameters \/ DiskError \/ ReadSector \/ ReadOverLoader \/ ReadFails
  \/ EnterKernel \/ InitAllocator \/ AllocateSuper

(* Nothing else runs, and every BIOS call returns.                         *)
Spec == Init /\ [][Next]_vars /\ WF_vars(Next)

-----------------------------------------------------------------------------
(* 256 heads do not fit the byte that holds their number.                  *)
Countable == disk.heads < 256

(* The three nested counters of the loop and es:bx walk the disk and low   *)
(* memory in step: what is loaded, at any moment and for any geometry, is  *)
(* the disk from LBA 1 on without gap or repetition.                       *)
LoadedInOrder ==
  Countable => \E n \in 0 .. CopiedSlots : low = [k \in 0 .. (n - 1) |-> k + 1]

(* A disk that ends below the loader's own memory never destroys it, and   *)
(* kmain is entered with all of the kernel at 1 MB, unless a read failed.  *)
KernelArrives ==
  /\ pc = "lost" => disk.sectors > 60
  /\ pc = "kmain" /\ Countable /\ ~failed => \A k \in 0 .. (disk.kernel - 1) : high[k] = k + 1

(* The loop ends on every disk: at its end, at an error, or in the loader. *)
BootEnds == <>(pc \in {"error", "lost", "running"})

(* x86_64.ld:33 places __kernel_end behind the kernel to "Mark end of      *)
(* kernel for memory management": what memory management hands out starts  *)
(* after the kernel, whose image at 1 MB stays as it was loaded.           *)
KernelIntact ==
  pc \in {"kmain", "format", "running"} /\ Countable /\ ~failed =>
    \A k \in 0 .. (disk.kernel - 1) : high[k] = k + 1

=============================================================================
