------------------------------- MODULE Elixir -------------------------------
(***************************************************************************)
(* The Elixir file system of src/fs on one drive: format, mount, reading   *)
(* the bitmap back and create_file, called one at a time by one thread.    *)
(* Each kmalloc, read and write may fail, the machine may reset at any     *)
(* moment, and a drive may drop a write without the driver noticing (see   *)
(* IdeRw).                                                                 *)
(*                                                                         *)
(* The disk is its superblock sector and the bits of its bitmap area; a    *)
(* buffer is one unit of "allocated".                                      *)
(***************************************************************************)
EXTENDS ElixirLayout, FiniteSets

CONSTANTS
  Sizes,       (* ide_devices[drive].Size; 0 stands for an empty slot     *)
  Marks,       (* the bit positions of the bitmap area that are followed  *)
  MaxBuffers   (* bound: buffers allocated at once                        *)

ASSUME ElixirAssumption ==
  /\ Sizes \subseteq Nat /\ \A s \in Sizes : s <= LBA28_MAX
  /\ Marks \subseteq Nat /\ IsFiniteSet(Marks)
  /\ MaxBuffers \in Nat

VARIABLES
  size,       (* sectors of the drive                                     *)
  disk,       (* what is on it: the superblock sector and the marked bits *)
  pc,         (* where the call under way is                              *)
  sb,         (* the superblock elixir_format is working on               *)
  allocated,  (* buffers obtained from kmalloc and not freed              *)
  before,     (* "allocated" when the last call began                     *)
  dropped,    (* the drive dropped a write of the last call               *)
  result      (* the last call and its answer                             *)

vars == <<size, disk, pc, sb, allocated, before, dropped, result>>

None == [s_total_blocks |-> 0]
Answer(op, ret) == [op |-> op, ret |-> ret, used |-> 0, free |-> 0]

Init ==
  /\ size \in Sizes
  /\ disk \in [super : {"foreign", "elixir"}, bits : SUBSET Marks]
  /\ pc = "idle" /\ sb = None
  /\ allocated = 0 /\ before = 0
  /\ dropped = FALSE
  /\ result = Answer("none", 0)

(* One kmalloc succeeds; n buffers are freed.                              *)
Kmalloc == allocated < MaxBuffers /\ allocated' = allocated + 1
Kfree(n) == allocated' = allocated - n

Begin == pc = "idle" /\ before' = allocated /\ dropped' = FALSE

Return(op, ret) == pc' = "idle" /\ sb' = None /\ result' = Answer(op, ret)

(* A call that fails before doing anything: no memory, or drive >= 4.      *)
Refused(op) ==
  /\ Begin
  /\ Return(op, -1)
  /\ UNCHANGED <<size, disk, allocated>>

(* The next kmalloc, read or check of the call succeeds.                   *)
Proceed(from, to) ==
  /\ pc = from /\ pc' = to
  /\ UNCHANGED <<size, disk, sb, before, dropped, result>>

(* It fails: the call frees n buffers and returns.                         *)
GiveUp(from, n, op) ==
  /\ pc = from /\ Kfree(n)
  /\ Return(op, -1)
  /\ UNCHANGED <<size, before, dropped>>

-----------------------------------------------------------------------------
(* elixir_format, up to the superblock in memory.                          *)
CreateSuper ==
  /\ Begin /\ Kmalloc /\ size >= MIN_SECTORS
  /\ sb' = Super(size)
  /\ pc' = "write_super"
  /\ UNCHANGED <<size, disk, result>>

(* create_super returns NULL for a small drive after its kmalloc: the      *)
(* buffer is never freed.                                                  *)
CreateSuperTooSmall ==
  /\ Begin /\ Kmalloc /\ size < MIN_SECTORS
  /\ Return("format", -1)
  /\ UNCHANGED <<size, disk>>

WithSuper == [disk EXCEPT !.super = "elixir"]

(* A sector the drive rejects is not reported by the driver.               *)
WriteSuper ==
  /\ pc = "write_super" /\ pc' = "create_bitmap"
  /\ \/ disk' = WithSuper /\ UNCHANGED dropped
     \/ dropped' = TRUE /\ UNCHANGED disk
  /\ UNCHANGED <<size, sb, allocated, before, result>>

(* The driver reports a failure.  Today it does so only for a slot without *)
(* drive and beyond LBA 28, and neither comes here; elixir.c is written    *)
(* for a driver that may.                                                  *)
WriteSuperFails ==
  /\ GiveUp("write_super", 1, "format")
  /\ disk' \in {disk, WithSuper}

(* create_bitmap: the structure, then its bits.  Each failure frees what   *)
(* create_bitmap and elixir_format hold.                                   *)
BitmapHeader == Proceed("create_bitmap", "bitmap_data") /\ Kmalloc
BitmapHeaderFails == GiveUp("create_bitmap", 1, "format") /\ UNCHANGED disk

BitmapData == Proceed("bitmap_data", "write_bitmap") /\ Kmalloc
\* Mutation: frees the bits it does not have, too.
BitmapDataFails_FreesThree == GiveUp("bitmap_data", 3, "format") /\ UNCHANGED disk
BitmapDataFails == GiveUp("bitmap_data", 2, "format") /\ UNCHANGED disk

\* Mutation: the last sector of the bitmap is not written.
Written_Short == {b \in Marks : b \div BITS_PER_SECTOR < BitmapSectors(size) - 1}
Written == {b \in Marks : b \div BITS_PER_SECTOR < BitmapSectors(size)}

(* The sectors written reach past the buffer create_bitmap zeroed: the     *)
(* bits there are whatever follows it in the heap.                         *)
PastEnd == {b \in Written : b >= 8 * BitmapBytes(size)}

(* The bitmap area once the sectors of the bits in "done" are written.     *)
Overwrite(done, junk) == [disk EXCEPT !.bits = (@ \ done) \cup (junk \cap done)]

(* The bits of any set of whole sectors of the area.                       *)
SomeWritten == {{b \in Written : b \div BITS_PER_SECTOR \in s} :
                  s \in SUBSET {b \div BITS_PER_SECTOR : b \in Written}}

WriteBitmap ==
  /\ pc = "write_bitmap"
  /\ \E junk \in SUBSET PastEnd :
       \/ disk' = Overwrite(Written, junk) /\ UNCHANGED dropped
       \/ \E done \in SomeWritten : disk' = Overwrite(done, junk) /\ dropped' = TRUE
  /\ Kfree(3)
  /\ Return("format", 0)
  /\ UNCHANGED <<size, before>>

(* The driver reports a failure, after any part of the sectors.            *)
WriteBitmapFails ==
  /\ GiveUp("write_bitmap", 3, "format")
  /\ \E done \in SomeWritten, junk \in SUBSET PastEnd : disk' = Overwrite(done, junk)

-----------------------------------------------------------------------------
(* elixir_mount: the buffer, the sector, the check of the magic number.    *)
MountBuffer ==
  /\ Begin /\ Kmalloc
  /\ pc' = "read_super"
  /\ UNCHANGED <<size, disk, sb, result>>

(* An empty slot cannot be read, any other drive may fail to.              *)
MountReadFails == GiveUp("read_super", 1, "mount") /\ UNCHANGED disk

ReadSuper == size > 0 /\ Proceed("read_super", "check_magic") /\ UNCHANGED allocated

\* Mutation: the buffer is not freed.
BadMagic_Keeps ==
  disk.super # "elixir" /\ GiveUp("check_magic", 0, "mount") /\ UNCHANGED disk
BadMagic ==
  disk.super # "elixir" /\ GiveUp("check_magic", 1, "mount") /\ UNCHANGED disk

(* The superblock buffer goes to the caller, or, when sb_out is NULL       *)
(* (main.c:43), to nobody.                                                 *)
Mount ==
  /\ pc = "check_magic" /\ disk.super = "elixir"
  /\ Return("mount", 0)
  /\ UNCHANGED <<size, disk, allocated, before, dropped>>

(* elixir_read_bitmap: the structure, then the buffer for the sectors,     *)
(* which kmalloc refuses when there are none.                              *)
ReadHeader ==
  /\ Begin /\ Kmalloc
  /\ pc' = "bitmap_buffer"
  /\ UNCHANGED <<size, disk, sb, result>>

ReadBuffer == size > 0 /\ Proceed("bitmap_buffer", "read_bitmap") /\ Kmalloc
ReadBufferFails == GiveUp("bitmap_buffer", 1, "read_bitmap") /\ UNCHANGED disk
ReadBitmapFails == GiveUp("read_bitmap", 2, "read_bitmap") /\ UNCHANGED disk

(* The count register of ide_read_sectors takes a uint8_t.                 *)
\* Mutation: a last, partly filled sector is not read.
SectorsRead_Down == (size \div BITS_PER_SECTOR) % 256
SectorsRead == BitmapSectors(size) % 256

(* The buffer is zeroed by kmalloc; the loop looks at bits 0 .. size-1.    *)
ReadBitmap ==
  LET seen == {b \in disk.bits : b \div BITS_PER_SECTOR < SectorsRead}
      used == Cardinality({b \in seen : b < size})
  IN /\ pc = "read_bitmap" /\ pc' = "idle" /\ sb' = None
     /\ result' = [op |-> "read_bitmap", ret |-> 0, used |-> used, free |-> size - used]
     /\ UNCHANGED <<size, disk, allocated, before, dropped>>

CreateFile ==
  /\ Begin /\ Kmalloc
  /\ Return("create_file", 0)
  /\ UNCHANGED <<size, disk>>

(* Power loss or reset: memory is gone; of a write under way, any sectors  *)
(* may have reached the disk.                                              *)
Reset ==
  /\ \/ UNCHANGED disk
     \/ pc = "write_super" /\ disk' = WithSuper
     \/ /\ pc = "write_bitmap"
        /\ \E done \in SomeWritten, junk \in SUBSET PastEnd : disk' = Overwrite(done, junk)
  /\ allocated' = 0 /\ before' = 0 /\ dropped' = FALSE
  /\ Return("none", 0)
  /\ UNCHANGED size

Format ==
  \/ CreateSuper \/ CreateSuperTooSmall \/ WriteSuper \/ WriteSuperFails
  \/ BitmapHeader \/ BitmapHeaderFails \/ BitmapData \/ BitmapDataFails
  \/ WriteBitmap \/ WriteBitmapFails
  \/ Refused("format")

Mounting ==
  \/ MountBuffer \/ MountReadFails \/ ReadSuper \/ BadMagic \/ Mount
  \/ Refused("mount")

Reading ==
  \/ ReadHeader \/ ReadBuffer \/ ReadBufferFails \/ ReadBitmap \/ ReadBitmapFails
  \/ Refused("read_bitmap")

Next == Format \/ Mounting \/ Reading \/ CreateFile \/ Refused("create_file") \/ Reset

Spec == Init /\ [][Next]_vars

-----------------------------------------------------------------------------
FormatPlaces == {"write_super", "create_bitmap", "bitmap_data", "write_bitmap"}
Formatting == pc \in FormatPlaces

TypeOK ==
  /\ size \in Sizes
  /\ disk \in [super : {"foreign", "elixir"}, bits : SUBSET Marks]
  /\ pc \in {"idle"} \cup FormatPlaces \cup {"read_super", "check_magic", "bitmap_buffer", "read_bitmap"}
  /\ sb \in {None, Super(size)}
  /\ allocated \in 0 .. MaxBuffers /\ before \in 0 .. MaxBuffers
  /\ dropped \in BOOLEAN
  /\ result.ret \in {0, -1} /\ result.used \in Nat /\ result.free \in Nat

(* Whatever the size of the drive, the superblock create_super fills in    *)
(* keeps superblock, bitmap, inode table and data apart, and the bitmap    *)
(* has a bit for every sector.                                             *)
LayoutOrdered == Formatting => AreasInOrder(sb, size) /\ BitmapCoversDrive(size)

(* When elixir_format returns 0 and the drive dropped nothing, the disk    *)
(* carries an Elixir superblock and no sector of it is marked used.        *)
DriveBits(bits) == bits \cap (0 .. (size - 1))
FormatFresh ==
  result.op = "format" /\ result.ret = 0 /\ ~dropped /\ pc = "idle" =>
    disk.super = "elixir" /\ DriveBits(disk.bits) = {}

(* Nothing the file system does, cut short or not, marks a sector used:    *)
(* the heap bytes written past the bitmap buffer stay out of the bits of   *)
(* the drive's own sectors (create_bitmap, elixir_write_bitmap).           *)
NeverMarksUsed == [][DriveBits(disk'.bits \ disk.bits) = {}]_vars

(* Every return path of format, mount and read_bitmap, whichever kmalloc,  *)
(* read, write or check failed, frees what the call allocated, except what *)
(* it hands over.  A drive create_super finds too small costs one buffer.  *)
Kept ==
  IF result.ret = 0 /\ result.op \in {"mount", "create_file"} THEN {1}
  ELSE IF result.ret = 0 /\ result.op = "read_bitmap" THEN {2}
  ELSE IF result.op = "format" /\ size < MIN_SECTORS THEN {0, 1}
  ELSE {0}
BuffersAccounted == pc = "idle" => allocated - before \in Kept

(* The counts of elixir_read_bitmap are those of the drive's own bits, as  *)
(* long as the bitmap is shorter than the count register can express.      *)
BitmapCountsRight ==
  result.op = "read_bitmap" /\ result.ret = 0 /\ BitmapSectors(size) < 256 /\ pc = "idle" =>
    /\ result.used = Cardinality(DriveBits(disk.bits))
    /\ result.used + result.free = size

=============================================================================
