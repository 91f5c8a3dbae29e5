---------------------------- MODULE ElixirProofs ----------------------------
(***************************************************************************)
(* The layout create_super computes, and what elixir_format leaves on the  *)
(* disk, for every drive of at most LBA28_MAX sectors.                     *)
(***************************************************************************)
EXTENDS Elixir, FiniteSetTheorems, TLAPS

LEMMA BitmapSectorsIs ==
  ASSUME NEW total \in Nat
  PROVE  BitmapSectors(total) = CeilDiv(total, BITS_PER_SECTOR)
BY SMT DEF BitmapSectors, BitmapBytes, CeilDiv, BITS_PER_SECTOR, SECTOR_SIZE

LEMMA BitmapBounds ==
  ASSUME NEW total \in Nat
  PROVE  /\ BitmapSectors(total) \in Nat
         /\ BitmapSectors(total) * 4096 >= total
         /\ BitmapSectors(total) * 4096 <= total + 4095
         /\ 8 * BitmapBytes(total) >= total
BY BitmapSectorsIs, SMT DEF BitmapBytes, CeilDiv, BITS_PER_SECTOR, SECTOR_SIZE

(* The bit of a sector of the drive is in the sectors of the bitmap.       *)
LEMMA SectorOfBit ==
  ASSUME NEW total \in Nat, NEW b \in Nat, b < total
  PROVE  b \div BITS_PER_SECTOR < BitmapSectors(total)
<1>1. BitmapSectors(total) = (total + 4095) \div 4096
  BY BitmapSectorsIs, SMT DEF CeilDiv, BITS_PER_SECTOR, SECTOR_SIZE
<1>2. b \div 4096 < (total + 4095) \div 4096
  BY SMT
<1>3. QED
  BY <1>1, <1>2 DEF BITS_PER_SECTOR, SECTOR_SIZE

(* The areas of every drive create_super accepts are in order.             *)
LEMMA LayoutLemma ==
  ASSUME NEW total \in Nat, total >= MIN_SECTORS
  PROVE  AreasInOrder(Super(total), total) /\ BitmapCoversDrive(total)
<1> DEFINE spb == SectorsPerBlock(total)
           sectors == CeilDiv(total, BITS_PER_SECTOR)
           blocks == CeilDiv(sectors, spb)
<1>1. total >= 32768
  BY SMT DEF MIN_SECTORS
<1>2. spb \in {2, 4, 8, 16, 32, 64, 128}
  BY SMT DEF SectorsPerBlock
<1>3. sectors \in Nat /\ sectors * 4096 >= total /\ sectors * 4096 <= total + 4095
  BY BitmapBounds, BitmapSectorsIs
<1>4. /\ Super(total).s_inode_table_lba = 2 + blocks * spb
      /\ Super(total).s_data_start_lba = 2 + blocks * spb + 256
      /\ Super(total).s_total_blocks = total \div spb
  BY DEF Super, ELIXIR_BITMAP_START_LBA, INODE_TABLE_SECTORS
<1> HIDE DEF spb, sectors
<1>5. blocks \in Nat /\ blocks * spb >= sectors /\ blocks * spb <= sectors + spb - 1
  BY <1>2, <1>3, SMT DEF CeilDiv
<1>6. (total \div spb) * spb <= total
  BY <1>1, <1>2, SMT
<1> HIDE DEF blocks
<1>7. blocks * spb \in Int /\ spb \in 2 .. 128
  BY <1>2, <1>5, SMT
<1>8. BitmapSectors(total) = sectors
  BY BitmapSectorsIs DEF sectors
<1>9. (total \div spb) * SectorsPerBlock(total) <= total
  BY <1>6 DEF spb
<1>10. AreasInOrder(Super(total), total)
  BY <1>1, <1>3, <1>4, <1>5, <1>7, <1>8, <1>9, SMT
     DEF AreasInOrder, ELIXIR_BITMAP_START_LBA, ELIXIR_SUPERBLOCK_LBA, INODE_TABLE_SECTORS
<1>11. BitmapCoversDrive(total)
  BY BitmapBounds DEF BitmapCoversDrive, BITS_PER_SECTOR, SECTOR_SIZE
<1>12. QED
  BY <1>10, <1>11

-----------------------------------------------------------------------------
(* Where elixir_format is, what it holds and what has reached the disk.    *)
FormatState ==
  /\ size \in Nat
  /\ disk \in [super : {"foreign", "elixir"}, bits : SUBSET Marks]
  /\ Formatting => size >= MIN_SECTORS /\ sb = Super(size)
  /\ pc \in {"create_bitmap", "bitmap_data", "write_bitmap"} /\ ~dropped => disk.super = "elixir"

FormatInv == FormatState /\ FormatFresh

LEMMA InitEstablishesFormatInv == Init => FormatInv
  BY ElixirAssumption DEF Init, ElixirAssumption, FormatInv, FormatState, FormatFresh,
     Formatting, FormatPlaces, Answer

(* Writing bitmap sectors sets no bit of the drive's own sectors, and once *)
(* all of them are written none is left.                                   *)
LEMMA OverwriteFacts ==
  ASSUME FormatState, NEW done \in SUBSET Written, NEW junk \in SUBSET PastEnd
  PROVE  /\ Overwrite(done, junk) \in [super : {"foreign", "elixir"}, bits : SUBSET Marks]
         /\ Overwrite(done, junk).super = disk.super
         /\ DriveBits(Overwrite(done, junk).bits \ disk.bits) = {}
         /\ done = Written => DriveBits(Overwrite(done, junk).bits) = {}
<1> DEFINE new == (disk.bits \ done) \cup (junk \cap done)
<1>1. /\ Overwrite(done, junk).bits = new /\ Overwrite(done, junk).super = disk.super
      /\ Overwrite(done, junk) \in [super : {"foreign", "elixir"}, bits : SUBSET Marks]
  BY DEF Overwrite, FormatState, Written
<1>2. ASSUME NEW b \in PastEnd PROVE b >= size
  <2>1. b \in Nat /\ b >= 8 * BitmapBytes(size) /\ size \in Nat
    BY ElixirAssumption DEF ElixirAssumption, PastEnd, Written, FormatState
  <2>2. 8 * BitmapBytes(size) >= size /\ BitmapBytes(size) \in Int
    BY <2>1, BitmapBounds, SMT DEF BitmapBytes, CeilDiv
  <2>3. QED
    BY <2>1, <2>2
<1>3. ASSUME NEW b \in Marks, b < size PROVE b \in Written
  BY <1>3, ElixirAssumption, SectorOfBit DEF ElixirAssumption, FormatState, Written
<1>4. junk \cap (0 .. (size - 1)) = {}
  <2> SUFFICES ASSUME NEW b \in junk, b \in 0 .. (size - 1) PROVE FALSE
    OBVIOUS
  <2>1. b >= size /\ b \in Int /\ size \in Int
    BY <1>2 DEF FormatState
  <2>2. QED
    BY <2>1
<1>5. disk.bits \subseteq Marks
  BY DEF FormatState
<1>6. DriveBits(new \ disk.bits) = {}
  BY <1>4 DEF DriveBits
<1>7. ASSUME done = Written PROVE DriveBits(new) = {}
  <2> SUFFICES ASSUME NEW b \in disk.bits, b \notin done, b \in 0 .. (size - 1) PROVE FALSE
    BY <1>4 DEF DriveBits
  <2>1. b < size
    BY DEF FormatState
  <2>2. QED
    BY <1>3, <1>5, <1>7, <2>1
<1>8. QED
  BY <1>1, <1>6, <1>7

(* What one step does to the disk, and to the rest of the state.           *)
LEMMA NextKeepsFormatInv ==
  FormatInv /\ [Next]_vars => FormatInv' /\ DriveBits(disk'.bits \ disk.bits) = {}
<1> SUFFICES ASSUME FormatInv, [Next]_vars
             PROVE  FormatInv' /\ DriveBits(disk'.bits \ disk.bits) = {}
  OBVIOUS
<1> USE DEF FormatInv, Formatting, FormatPlaces
<1>1. FormatState
  OBVIOUS
<1>2. disk \in [super : {"foreign", "elixir"}, bits : SUBSET Marks]
  BY DEF FormatState
<1>3. ASSUME UNCHANGED disk PROVE DriveBits(disk'.bits \ disk.bits) = {}
  BY <1>3 DEF DriveBits
<1>4. ASSUME UNCHANGED <<size, disk>>, pc' = "idle", result'.op # "format" \/ result'.ret # 0
      PROVE  FormatInv' /\ DriveBits(disk'.bits \ disk.bits) = {}
  BY <1>1, <1>3, <1>4 DEF FormatState, FormatFresh
<1>5. CASE CreateSuper
  BY <1>1, <1>3, <1>5 DEF CreateSuper, Begin, FormatState, FormatFresh
<1>6. CASE CreateSuperTooSmall
  BY <1>4, <1>6 DEF CreateSuperTooSmall, Return, Answer
<1>7. ASSUME NEW op \in {"mount", "format", "read_bitmap", "create_file"}, Refused(op)
      PROVE  FormatInv' /\ DriveBits(disk'.bits \ disk.bits) = {}
  BY <1>4, <1>7 DEF Refused, Return, Answer
<1>8. CASE WriteSuper
  <2>1. disk' \in [super : {"foreign", "elixir"}, bits : SUBSET Marks] /\ disk'.bits = disk.bits
        /\ (dropped' \/ disk'.super = "elixir")
    BY <1>2, <1>8 DEF WriteSuper, WithSuper
  <2>2. QED
    BY <1>1, <1>8, <2>1 DEF WriteSuper, FormatState, FormatFresh, DriveBits
<1>9. CASE BitmapHeader \/ BitmapData
  BY <1>1, <1>3, <1>9 DEF BitmapHeader, BitmapData, Proceed, FormatState, FormatFresh
<1>10. CASE \/ BitmapHeaderFails \/ BitmapDataFails \/ MountReadFails \/ BadMagic
            \/ ReadBufferFails \/ ReadBitmapFails
  <2>1. UNCHANGED <<size, disk>> /\ pc' = "idle" /\ result'.ret = -1
    BY <1>10 DEF BitmapHeaderFails, BitmapDataFails, MountReadFails, BadMagic,
       ReadBufferFails, ReadBitmapFails, GiveUp, Return, Answer
  <2>2. QED
    BY <1>4, <2>1
<1>11. CASE WriteSuperFails
  <2>1. UNCHANGED size /\ pc' = "idle" /\ result'.ret = -1
    BY <1>11 DEF WriteSuperFails, GiveUp, Return, Answer
  <2>2. disk' \in [super : {"foreign", "elixir"}, bits : SUBSET Marks] /\ disk'.bits = disk.bits
    BY <1>2, <1>11 DEF WriteSuperFails, WithSuper
  <2>3. QED
    BY <1>1, <2>1, <2>2 DEF FormatState, FormatFresh, DriveBits
<1>12. CASE WriteBitmapFails
  <2>1. UNCHANGED size /\ pc' = "idle" /\ result'.ret = -1
    BY <1>12 DEF WriteBitmapFails, GiveUp, Return, Answer
  <2>2. PICK done \in SUBSET Written, junk \in SUBSET PastEnd : disk' = Overwrite(done, junk)
    BY <1>12 DEF WriteBitmapFails, SomeWritten
  <2>3. /\ disk' \in [super : {"foreign", "elixir"}, bits : SUBSET Marks]
        /\ DriveBits(disk'.bits \ disk.bits) = {}
    BY <1>1, <2>2, OverwriteFacts
  <2>4. QED
    BY <1>1, <2>1, <2>3 DEF FormatState, FormatFresh
<1>13. CASE MountBuffer \/ ReadHeader
  BY <1>1, <1>3, <1>13 DEF MountBuffer, ReadHeader, Begin, FormatState, FormatFresh
<1>14. CASE ReadSuper \/ ReadBuffer
  BY <1>1, <1>3, <1>14 DEF ReadSuper, ReadBuffer, Proceed, FormatState, FormatFresh
<1>15. CASE WriteBitmap
  <2>1. PICK junk \in SUBSET PastEnd :
          \/ disk' = Overwrite(Written, junk) /\ UNCHANGED dropped
          \/ \E done \in SomeWritten : disk' = Overwrite(done, junk) /\ dropped' = TRUE
    BY <1>15 DEF WriteBitmap
  <2>2. PICK done \in SUBSET Written : /\ disk' = Overwrite(done, junk)
                                       /\ dropped' \/ (done = Written /\ UNCHANGED dropped)
    BY <2>1 DEF SomeWritten
  <2>3. size' = size /\ pc = "write_bitmap" /\ pc' = "idle"
    BY <1>15 DEF WriteBitmap, Return
  <2>4. /\ disk' \in [super : {"foreign", "elixir"}, bits : SUBSET Marks]
        /\ disk'.super = disk.super
        /\ DriveBits(disk'.bits \ disk.bits) = {}
        /\ done = Written => disk'.bits \cap (0 .. (size - 1)) = {}
    BY <1>1, <2>2, OverwriteFacts DEF DriveBits
  <2>5. QED
    BY <1>1, <2>2, <2>3, <2>4 DEF FormatState, FormatFresh, DriveBits
<1>16. CASE Mount
  BY <1>4, <1>16 DEF Mount, Return, Answer
<1>17. CASE ReadBitmap
  BY <1>4, <1>17 DEF ReadBitmap
<1>18. CASE CreateFile
  BY <1>4, <1>18 DEF CreateFile, Return, Answer
<1>19. CASE Reset
  <2>1. size' = size /\ pc' = "idle" /\ result'.op = "none"
    BY <1>19 DEF Reset, Return, Answer
  <2>2. CASE UNCHANGED disk
    BY <1>4, <2>1, <2>2
  <2>3. CASE disk' = WithSuper
    <3>1. disk' \in [super : {"foreign", "elixir"}, bits : SUBSET Marks] /\ disk'.bits = disk.bits
      BY <1>2, <2>3 DEF WithSuper
    <3>2. QED
      BY <1>1, <2>1, <3>1 DEF FormatState, FormatFresh, DriveBits
  <2>4. ASSUME NEW done \in SomeWritten, NEW junk \in SUBSET PastEnd, disk' = Overwrite(done, junk)
        PROVE  FormatInv' /\ DriveBits(disk'.bits \ disk.bits) = {}
    <3>1. done \in SUBSET Written
      BY DEF SomeWritten
    <3>2. QED
      BY <1>1, <2>1, <2>4, <3>1, OverwriteFacts DEF FormatState, FormatFresh
  <2>5. QED
    BY <1>19, <2>2, <2>3, <2>4 DEF Reset
<1>20. CASE UNCHANGED vars
  BY <1>1, <1>3, <1>20 DEF vars, FormatState, FormatFresh, DriveBits
<1>21. QED
  BY <1>5, <1>6, <1>7, <1>8, <1>9, <1>10, <1>11, <1>12, <1>13, <1>14, <1>15, <1>16, <1>17, <1>18, <1>19, <1>20
     DEF Next, Format, Mounting, Reading

LEMMA FormatInvariant == Spec => []FormatInv
<1>1. QED
  BY InitEstablishesFormatInv, NextKeepsFormatInv, PTL DEF Spec

(* Whatever the drive's size, superblock, bitmap, inode table and data do  *)
(* not overlap and every sector has a bit (create_super).                  *)
THEOREM ElixirLayoutOrdered == Spec => []LayoutOrdered
<1>1. FormatInv => LayoutOrdered
  BY LayoutLemma DEF FormatInv, FormatState, LayoutOrdered
<1>2. QED
  BY <1>1, FormatInvariant, PTL

(* A format that returns 0 on a drive that dropped nothing leaves an       *)
(* Elixir superblock and no sector marked used (elixir_format).            *)
THEOREM ElixirFormatFresh == Spec => []FormatFresh
<1>1. FormatInv => FormatFresh
  BY DEF FormatInv
<1>2. QED
  BY <1>1, FormatInvariant, PTL

(* No step, not even a reset in the middle of the bitmap, marks a sector   *)
(* of the drive used (elixir_write_bitmap's over-long last sector).        *)
THEOREM ElixirNeverMarksUsed == Spec => NeverMarksUsed
<1>1. FormatInv /\ [Next]_vars => [DriveBits(disk'.bits \ disk.bits) = {}]_vars
  BY NextKeepsFormatInv
<1>2. QED
  BY <1>1, FormatInvariant, PTL DEF Spec, NeverMarksUsed

-----------------------------------------------------------------------------
(* What each call holds while it works, by where it is.                    *)
Calls == {"none", "format", "mount", "read_bitmap", "create_file"}
Held(n) == allocated - before = n
BufferInv ==
  /\ size \in Sizes /\ dropped \in BOOLEAN
  /\ pc \in {"idle"} \cup FormatPlaces \cup {"read_super", "check_magic", "bitmap_buffer", "read_bitmap"}
  /\ sb \in {None, Super(size)}
  /\ allocated \in 0 .. MaxBuffers /\ before \in 0 .. MaxBuffers
  /\ result \in [op : Calls, ret : {0, -1}, used : Nat, free : Nat]
  /\ pc \in {"write_super", "create_bitmap", "read_super", "check_magic", "bitmap_buffer"} => Held(1)
  /\ pc \in {"bitmap_data", "read_bitmap"} => Held(2)
  /\ pc = "write_bitmap" => Held(3)

AccountInv == BufferInv /\ BuffersAccounted

LEMMA InitEstablishesAccountInv == Init => AccountInv
<1> SUFFICES ASSUME Init PROVE AccountInv
  OBVIOUS
<1>1. MaxBuffers \in Nat
  BY ElixirAssumption DEF ElixirAssumption
<1>2. result \in [op : Calls, ret : {0, -1}, used : Nat, free : Nat] /\ result.op = "none"
  BY DEF Init, Answer, Calls
<1>3. size \in Sizes /\ pc = "idle" /\ sb = None /\ allocated = 0 /\ before = 0
  BY DEF Init
<1>4. dropped \in BOOLEAN
  BY Zenon DEF Init
<1>5. BufferInv
  BY <1>1, <1>2, <1>3, <1>4 DEF BufferInv
<1>6. BuffersAccounted
  BY <1>2, <1>3 DEF BuffersAccounted, Kept
<1>7. QED
  BY <1>5, <1>6 DEF AccountInv

(* The answer of elixir_read_bitmap: bits of the drive, counted.           *)
UsedBits == {b \in {c \in disk.bits : c \div BITS_PER_SECTOR < SectorsRead} : b < size}

LEMMA UsedBitsFacts ==
  ASSUME size \in Nat, disk.bits \subseteq Marks
  PROVE  Cardinality(UsedBits) \in Nat /\ size - Cardinality(UsedBits) \in Nat
<1>1. UsedBits \subseteq 0 .. (size - 1)
  <2>1. ASSUME NEW b \in UsedBits PROVE b \in 0 .. (size - 1)
    <3>1. b \in Marks /\ b < size
      BY DEF UsedBits
    <3>2. b \in Nat
      BY <3>1, ElixirAssumption DEF ElixirAssumption
    <3>3. QED
      BY <3>1, <3>2
  <2>2. QED
    BY <2>1
<1>2. IsFiniteSet(0 .. (size - 1)) /\ Cardinality(0 .. (size - 1)) = size
  BY FS_Interval
<1>3. IsFiniteSet(UsedBits) /\ Cardinality(UsedBits) <= size
  BY <1>1, <1>2, FS_Subset
<1>4. Cardinality(UsedBits) \in Nat
  BY <1>3, FS_CardinalityType
<1>5. QED
  BY <1>3, <1>4

(* A call that ends having kept what it may keep.                          *)
LEMMA ReturnKeepsAccount ==
  ASSUME BufferInv, NEW op \in Calls, NEW ret \in {0, -1}, Return(op, ret),
         UNCHANGED size, dropped' \in BOOLEAN, allocated' \in 0 .. MaxBuffers, before' \in 0 .. MaxBuffers,
         allocated' - before' =
           IF ret = 0 /\ op \in {"mount", "create_file"} THEN 1 ELSE 0,
         op # "read_bitmap" \/ ret = -1
  PROVE  AccountInv'
<1>1. /\ pc' = "idle" /\ sb' = None
      /\ result' = [op |-> op, ret |-> ret, used |-> 0, free |-> 0]
  BY DEF Return, Answer
<1>2. BufferInv'
  BY <1>1 DEF BufferInv, None
<1>3. allocated' - before' \in Kept'
  <2>1. CASE ret = 0 /\ op \in {"mount", "create_file"}
    BY <1>1, <2>1 DEF Kept
  <2>2. CASE ~(ret = 0 /\ op \in {"mount", "create_file"})
    <3>1. allocated' - before' = 0
      BY <2>2
    <3>2. Kept' \in {{0, 1}, {0}}
      BY <1>1, <2>2 DEF Kept
    <3>3. QED
      BY <3>1, <3>2
  <2>3. QED
    BY <2>1, <2>2
<1>4. QED
  BY <1>2, <1>3 DEF AccountInv, BuffersAccounted

LEMMA NextKeepsAccountInv == FormatState /\ AccountInv /\ [Next]_vars => AccountInv'
<1> SUFFICES ASSUME FormatState, AccountInv, [Next]_vars PROVE AccountInv'
  OBVIOUS
<1>1. BufferInv /\ MaxBuffers \in Nat
  BY ElixirAssumption DEF AccountInv, ElixirAssumption
<1> USE DEF FormatPlaces, Held
<1>2. CASE CreateSuper \/ MountBuffer \/ ReadHeader
  <2>1. /\ allocated' = allocated + 1 /\ allocated' <= MaxBuffers /\ before' = allocated
        /\ pc' \in {"write_super", "read_super", "bitmap_buffer"}
        /\ sb' \in {sb, Super(size)} /\ UNCHANGED <<size, result>>
    BY <1>1, <1>2 DEF CreateSuper, MountBuffer, ReadHeader, Begin, Kmalloc, BufferInv
  <2>2. dropped' \in BOOLEAN
    BY <1>2 DEF CreateSuper, MountBuffer, ReadHeader, Begin
  <2>3. BufferInv' /\ BuffersAccounted'
    BY <1>1, <2>1, <2>2 DEF BufferInv, BuffersAccounted
  <2>4. QED
    BY <2>3 DEF AccountInv
<1>3. CASE CreateSuperTooSmall
  <2>1. /\ allocated' = allocated + 1 /\ allocated' <= MaxBuffers /\ before' = allocated
        /\ size < MIN_SECTORS /\ UNCHANGED size /\ pc' = "idle" /\ sb' = None
        /\ result' = [op |-> "format", ret |-> -1, used |-> 0, free |-> 0]
    BY <1>1, <1>3 DEF CreateSuperTooSmall, Begin, Kmalloc, Return, Answer, BufferInv
  <2>2. dropped' \in BOOLEAN
    BY <1>3 DEF CreateSuperTooSmall, Begin
  <2>3. BufferInv'
    BY <1>1, <2>1, <2>2 DEF BufferInv, Calls
  <2>4. BuffersAccounted'
    BY <1>1, <2>1 DEF BufferInv, BuffersAccounted, Kept
  <2>5. QED
    BY <2>3, <2>4 DEF AccountInv
<1>4. ASSUME NEW op \in {"format", "mount", "read_bitmap", "create_file"}, Refused(op) PROVE AccountInv'
  <2>1. /\ op \in Calls /\ -1 \in {0, -1} /\ Return(op, -1) /\ UNCHANGED size
        /\ allocated' = allocated /\ before' = allocated
    BY <1>4 DEF Refused, Begin, Calls
  <2>2. dropped' \in BOOLEAN
    BY <1>4 DEF Refused, Begin
  <2>3. /\ allocated' \in 0 .. MaxBuffers /\ before' \in 0 .. MaxBuffers
        /\ allocated' - before' = IF -1 = 0 /\ op \in {"mount", "create_file"} THEN 1 ELSE 0
    BY <1>1, <2>1 DEF BufferInv
  <2>4. QED
    BY <1>1, <2>1, <2>2, <2>3, ReturnKeepsAccount
<1>5. CASE WriteSuper
  <2>1. pc = "write_super" /\ pc' = "create_bitmap" /\ UNCHANGED <<size, sb, allocated, before, result>>
    BY <1>5 DEF WriteSuper
  <2>2. dropped' \in BOOLEAN
    <3>1. dropped' = dropped \/ dropped' = TRUE
      BY <1>5 DEF WriteSuper
    <3>2. QED
      BY <1>1, <3>1, Zenon DEF BufferInv
  <2>3. BufferInv' /\ BuffersAccounted'
    BY <1>1, <2>1, <2>2 DEF BufferInv, BuffersAccounted
  <2>4. QED
    BY <2>3 DEF AccountInv
<1>6. CASE BitmapHeader \/ BitmapData \/ ReadBuffer
  <2>1. /\ \/ pc = "create_bitmap" /\ pc' = "bitmap_data"
           \/ pc = "bitmap_data" /\ pc' = "write_bitmap"
           \/ pc = "bitmap_buffer" /\ pc' = "read_bitmap"
        /\ allocated' = allocated + 1 /\ allocated' <= MaxBuffers
        /\ UNCHANGED <<size, sb, before, dropped, result>>
    BY <1>1, <1>6 DEF BitmapHeader, BitmapData, ReadBuffer, Proceed, Kmalloc, BufferInv
  <2>2. BufferInv' /\ BuffersAccounted'
    BY <1>1, <2>1 DEF BufferInv, BuffersAccounted
  <2>3. QED
    BY <2>2 DEF AccountInv
<1>7. CASE ReadSuper
  <2>1. pc = "read_super" /\ pc' = "check_magic" /\ UNCHANGED <<size, sb, allocated, before, dropped, result>>
    BY <1>7 DEF ReadSuper, Proceed
  <2>2. BufferInv' /\ BuffersAccounted'
    BY <1>1, <2>1 DEF BufferInv, BuffersAccounted
  <2>3. QED
    BY <2>2 DEF AccountInv
(* A failing path that frees exactly what the call holds.                  *)
<1>8. ASSUME NEW from, NEW n \in Nat, NEW op \in Calls, GiveUp(from, n, op), Held(n)
      PROVE  AccountInv'
  <2>1. /\ allocated' = allocated - n /\ UNCHANGED <<size, before, dropped>>
        /\ Return(op, -1) /\ -1 \in {0, -1}
    BY <1>8 DEF GiveUp, Kfree
  <2>2. allocated' = before /\ before' = before /\ before \in 0 .. MaxBuffers
    BY <1>1, <1>8, <2>1 DEF BufferInv
  <2>3. dropped' \in BOOLEAN
    BY <1>1, <2>1 DEF BufferInv
  <2>4. allocated' - before' = IF -1 = 0 /\ op \in {"mount", "create_file"} THEN 1 ELSE 0
    BY <2>2
  <2>5. QED
    BY <1>1, <2>1, <2>2, <2>3, <2>4, ReturnKeepsAccount
<1>9. CASE \/ WriteSuperFails \/ BitmapHeaderFails \/ BitmapDataFails \/ WriteBitmapFails
            \/ MountReadFails \/ BadMagic \/ ReadBufferFails \/ ReadBitmapFails
  <2>1. PICK from \in {"write_super", "create_bitmap", "read_super", "check_magic", "bitmap_buffer",
                      "bitmap_data", "read_bitmap", "write_bitmap"},
             n \in Nat, op \in Calls :
          /\ GiveUp(from, n, op)
          /\ \/ n = 1 /\ from \in {"write_super", "create_bitmap", "read_super", "check_magic", "bitmap_buffer"}
             \/ n = 2 /\ from \in {"bitmap_data", "read_bitmap"}
             \/ n = 3 /\ from = "write_bitmap"
    BY <1>9 DEF WriteSuperFails, BitmapHeaderFails, BitmapDataFails, WriteBitmapFails,
       MountReadFails, BadMagic, ReadBufferFails, ReadBitmapFails, Calls
  <2>2. pc = from
    BY <2>1 DEF GiveUp
  <2>3. Held(n)
    BY <1>1, <2>1, <2>2 DEF BufferInv
  <2>4. QED
    BY <1>8, <2>1, <2>3
<1>10. CASE WriteBitmap
  <2>1. /\ pc = "write_bitmap" /\ allocated' = allocated - 3 /\ UNCHANGED <<size, before>>
        /\ Return("format", 0) /\ "format" \in Calls /\ 0 \in {0, -1}
    BY <1>10 DEF WriteBitmap, Kfree, Calls
  <2>2. allocated' = before /\ before' = before /\ before \in 0 .. MaxBuffers
    BY <1>1, <2>1 DEF BufferInv
  <2>3. dropped' \in BOOLEAN
    <3>1. dropped' = dropped \/ dropped' = TRUE
      BY <1>10 DEF WriteBitmap
    <3>2. QED
      BY <1>1, <3>1, Zenon DEF BufferInv
  <2>4. allocated' - before' = IF 0 = 0 /\ "format" \in {"mount", "create_file"} THEN 1 ELSE 0
    BY <2>2
  <2>5. QED
    BY <1>1, <2>1, <2>2, <2>3, <2>4, ReturnKeepsAccount
<1>11. CASE Mount
  <2>1. /\ pc = "check_magic" /\ UNCHANGED <<size, allocated, before, dropped>>
        /\ Return("mount", 0) /\ "mount" \in Calls /\ 0 \in {0, -1}
    BY <1>11 DEF Mount, Calls
  <2>2. /\ allocated' \in 0 .. MaxBuffers /\ before' \in 0 .. MaxBuffers /\ dropped' \in BOOLEAN
        /\ allocated' - before' = IF 0 = 0 /\ "mount" \in {"mount", "create_file"} THEN 1 ELSE 0
    BY <1>1, <2>1 DEF BufferInv
  <2>3. QED
    BY <1>1, <2>1, <2>2, ReturnKeepsAccount
<1>12. CASE CreateFile
  <2>1. /\ allocated' = allocated + 1 /\ allocated' <= MaxBuffers /\ before' = allocated
        /\ Return("create_file", 0) /\ UNCHANGED size
        /\ "create_file" \in Calls /\ 0 \in {0, -1}
    BY <1>1, <1>12 DEF CreateFile, Begin, Kmalloc, Calls, BufferInv
  <2>2. dropped' \in BOOLEAN
    BY <1>12 DEF CreateFile, Begin
  <2>3. /\ allocated' \in 0 .. MaxBuffers /\ before' \in 0 .. MaxBuffers
        /\ allocated' - before' = IF 0 = 0 /\ "create_file" \in {"mount", "create_file"} THEN 1 ELSE 0
    BY <1>1, <2>1 DEF BufferInv
  <2>4. QED
    BY <1>1, <2>1, <2>2, <2>3, ReturnKeepsAccount
<1>13. CASE ReadBitmap
  <2>1. /\ pc = "read_bitmap" /\ pc' = "idle" /\ sb' = None
        /\ UNCHANGED <<size, allocated, before, dropped>>
        /\ result' = [op |-> "read_bitmap", ret |-> 0, used |-> Cardinality(UsedBits),
                      free |-> size - Cardinality(UsedBits)]
    BY <1>13 DEF ReadBitmap, UsedBits
  <2>2. dropped' \in BOOLEAN /\ Held(2)
    BY <1>1, <2>1 DEF BufferInv
  <2>3. Cardinality(UsedBits) \in Nat /\ size - Cardinality(UsedBits) \in Nat
    BY UsedBitsFacts DEF FormatState
  <2>4. BufferInv'
    BY <1>1, <2>1, <2>2, <2>3 DEF BufferInv, Calls
  <2>5. BuffersAccounted'
    BY <1>1, <2>1, <2>2 DEF BufferInv, BuffersAccounted, Kept
  <2>6. QED
    BY <2>4, <2>5 DEF AccountInv
<1>14. CASE Reset
  <2>1. /\ allocated' = 0 /\ before' = 0 /\ UNCHANGED size
        /\ Return("none", 0) /\ "none" \in Calls /\ 0 \in {0, -1}
    BY <1>14 DEF Reset, Calls
  <2>2. dropped' \in BOOLEAN
    BY <1>14 DEF Reset
  <2>3. /\ allocated' \in 0 .. MaxBuffers /\ before' \in 0 .. MaxBuffers
        /\ allocated' - before' = IF 0 = 0 /\ "none" \in {"mount", "create_file"} THEN 1 ELSE 0
    BY <1>1, <2>1
  <2>4. QED
    BY <1>1, <2>1, <2>2, <2>3, ReturnKeepsAccount
<1>15. CASE UNCHANGED vars
  BY <1>15 DEF vars, AccountInv, BufferInv, BuffersAccounted, Kept
<1>16. QED
  BY <1>2, <1>3, <1>4, <1>5, <1>6, <1>7, <1>9, <1>10, <1>11, <1>12, <1>13, <1>14, <1>15
     DEF Next, Format, Mounting, Reading

LEMMA AccountInvariant == Spec => []AccountInv
<1>1. FormatInv => FormatState
  BY DEF FormatInv
<1>2. QED
  BY <1>1, FormatInvariant, InitEstablishesAccountInv, NextKeepsAccountInv, PTL DEF Spec

(* The types of the file system's state.                                   *)
THEOREM ElixirTypeOK == Spec => []TypeOK
<1>1. FormatInv /\ AccountInv => TypeOK
  BY DEF FormatInv, FormatState, AccountInv, BufferInv, TypeOK
<1>2. QED
  BY <1>1, FormatInvariant, AccountInvariant, PTL

(* Whichever kmalloc, read, write or check of format, mount or read_bitmap *)
(* fails, the call frees what it allocated, except what it hands over and  *)
(* the buffer of a drive that is too small.                                *)
THEOREM ElixirBuffersAccounted == Spec => []BuffersAccounted
<1>1. AccountInv => BuffersAccounted
  BY DEF AccountInv
<1>2. QED
  BY <1>1, AccountInvariant, PTL

-----------------------------------------------------------------------------
(* The counts elixir_read_bitmap answers are those of the drive's bits, on *)
(* every drive whose bitmap is shorter than 256 sectors.                   *)
THEOREM ElixirBitmapCountsRight == Spec => []BitmapCountsRight
<1>1. Init => BitmapCountsRight
  BY DEF Init, Answer, BitmapCountsRight
<1>2. ASSUME FormatState, AccountInv, ReadBitmap PROVE BitmapCountsRight'
  <2>1. /\ UNCHANGED <<size, disk>>
        /\ result' = [op |-> "read_bitmap", ret |-> 0, used |-> Cardinality(UsedBits),
                      free |-> size - Cardinality(UsedBits)]
    BY <1>2 DEF ReadBitmap, UsedBits
  <2>2. size \in Nat /\ disk.bits \subseteq Marks
    BY <1>2 DEF FormatState
  <2>3. ASSUME BitmapSectors(size) < 256 PROVE UsedBits = DriveBits(disk.bits)
    <3>1. SectorsRead = BitmapSectors(size)
      <4>1. BitmapSectors(size) \in Nat
        BY <2>2, BitmapBounds
      <4>2. \A n \in Nat : n < 256 => n % 256 = n
        OBVIOUS
      <4>3. QED
        BY <2>3, <4>1, <4>2 DEF SectorsRead
    <3>2. ASSUME NEW b \in disk.bits PROVE b \in UsedBits <=> b \in 0 .. (size - 1)
      <4>1. b \in Nat
        BY <2>2, ElixirAssumption DEF ElixirAssumption
      <4>2. b < size => b \div BITS_PER_SECTOR < SectorsRead
        BY <2>2, <3>1, <4>1, SectorOfBit
      <4>3. QED
        BY <2>2, <4>1, <4>2 DEF UsedBits
    <3>3. QED
      BY <3>2 DEF UsedBits, DriveBits
  <2>4. Cardinality(UsedBits) \in Nat
    BY <2>2, UsedBitsFacts
  <2>5. DriveBits(disk.bits)' = DriveBits(disk.bits) /\ BitmapSectors(size)' = BitmapSectors(size)
    BY <2>1 DEF DriveBits, BitmapSectors, BitmapBytes
  <2>6. result'.used + result'.free = size'
    BY <2>1, <2>2, <2>4
  <2>7. QED
    BY <2>1, <2>3, <2>5, <2>6 DEF BitmapCountsRight
<1>3. FormatState /\ AccountInv /\ BitmapCountsRight /\ [Next]_vars => BitmapCountsRight'
  <2> SUFFICES ASSUME FormatState, AccountInv, BitmapCountsRight, [Next]_vars PROVE BitmapCountsRight'
    OBVIOUS
  <2>1. CASE ReadBitmap
    BY <1>2, <2>1
  <2>2. CASE \/ CreateSuper \/ WriteSuper \/ BitmapHeader \/ BitmapData
             \/ MountBuffer \/ ReadSuper \/ ReadHeader \/ ReadBuffer
    BY <2>2 DEF CreateSuper, WriteSuper, BitmapHeader, BitmapData, MountBuffer, ReadSuper,
       ReadHeader, ReadBuffer, Proceed, BitmapCountsRight
  <2>3. ASSUME NEW op, NEW ret, Return(op, ret), op # "read_bitmap" \/ ret # 0 PROVE BitmapCountsRight'
    BY <2>3 DEF Return, Answer, BitmapCountsRight
  <2>4. CASE \/ CreateSuperTooSmall \/ WriteBitmap \/ Mount \/ CreateFile
             \/ Refused("format") \/ Refused("mount") \/ Refused("read_bitmap") \/ Refused("create_file")
             \/ Reset
    BY <2>3, <2>4 DEF CreateSuperTooSmall, WriteBitmap, Mount, CreateFile, Refused, Reset
  <2>7. CASE \/ WriteSuperFails \/ BitmapHeaderFails \/ BitmapDataFails \/ WriteBitmapFails
             \/ MountReadFails \/ BadMagic \/ ReadBufferFails \/ ReadBitmapFails
    BY <2>3, <2>7 DEF WriteSuperFails, BitmapHeaderFails, BitmapDataFails, WriteBitmapFails,
       MountReadFails, BadMagic, ReadBufferFails, ReadBitmapFails, GiveUp
  <2>5. CASE UNCHANGED vars
    BY <2>5 DEF vars, BitmapCountsRight, DriveBits
  <2>6. QED
    BY <2>1, <2>2, <2>4, <2>5, <2>7 DEF Next, Format, Mounting, Reading
<1>4. FormatInv => FormatState
  BY DEF FormatInv
<1>5. QED
  BY <1>1, <1>3, <1>4, FormatInvariant, AccountInvariant, PTL DEF Spec

=============================================================================
