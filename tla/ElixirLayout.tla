---------------------------- MODULE ElixirLayout ----------------------------
(***************************************************************************)
(* The arithmetic of the Elixir file system (src/fs): where create_super   *)
(* puts the areas of a drive, and how large the allocation bitmap is.  The *)
(* numbers are the code's own; a drive has at most LBA28_MAX sectors, so   *)
(* no 32-bit sum wraps, but s_block_size is a uint16_t.                    *)
(***************************************************************************)
EXTENDS Integers

SECTOR_SIZE == 512
ELIXIR_SUPERBLOCK_LBA == 1
ELIXIR_BITMAP_START_LBA == 2
LBA28_MAX == 268435455          \* 0x0FFFFFFF, ide_rw.c
MIN_SECTORS == 32768            \* create_super gives up below this
INODE_TABLE_SECTORS == 256
BITS_PER_SECTOR == 8 * SECTOR_SIZE

\* Mutation: rounds down.
CeilDiv_Down(a, b) == a \div b
CeilDiv(a, b) == (a + b - 1) \div b

(* The if/else ladder of create_super.                                     *)
SectorsPerBlock(total) ==
  IF total < 131072 THEN 2
  ELSE IF total < 524288 THEN 4
  ELSE IF total < 2097152 THEN 8
  ELSE IF total < 8388608 THEN 16
  ELSE IF total < 33554432 THEN 32
  ELSE IF total < 134217728 THEN 64
  ELSE 128

(* The bitmap has one bit per sector; create_bitmap allocates BitmapBytes, *)
(* elixir_write_bitmap and elixir_read_bitmap move whole sectors.          *)
\* Mutation: no byte for the last few bits.
BitmapBytes_Down(total) == total \div 8
BitmapBytes(total) == CeilDiv(total, 8)
BitmapSectors(total) == CeilDiv(BitmapBytes(total), SECTOR_SIZE)

(* The fields of struct super_block that create_super computes.            *)
Super(total) ==
  LET spb == SectorsPerBlock(total)
      bitmap_blocks == CeilDiv(CeilDiv(total, BITS_PER_SECTOR), spb)
      inode_lba == ELIXIR_BITMAP_START_LBA + bitmap_blocks * spb
  IN [s_block_size      |-> (SECTOR_SIZE * spb) % 65536,
      s_total_blocks    |-> total \div spb,
      s_bitmap_blocks   |-> bitmap_blocks,
      s_inode_table_lba |-> inode_lba,
      s_data_start_lba  |-> inode_lba + INODE_TABLE_SECTORS]

(* The areas of a drive of "total" sectors do not overlap: the sectors the *)
(* bitmap functions write lie between the superblock and the inode table,  *)
(* the data area starts inside the drive, and no block ends past it.       *)
AreasInOrder(super, total) ==
  /\ ELIXIR_SUPERBLOCK_LBA < ELIXIR_BITMAP_START_LBA
  /\ ELIXIR_BITMAP_START_LBA + BitmapSectors(total) <= super.s_inode_table_lba
  /\ super.s_inode_table_lba + INODE_TABLE_SECTORS <= super.s_data_start_lba
  /\ super.s_data_start_lba < total
  /\ super.s_total_blocks * SectorsPerBlock(total) <= total

(* The bitmap area holds a bit for every sector of the drive.              *)
BitmapCoversDrive(total) == BitmapSectors(total) * BITS_PER_SECTOR >= total

=============================================================================
