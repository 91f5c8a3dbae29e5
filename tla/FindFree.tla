------------------------------ MODULE FindFree ------------------------------
(***************************************************************************)
(* find_next_free_lba (ide_rw.c): it reads every sector of a drive and     *)
(* remembers the last one with a byte that is not zero.  A sector is read  *)
(* by ide_read_sectors, one step of the loop each.                         *)
(***************************************************************************)
EXTENDS Integers

CONSTANTS
  MaxSize,     (* bound: sectors of the largest drive                      *)
  LbaLimit,    (* 0x10000000, the addresses 28 bits can hold               *)
  LbaWrap,     (* 2^24, those the address registers alone can hold         *)
  UINT32_MAX

ASSUME FindFreeAssumption ==
  /\ MaxSize \in Nat /\ UINT32_MAX \in Nat /\ MaxSize < UINT32_MAX
  /\ LbaLimit \in Nat /\ LbaWrap \in 1 .. LbaLimit

VARIABLES
  size,        (* ide_devices[drive].Size; 0 for a slot that is not in use *)
  used,        (* the sectors with a byte that is not zero                 *)
  bad,         (* the sectors that cannot be read                          *)
  lba, seen_used, last_used_lba,
  result       (* what the function returned; -1 until then                *)

search == <<size, used, bad, lba, seen_used, last_used_lba, result>>

Running == -1

FindInit ==
  /\ size \in 0 .. MaxSize
  /\ used \in SUBSET (0 .. (size - 1)) /\ bad \in SUBSET (0 .. (size - 1))
  /\ lba = 0 /\ seen_used = FALSE /\ last_used_lba = UINT32_MAX
  /\ result = Running

Return(r) ==
  /\ result' = r
  /\ UNCHANGED <<size, used, bad, lba, seen_used, last_used_lba>>

NoDrive == result = Running /\ size = 0 /\ Return(UINT32_MAX)

(* The sector ide_read_sectors fetches for an address: past LBA28 the top *)
(* bits of the address are lost.                                           *)
SectorRead(a) == IF a >= LbaLimit THEN a % LbaWrap ELSE a

Loop ==
  /\ result = Running /\ lba < size /\ SectorRead(lba) \notin bad
  /\ IF SectorRead(lba) \in used THEN seen_used' = TRUE /\ last_used_lba' = lba
                                 ELSE UNCHANGED <<seen_used, last_used_lba>>
  /\ lba' = lba + 1
  /\ UNCHANGED <<size, used, bad, result>>

ReadError ==
  result = Running /\ lba < size /\ SectorRead(lba) \in bad /\ Return(UINT32_MAX)

\* Mutations: the last used sector itself; the end of the drive off by one.
Finish_LastUsed ==
  /\ result = Running /\ size > 0 /\ lba = size
  /\ Return(IF ~seen_used THEN 0 ELSE IF last_used_lba = size - 1 THEN UINT32_MAX ELSE last_used_lba)
Finish_OffByOne ==
  /\ result = Running /\ size > 0 /\ lba = size
  /\ Return(IF ~seen_used THEN 0 ELSE IF last_used_lba >= size - 2 THEN UINT32_MAX ELSE last_used_lba + 1)
Finish ==
  /\ result = Running /\ size > 0 /\ lba = size
  /\ \/ ~seen_used /\ Return(0)
     \/ seen_used /\ last_used_lba = size - 1 /\ Return(UINT32_MAX)
     \/ seen_used /\ last_used_lba # size - 1 /\ Return(last_used_lba + 1)

FindNext == NoDrive \/ Loop \/ ReadError \/ Finish

FindSpec == FindInit /\ [][FindNext]_search

-----------------------------------------------------------------------------
(* The whole drive can be addressed.                                       *)
Addressable == size <= LbaLimit

(* A sector it answers is on the drive, unused, and every sector after it  *)
(* is unused too; the one before it is used, or there is none.  (On a      *)
(* larger drive the tail is not what was read.)                            *)
AnswerIsFree ==
  Addressable /\ result \in 0 .. (UINT32_MAX - 1) =>
    /\ result < size /\ bad = {}
    /\ \A s \in result .. (size - 1) : s \notin used
    /\ result = 0 \/ result - 1 \in used

(* It answers UINT32_MAX only when it must: no drive, a sector it cannot   *)
(* read, or the last sector in use.                                        *)
NoneOnlyIfFull ==
  Addressable /\ result = UINT32_MAX => size = 0 \/ bad # {} \/ (size - 1) \in used

=============================================================================
