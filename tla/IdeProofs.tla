----------------------------- MODULE IdeProofs ------------------------------
(***************************************************************************)
(* The device table of ide_initialize, and the answer of                   *)
(* find_next_free_lba, for drives of any size.                             *)
(***************************************************************************)
EXTENDS IdeInit, FindFree, TLAPS

Attachments == [Positions -> {"nothing", "ata", "packet"}]

(* Where the scan is, and that it identifies only ATA drives.              *)
ScanState ==
  /\ attached \in Attachments
  /\ pc \in {"control", "probe", "select", "asked", "wait", "identify", "poll", "done"}
  /\ pc # "done" => pos \in Positions
  /\ pc \in {"identify", "poll"} => attached[pos] = "ata"
  /\ ide_devices \in [Positions -> [Reserved : {0, 1}, Channel : {0, 1}, Drive : {0, 1}, Size : Nat]]

ScanInv == ScanState /\ SlotsLeadToDrives

LEMMA PositionParts ==
  ASSUME NEW p \in Positions
  PROVE  /\ DriveOf(p) \in {0, 1} /\ ChannelOf(p) \in {0, 1}
         /\ 2 * ChannelOf(p) + DriveOf(p) = p /\ DriveOf(p) \in Positions
  BY SMT DEF Positions, DriveOf, ChannelOf

LEMMA InitEstablishesScanInv == Init => ScanInv
<1> SUFFICES ASSUME Init PROVE ScanInv
  OBVIOUS
<1>1. \A d \in Positions : ide_devices[d] = EmptySlot
  BY DEF Init
<1>2. ScanState
  BY DEF Init, ScanState, Attachments, EmptySlot, Positions
<1>3. SlotsLeadToDrives
  BY <1>1 DEF SlotsLeadToDrives, EmptySlot
<1>4. QED
  BY <1>2, <1>3 DEF ScanInv

(* Clearing the Reserved byte of a slot only takes a slot out of use.      *)
LEMMA ClearingKeeps ==
  ASSUME ScanInv, pc = "probe", ide_devices' = Cleared,
         UNCHANGED attached, answered \subseteq answered'
  PROVE  /\ ide_devices' \in [Positions -> [Reserved : {0, 1}, Channel : {0, 1}, Drive : {0, 1}, Size : Nat]]
         /\ SlotsLeadToDrives'
<1>1. pos \in Positions
  BY DEF ScanInv, ScanState
<1>2. \A d \in Positions : /\ d # pos => ide_devices'[d] = ide_devices[d]
                           /\ d = pos => ide_devices'[d].Reserved = 0
  BY <1>1 DEF Cleared, ScanInv, ScanState
<1>3. ide_devices' \in [Positions -> [Reserved : {0, 1}, Channel : {0, 1}, Drive : {0, 1}, Size : Nat]]
  BY <1>1 DEF Cleared, ScanInv, ScanState
<1>4. SlotsLeadToDrives'
  BY <1>2 DEF SlotsLeadToDrives, ScanInv
<1>5. QED
  BY <1>3, <1>4

LEMMA NextKeepsScanInv == ScanInv /\ [Next]_vars => ScanInv'
<1> SUFFICES ASSUME ScanInv, [Next]_vars PROVE ScanInv'
  OBVIOUS
<1>1. ScanState /\ SlotsLeadToDrives
  BY DEF ScanInv
<1>2. ASSUME Continue, pos \in Positions
      PROVE  pc' \in {"probe", "done"} /\ (pc' # "done" => pos' \in Positions)
  BY <1>2 DEF Continue, Positions
<1>3. CASE DisableInterrupts
  BY <1>1, <1>3 DEF DisableInterrupts, ScanInv, ScanState, SlotsLeadToDrives
<1>4. CASE Select
  BY <1>1, <1>4, ClearingKeeps DEF Select, ScanInv, ScanState
<1>5. CASE Ask \/ Wait \/ Found \/ Poll \/ DriveEnds
  BY <1>1, <1>5 DEF Ask, Wait, Found, Poll, DriveEnds, ScanInv, ScanState, SlotsLeadToDrives
<1>6. CASE Identify
  <2> DEFINE slot == [Reserved |-> 1, Channel |-> ChannelOf(pos),
                      Drive |-> DriveOf(pos), Size |-> SizeOf[pos]]
  <2>1. pos \in Positions /\ attached[pos] = "ata"
    BY <1>1, <1>6 DEF Identify, ScanState
  <2>2. /\ slot \in [Reserved : {0, 1}, Channel : {0, 1}, Drive : {0, 1}, Size : Nat]
        /\ 2 * slot.Channel + slot.Drive = pos /\ slot.Size = SizeOf[pos]
    BY <2>1, PositionParts, IdeInitAssumption DEF IdeInitAssumption
  <2> HIDE DEF slot
  <2>3. ide_devices' = [ide_devices EXCEPT ![DriveOf(pos)] = slot] /\ DriveOf(pos) \in Positions
    BY <1>6, <2>1, PositionParts DEF Identify, slot
  <2>4. \A d \in Positions : ide_devices'[d] = IF d = DriveOf(pos) THEN slot ELSE ide_devices[d]
    BY <1>1, <2>3 DEF ScanState
  <2>5. ScanState'
    BY <1>1, <1>2, <1>6, <2>1, <2>2, <2>3 DEF Identify, ScanState
  <2>6. answered' = answered \cup {pos} /\ attached' = attached
    BY <1>6 DEF Identify
  <2>7. SlotsLeadToDrives'
    BY <1>1, <2>1, <2>2, <2>4, <2>6 DEF SlotsLeadToDrives
  <2>8. QED
    BY <2>5, <2>7 DEF ScanInv
<1>7. CASE Skip \/ IdentifyFails
  BY <1>1, <1>2, <1>7 DEF Skip, IdentifyFails, ScanInv, ScanState, SlotsLeadToDrives
<1>8. CASE UNCHANGED vars
  BY <1>1, <1>8 DEF vars, ScanInv, ScanState, SlotsLeadToDrives
<1>9. QED
  BY <1>3, <1>4, <1>5, <1>6, <1>7, <1>8 DEF Next, Scan

(* A slot in use describes one ATA drive that answered, whatever else the  *)
(* scan found or overwrote (ide_identify's assignments).                   *)
THEOREM IdeSlotsLeadToDrives == Spec => []SlotsLeadToDrives
<1>1. ScanInv => SlotsLeadToDrives
  BY DEF ScanInv
<1>2. QED
  BY <1>1, InitEstablishesScanInv, NextKeepsScanInv, PTL DEF Spec

-----------------------------------------------------------------------------
(* Once a drive has answered, one of the slots 0 and 1 is in use.  Slot 1  *)
(* is cleared when only slot 0 can be, and from position 2 on the scan     *)
(* fills slots 0 and 1 and clears others: that is why it is never lost.    *)
FoundInv ==
  /\ pos = 0 => answered = {}
  /\ pos = 1 /\ answered # {} => ide_devices[0].Reserved = 1
  /\ answered # {} => ide_devices[0].Reserved = 1 \/ ide_devices[1].Reserved = 1

LEMMA ClearingKeepsFound ==
  ASSUME ScanState, FoundInv, pc = "probe", ide_devices' = Cleared, UNCHANGED <<pos, answered>>
  PROVE  FoundInv'
<1>1. pos \in 0 .. 3
  BY DEF ScanState, Positions
<1>2. \A d \in Positions : d # pos => ide_devices'[d] = ide_devices[d]
  BY DEF Cleared, ScanState
<1>3. 0 \in Positions /\ 1 \in Positions
  BY DEF Positions
<1>4. CASE pos = 0
  BY <1>4 DEF FoundInv
<1>5. CASE pos # 0
  <2>1. ide_devices'[0] = ide_devices[0] /\ (pos # 1 => ide_devices'[1] = ide_devices[1])
    BY <1>1, <1>2, <1>3, <1>5
  <2>2. QED
    BY <1>5, <2>1 DEF FoundInv
<1>6. QED
  BY <1>4, <1>5

LEMMA NextKeepsFoundInv == ScanState /\ FoundInv /\ [Next]_vars => FoundInv'
<1> SUFFICES ASSUME ScanState, FoundInv, [Next]_vars PROVE FoundInv'
  OBVIOUS
<1>1. CASE DisableInterrupts
  BY <1>1 DEF DisableInterrupts, FoundInv
<1>2. CASE Select
  BY <1>2, ClearingKeepsFound DEF Select
<1>3. CASE Ask \/ Wait \/ Found \/ Poll \/ DriveEnds
  BY <1>3 DEF Ask, Wait, Found, Poll, DriveEnds, FoundInv
<1>4. CASE Identify
  <2>1. pos \in Positions /\ pos \in 0 .. 3 /\ pos' = pos + 1
    BY <1>4 DEF Identify, Continue, ScanState, Positions
  <2>2. DriveOf(pos) \in {0, 1} /\ (pos = 0 => DriveOf(pos) = 0)
    BY <2>1, PositionParts DEF DriveOf
  <2>3. /\ ide_devices'[DriveOf(pos)].Reserved = 1
        /\ \A d \in Positions : d # DriveOf(pos) => ide_devices'[d] = ide_devices[d]
    BY <1>4, <2>1, PositionParts DEF Identify, ScanState
  <2>4. pos' # 0 /\ (pos' = 1 => pos = 0)
    BY <2>1
  <2>5. QED
    BY <2>2, <2>3, <2>4 DEF FoundInv
<1>5. CASE Skip \/ IdentifyFails
  <2>1. pos \in 0 .. 3 /\ pos' = pos + 1 /\ UNCHANGED <<ide_devices, answered>>
    BY <1>5 DEF Skip, IdentifyFails, Continue, ScanState, Positions
  <2>2. pos' # 0 /\ (pos' = 1 => pos = 0)
    BY <2>1
  <2>3. QED
    BY <2>1, <2>2 DEF FoundInv
<1>6. CASE UNCHANGED vars
  BY <1>6 DEF vars, FoundInv
<1>7. QED
  BY <1>1, <1>2, <1>3, <1>4, <1>5, <1>6 DEF Next, Scan

(* A machine whose drive answered is never reported empty, although the    *)
(* table is filled by drive number and cleared by position.                *)
THEOREM IdeSomeSlotIfSomeDrive == Spec => []SomeSlotIfSomeDrive
<1>1. Init => FoundInv
  BY DEF Init, FoundInv
<1>2. ScanInv => ScanState
  BY DEF ScanInv
<1>3. FoundInv => SomeSlotIfSomeDrive
  <2>1. 0 \in Positions /\ 1 \in Positions
    BY DEF Positions
  <2>2. QED
    BY <2>1 DEF FoundInv, SomeSlotIfSomeDrive
<1>4. QED
  BY <1>1, <1>2, <1>3, InitEstablishesScanInv, NextKeepsScanInv, NextKeepsFoundInv, PTL DEF Spec

-----------------------------------------------------------------------------
(* What the loop knows when it reaches sector lba of a drive that can be   *)
(* addressed.                                                              *)
LoopInv ==
  /\ size \in 0 .. MaxSize /\ lba \in 0 .. size
  /\ used \subseteq 0 .. (size - 1) /\ bad \subseteq 0 .. (size - 1)
  /\ seen_used \in BOOLEAN
  /\ \A s \in bad : s >= lba
  /\ ~seen_used => \A s \in used : s >= lba
  /\ seen_used => /\ last_used_lba \in used /\ last_used_lba < lba
                  /\ \A s \in used : s < lba => s <= last_used_lba

FindInv == Addressable => LoopInv /\ AnswerIsFree /\ NoneOnlyIfFull

(* A larger drive is larger at every step, and the rest is about the       *)
(* others.                                                                 *)
LEMMA SizeStays == [FindNext]_search => (Addressable' <=> Addressable)
  BY DEF FindNext, NoDrive, Loop, ReadError, Finish, Return, search, Addressable

LEMMA InitEstablishesFindInv == FindInit => FindInv
<1> SUFFICES ASSUME FindInit PROVE FindInv
  OBVIOUS
<1>1. /\ size \in 0 .. MaxSize /\ lba = 0 /\ result = -1
      /\ used \subseteq 0 .. (size - 1) /\ bad \subseteq 0 .. (size - 1)
      /\ MaxSize \in Nat /\ UINT32_MAX \in Nat
  BY FindFreeAssumption DEF FindInit, Running, FindFreeAssumption
<1>2. seen_used = FALSE
  BY DEF FindInit
<1>3. lba \in 0 .. size /\ \A s \in used \cup bad : s >= lba
  BY <1>1
<1>4. LoopInv
  BY <1>1, <1>2, <1>3 DEF LoopInv
<1>5. AnswerIsFree /\ NoneOnlyIfFull
  BY <1>1 DEF AnswerIsFree, NoneOnlyIfFull
<1>6. QED
  BY <1>4, <1>5 DEF FindInv

LEMMA NextKeepsFindInv == FindInv /\ [FindNext]_search => FindInv'
<1> SUFFICES ASSUME LoopInv, AnswerIsFree, NoneOnlyIfFull, Addressable, [FindNext]_search
             PROVE  LoopInv' /\ AnswerIsFree' /\ NoneOnlyIfFull'
  BY SizeStays DEF FindInv
<1>0. \A a \in Nat : a < size => SectorRead(a) = a
  BY FindFreeAssumption DEF FindFreeAssumption, SectorRead, Addressable, LoopInv
<1>1. /\ MaxSize \in Nat /\ UINT32_MAX \in Nat /\ MaxSize < UINT32_MAX
      /\ size \in Int /\ lba \in Int /\ size <= MaxSize
      /\ \A s \in used \cup bad : s \in Int /\ 0 <= s /\ s < size
  BY FindFreeAssumption DEF FindFreeAssumption, LoopInv
<1>2. ASSUME NEW r, Return(r) PROVE LoopInv' /\ result' = r
  BY <1>2 DEF Return, LoopInv
<1>3. CASE NoDrive
  BY <1>1, <1>2, <1>3 DEF NoDrive, Return, AnswerIsFree, NoneOnlyIfFull
<1>4. CASE Loop
  <2>0. /\ lba \notin bad /\ lba < size /\ lba' = lba + 1 /\ UNCHANGED <<size, used, bad>>
        /\ IF lba \in used THEN seen_used' = TRUE /\ last_used_lba' = lba
                           ELSE UNCHANGED <<seen_used, last_used_lba>>
    <3>1. SectorRead(lba) = lba
      BY <1>0, <1>1, <1>4 DEF Loop, LoopInv
    <3>2. QED
      BY <1>4, <3>1 DEF Loop
  <2>1. LoopInv'
    <3>1. CASE lba \in used
      BY <1>1, <2>0, <3>1 DEF LoopInv
    <3>2. CASE lba \notin used
      <4>1. /\ lba < size /\ lba \notin bad /\ lba' = lba + 1
            /\ UNCHANGED <<size, used, bad, seen_used, last_used_lba>>
        BY <2>0, <3>2
      <4>2. lba' \in 0 .. size /\ \A s \in bad : s >= lba'
        BY <1>1, <4>1 DEF LoopInv
      <4>3. (\A s \in used : s >= lba) => \A s \in used : s >= lba'
        BY <1>1, <3>2, <4>1
      <4>4. ASSUME last_used_lba \in used, last_used_lba < lba,
                   \A s \in used : s < lba => s <= last_used_lba
            PROVE  last_used_lba < lba' /\ \A s \in used : s < lba' => s <= last_used_lba
        BY <1>1, <3>2, <4>1, <4>4
      <4>5. QED
        BY <4>1, <4>2, <4>3, <4>4 DEF LoopInv
    <3>3. QED
      BY <3>1, <3>2
  <2>2. result' = Running
    BY <1>4 DEF Loop
  <2>3. QED
    BY <1>1, <2>1, <2>2 DEF AnswerIsFree, NoneOnlyIfFull, Running
<1>5. CASE ReadError
  BY <1>1, <1>2, <1>5 DEF ReadError, Return, AnswerIsFree, NoneOnlyIfFull
<1>6. CASE Finish
  <2>1. size > 0 /\ lba = size /\ bad = {} /\ UNCHANGED <<size, used, bad>>
    BY <1>1, <1>6 DEF Finish, LoopInv, Return
  <2>2. CASE ~seen_used /\ Return(0)
    <3>1. used = {}
      BY <1>1, <2>1, <2>2 DEF LoopInv
    <3>2. QED
      BY <1>1, <1>2, <2>1, <2>2, <3>1 DEF AnswerIsFree, NoneOnlyIfFull
  <2>3. CASE seen_used /\ last_used_lba = size - 1 /\ Return(UINT32_MAX)
    <3>1. size - 1 \in used
      BY <2>3 DEF LoopInv
    <3>2. QED
      BY <1>1, <1>2, <2>1, <2>3, <3>1 DEF AnswerIsFree, NoneOnlyIfFull
  <2>4. CASE seen_used /\ last_used_lba # size - 1 /\ Return(last_used_lba + 1)
    <3>1. /\ last_used_lba \in used /\ last_used_lba + 1 < size
          /\ \A s \in used : s <= last_used_lba
      <4>1. /\ last_used_lba \in used
            /\ \A s \in used : s < lba => s <= last_used_lba
        BY <2>4 DEF LoopInv
      <4>2. QED
        BY <1>1, <2>1, <2>4, <4>1
    <3>2. AnswerIsFree'
      BY <1>1, <1>2, <2>1, <2>4, <3>1 DEF AnswerIsFree
    <3>3. result' # UINT32_MAX
      BY <1>1, <1>2, <2>4, <3>1
    <3>4. QED
      BY <1>2, <2>4, <3>2, <3>3 DEF NoneOnlyIfFull
  <2>5. QED
    BY <1>6, <2>2, <2>3, <2>4 DEF Finish
<1>7. CASE UNCHANGED search
  BY <1>7 DEF search, LoopInv, AnswerIsFree, NoneOnlyIfFull
<1>8. QED
  BY <1>3, <1>4, <1>5, <1>6, <1>7 DEF FindNext

(* The sector find_next_free_lba answers is free, and so is every sector   *)
(* after it.                                                               *)
THEOREM FindFreeAnswerIsFree == FindSpec => []AnswerIsFree
<1>1. FindInv => AnswerIsFree
  BY DEF FindInv, AnswerIsFree
<1>2. QED
  BY <1>1, InitEstablishesFindInv, NextKeepsFindInv, PTL DEF FindSpec

(* It answers UINT32_MAX only for want of a drive, a readable sector or    *)
(* room.                                                                   *)
THEOREM FindFreeNoneOnlyIfFull == FindSpec => []NoneOnlyIfFull
<1>1. FindInv => NoneOnlyIfFull
  BY DEF FindInv, NoneOnlyIfFull
<1>2. QED
  BY <1>1, InitEstablishesFindInv, NextKeepsFindInv, PTL DEF FindSpec

=============================================================================
