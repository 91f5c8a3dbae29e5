------------------------------ MODULE IdeInit -------------------------------
(***************************************************************************)
(* ide_initialize (ide.c), ide_device_exists and ide_identify: the scan of *)
(* the four positions of two IDE channels that fills ide_devices.  What is *)
(* attached is external, and so is how an attached drive answers, if ever: *)
(* the two loops that poll its status have no limit.                       *)
(*                                                                         *)
(* A drive is asked for its IDENTIFY data twice, the first time only to    *)
(* see whether it is there; it is assumed to serve the data the second     *)
(* time although nobody fetched the first.                                 *)
(***************************************************************************)
EXTENDS Integers

CONSTANT SizeOf   (* the size of an ATA drive at each position, sectors    *)

Positions == 0 .. 3     \* 2 * channel + drive
\* Mutation: master and slave taken for the channel.
ChannelOf_Swapped(p) == p % 2
ChannelOf(p) == p \div 2
DriveOf(p) == p % 2

ASSUME IdeInitAssumption == SizeOf \in [Positions -> Nat \ {0}]

ATA_PRIMARY == 0
ATA_SECONDARY == 1
ATA_REG_CONTROL == 12   \* 0x0C

(* The command and control blocks of the channels: 0x1F0, 0x3F6, 0x170,    *)
(* 0x376.                                                                  *)
Channels == [c \in {ATA_PRIMARY, ATA_SECONDARY} |->
               IF c = ATA_PRIMARY THEN [base |-> 496, ctrl |-> 1014]
                                  ELSE [base |-> 368, ctrl |-> 886]]

VARIABLES
  attached,     (* what is at each position                                *)
  status,       (* the status register of the drive selected               *)
  pc, pos,      (* where ide_initialize is, and its loop variable i        *)
  ide_devices,  (* the table it fills                                      *)
  nIEN,         (* the drives' own interrupt disable, one per channel      *)
  answered      (* the positions whose drive delivered its IDENTIFY data   *)

vars == <<attached, status, pc, pos, ide_devices, nIEN, answered>>

(* No bit set (at the first look 0xFF counts as that), BSY, ERR, DRQ, or   *)
(* none of these three.                                                    *)
Statuses == {"zero", "busy", "error", "data", "quiet"}

(* Statically allocated, hence zero.                                       *)
EmptySlot == [Reserved |-> 0, Channel |-> 0, Drive |-> 0, Size |-> 0]

Init ==
  /\ attached \in [Positions -> {"nothing", "ata", "packet"}]
  /\ status = "zero" /\ pc = "control" /\ pos = 0
  /\ ide_devices = [d \in Positions |-> EmptySlot]
  /\ nIEN = [c \in DOMAIN Channels |-> FALSE]
  /\ answered = {}

(* The port ide_write selects, for the registers below 0x08 and the others.*)
Port(c, reg) == IF reg < 8 THEN Channels[c].base + reg ELSE Channels[c].ctrl + (reg - 8)

(* A drive's device control register is the port at its channel's ctrl.    *)
Reaches(c) == \E d \in DOMAIN Channels : Port(d, ATA_REG_CONTROL) = Channels[c].ctrl

(* ide_write(ATA_REG_CONTROL, 2) on both channels: 2 is the nIEN bit.  As  *)
(* Port adds to ctrl what ctrl already has, no drive is reached.           *)
DisableInterrupts ==
  /\ pc = "control"
  /\ nIEN' = [c \in DOMAIN Channels |-> nIEN[c] \/ Reaches(c)]
  /\ pc' = "probe"
  /\ UNCHANGED <<attached, status, pos, ide_devices, answered>>

(* The for loop goes on to the next position.                              *)
Continue ==
  /\ pos' = pos + 1
  /\ pc' = IF pos = 3 THEN "done" ELSE "probe"

\* Mutation: clears the slot of the drive number, the one ide_identify fills.
Cleared_ByDrive == [ide_devices EXCEPT ![DriveOf(pos)].Reserved = 0]
Cleared == [ide_devices EXCEPT ![pos].Reserved = 0]

(* Clears the slot of the position and selects its drive.                  *)
Select ==
  /\ pc = "probe" /\ pc' = "select"
  /\ ide_devices' = Cleared
  /\ status' \in IF attached[pos] = "nothing" THEN {"zero", "error"} ELSE Statuses
  /\ UNCHANGED <<attached, pos, nIEN, answered>>

(* IDENTIFY in the command register: a drive is busy with it.              *)
Asked == status' = IF attached[pos] = "nothing" THEN status ELSE "busy"

Ask ==
  /\ pc = "select" /\ status # "zero" /\ pc' = "asked"
  /\ Asked
  /\ UNCHANGED <<attached, pos, ide_devices, nIEN, answered>>

(* The second status is not zero: the loop on BSY begins.                  *)
Wait ==
  /\ pc = "asked" /\ status # "zero" /\ pc' = "wait"
  /\ UNCHANGED <<attached, status, pos, ide_devices, nIEN, answered>>

(* ide_device_exists says 0, at one of its two looks for a status of zero  *)
(* or for an error after the loop, or 2 (ATAPI) or 3 (SATA).               *)
Skip ==
  /\ \/ pc \in {"select", "asked"} /\ status = "zero"
     \/ pc = "wait" /\ status = "error"
     \/ pc = "wait" /\ status \notin {"busy", "error"} /\ attached[pos] = "packet"
  /\ Continue
  /\ UNCHANGED <<attached, status, ide_devices, nIEN, answered>>

(* It says 1, and ide_identify asks again.                                 *)
Found ==
  /\ pc = "wait" /\ status \notin {"busy", "error"} /\ attached[pos] = "ata"
  /\ Asked
  /\ pc' = "identify"
  /\ UNCHANGED <<attached, pos, ide_devices, nIEN, answered>>

(* The status is not zero: the loop that only ERR and DRQ end begins.      *)
Poll ==
  /\ pc = "identify" /\ status # "zero" /\ pc' = "poll"
  /\ UNCHANGED <<attached, status, pos, ide_devices, nIEN, answered>>

\* Mutation: the loop does not look at ERR.
IdentifyFails_NoError ==
  /\ pc = "identify" /\ status = "zero"
  /\ Continue
  /\ UNCHANGED <<attached, status, ide_devices, nIEN, answered>>
IdentifyFails ==
  /\ \/ pc = "identify" /\ status = "zero"
     \/ pc = "poll" /\ status = "error"
  /\ Continue
  /\ UNCHANGED <<attached, status, ide_devices, nIEN, answered>>

(* ide_identify(channel, drive) stores at ide_devices[drive].              *)
Identify ==
  /\ pc = "poll" /\ status = "data"
  /\ ide_devices' = [ide_devices EXCEPT ![DriveOf(pos)] =
       [Reserved |-> 1, Channel |-> ChannelOf(pos), Drive |-> DriveOf(pos), Size |-> SizeOf[pos]]]
  /\ status' = "quiet" /\ answered' = answered \cup {pos}
  /\ Continue
  /\ UNCHANGED <<attached, nIEN>>

Scan == DisableInterrupts \/ Select \/ Ask \/ Wait \/ Skip \/ Found \/ Poll \/ IdentifyFails \/ Identify

(* External: a busy drive ends in any way, or never.                       *)
DriveEnds ==
  /\ status = "busy" /\ status' \in Statuses \ {"busy"}
  /\ UNCHANGED <<attached, pc, pos, ide_devices, nIEN, answered>>

Next == Scan \/ DriveEnds

(* One thread that goes on when it can; nothing is asked of the drives.    *)
Spec == Init /\ [][Next]_vars /\ WF_vars(Scan)

-----------------------------------------------------------------------------
TypeOK ==
  /\ attached \in [Positions -> {"nothing", "ata", "packet"}]
  /\ status \in Statuses /\ pos \in 0 .. 4
  /\ pc \in {"control", "probe", "select", "asked", "wait", "identify", "poll", "done"}
  /\ ide_devices \in [Positions -> [Reserved : {0, 1}, Channel : {0, 1}, Drive : {0, 1}, Size : Nat]]
  /\ nIEN \in [DOMAIN Channels -> BOOLEAN]
  /\ answered \subseteq Positions

(* A slot in use leads ide_read_sectors to a drive that is there: channel, *)
(* slave bit and size all belong to the same ATA drive, which answered.    *)
SlotsLeadToDrives ==
  \A d \in Positions : ide_devices[d].Reserved = 1 =>
    LET p == 2 * ide_devices[d].Channel + ide_devices[d].Drive
    IN p \in answered /\ attached[p] = "ata" /\ ide_devices[d].Size = SizeOf[p]

(* No slot in use means no drive answered: a machine with one drive is     *)
(* never reported empty, wherever the drive is attached.                   *)
SomeSlotIfSomeDrive ==
  pc = "done" /\ answered # {} => \E d \in Positions : ide_devices[d].Reserved = 1

(* The scan ends unless one drive keeps it: a drive that is busy for ever, *)
(* or, in ide_identify, one that is not but neither asks for data nor      *)
(* reports an error.  No other answer of any drive, at any time, can.      *)
ScanEnds ==
  \/ <>(pc = "done")
  \/ <>[](pc = "wait" /\ status = "busy")
  \/ <>[](pc = "poll" /\ status \notin {"error", "data"})

(* ide.h:89 says of Reserved: "0 (Empty) or 1 (This Drive really exists)". *)
SlotSaysWhoExists ==
  pc = "done" => \A d \in Positions : ide_devices[d].Reserved = 1 <=> d \in answered

=============================================================================
