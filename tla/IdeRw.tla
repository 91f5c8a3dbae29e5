------------------------------- MODULE IdeRw --------------------------------
(***************************************************************************)
(* ide_read_sectors and ide_write_sectors_counted (ide_rw.c) with          *)
(* ide_polling, against the ATA drive they drive by programmed I/O.  The   *)
(* drive is external: it is busy after a command and after a sector, then  *)
(* asks for data (DRQ), finishes or reports an error.  Its status register *)
(* lags behind its state until the four ALTSTATUS reads have given it time.*)
(* Written sectors sit in its cache, in any order, until it stores them.   *)
(*                                                                         *)
(* A read of zero sectors (create_bitmap.c:78 passes (uint8_t)256) orders  *)
(* CountMod sectors that nobody fetches: the next command may find the     *)
(* drive still at it.                                                      *)
(***************************************************************************)
EXTENDS Integers

CONSTANTS
  Present,     (* the drives whose ide_devices[].Reserved is set             *)
  Drives,      (* the drive numbers callers pass                             *)
  Capacity,    (* sectors of the drive                                       *)
  CountMod,    (* values of the sector count register: 256, which 0 stands for *)
  LbaLimit,    (* LBA28_MAX + 1                                              *)
  LbaWrap,     (* what 24 address bits can hold: 2^24                        *)
  Lbas,        (* the start addresses callers pass                           *)
  ReadCounts,  (* the numsects they pass to ide_read_sectors                 *)
  WriteCounts, (* the sectors they pass to ide_write_sectors_counted         *)
  MaxCalls     (* bound: number of calls                                     *)

ASSUME IdeRwAssumption ==
  /\ Capacity \in Nat /\ LbaLimit \in Nat /\ Capacity <= LbaLimit /\ LbaWrap \in 1 .. LbaLimit
  /\ CountMod \in Nat \ {0}
  /\ ReadCounts \subseteq 0 .. (CountMod - 1)
  /\ WriteCounts \subseteq Nat /\ Lbas \subseteq Nat /\ MaxCalls \in Nat

VARIABLES
  pc,      (* where the driver is                                          *)
  call,    (* the call: operation, start_lba, sectors, and a number        *)
  i,       (* sectors transferred under the current command                *)
  done,    (* sectors_written                                              *)
  buf,     (* the sectors a read has delivered                             *)
  ret,     (* what the last call returned                                  *)
  dev,     (* the drive's state machine                                    *)
  cache,   (* sectors the drive has accepted but not stored                *)
  media,   (* sectors that survive a loss of power                         *)
  before,  (* the drive's contents when the call began                     *)
  fault,   (* the drive reported an error during the call                  *)
  ignored, (* the drive ignored a CACHE FLUSH of the call                  *)
  missed,  (* the drive ignored a READ or WRITE of the call                *)
  zero_read (* some call was a read of zero sectors                        *)

driver == <<pc, call, i, done, buf, ret>>
drive == <<dev, cache, media>>
history == <<before, fault, ignored, missed, zero_read>>
vars == <<driver, drive, history>>

Sectors == 0 .. (Capacity - 1)

(* Sector k of the data of write number c is <<c, k>>.                     *)
Data(k) == <<call.id, k>>
NoData == <<-1, 0>>

View == [s \in Sectors |-> IF s \in DOMAIN cache THEN cache[s] ELSE media[s]]

Init ==
  /\ pc = "idle" /\ i = 0 /\ done = 0 /\ buf = << >> /\ ret = 0
  /\ call = [op |-> "none", lba |-> 0, n |-> 0, id |-> 0]
  /\ dev = [phase |-> "idle", shown |-> "idle", cmd |-> "none", lba |-> 0, left |-> 0,
            held |-> NoData, flush_next |-> FALSE]
  /\ cache = << >>
  /\ media = [s \in Sectors |-> <<0, s>>]
  /\ before = media /\ fault = FALSE /\ ignored = FALSE
  /\ missed = FALSE /\ zero_read = FALSE

(* The drive takes the command; the status register still shows what it did. *)
Takes(cmd, lba, n) ==
  dev' = [dev EXCEPT !.phase = "busy", !.cmd = cmd, !.lba = lba, !.left = n,
                     !.held = NoData, !.flush_next = FALSE]

(* READ or WRITE in the command register.  A busy drive ignores it; one    *)
(* that waits for its data to be fetched may drop them or ignore it.       *)
Command(cmd, lba, n, so_far) ==
  \/ dev.phase # "busy" /\ Takes(cmd, lba, n) /\ missed' = so_far
  \/ dev.phase \in {"busy", "ready"} /\ UNCHANGED dev /\ missed' = TRUE

Return(r) == pc' = "idle" /\ ret' = r

Begin(op, lba, n) ==
  /\ pc = "idle" /\ call.id < MaxCalls
  /\ call' = [op |-> op, lba |-> lba, n |-> n, id |-> call.id + 1]
  /\ i' = 0 /\ done' = 0 /\ buf' = << >>
  /\ before' = View /\ fault' = FALSE /\ ignored' = FALSE

-----------------------------------------------------------------------------
(* No such drive (1), nothing to write (0), not a whole sector (2).        *)
Rejected(drive_num) ==
  /\ \/ drive_num \notin Present /\ \E op \in {"read", "write"} : Begin(op, 0, 0) /\ Return(1)
     \/ drive_num \in Present /\ Begin("write", 0, 0) /\ (Return(0) \/ Return(2))
  /\ missed' = FALSE
  /\ UNCHANGED <<drive, zero_read>>

(* Past LBA28 the read keeps only the low 24 bits of the address: head is  *)
(* 0 and lba_io[3] is never sent.                                          *)
ReadLba(lba) == IF lba >= LbaLimit THEN lba % LbaWrap ELSE lba

(* numsects goes to the register as it is.  With 0, which the drive takes  *)
(* for CountMod, the loop makes no round and the call returns at once.     *)
StartRead(lba, n) ==
  /\ Begin("read", lba, n)
  /\ Command("read", ReadLba(lba), IF n = 0 THEN CountMod ELSE n, FALSE)
  /\ zero_read' = (zero_read \/ n = 0)
  /\ IF n = 0 THEN Return(0) ELSE pc' = "settle" /\ UNCHANGED ret
  /\ UNCHANGED <<cache, media>>

StartWrite(lba, n) ==
  /\ n > 0 /\ Begin("write", lba, n)
  /\ pc' = "chunk" /\ missed' = FALSE
  /\ UNCHANGED <<ret, drive, zero_read>>

(* The sectors of the current command: n = 0 in the register is CountMod.  *)
\* Mutation: one command for the whole request.
Chunk_Whole == call.n - done
Chunk == IF call.n - done >= CountMod THEN CountMod ELSE call.n - done

\* Mutation: lba is not advanced between commands.
NextChunk_SameLba ==
  /\ pc = "chunk" /\ done < call.n /\ call.lba + done < LbaLimit
  /\ Command("write", call.lba, Chunk, missed)
  /\ i' = 0 /\ pc' = "settle"
  /\ UNCHANGED <<call, done, buf, ret, cache, media, before, fault, ignored, zero_read>>
NextChunk ==
  /\ pc = "chunk" /\ done < call.n /\ call.lba + done < LbaLimit
  /\ Command("write", call.lba + done, Chunk, missed)
  /\ i' = 0 /\ pc' = "settle"
  /\ UNCHANGED <<call, done, buf, ret, cache, media, before, fault, ignored, zero_read>>

WriteReturns ==
  /\ pc = "chunk"
  /\ IF done = call.n THEN Return(0) ELSE call.lba + done >= LbaLimit /\ Return(3)
  /\ UNCHANGED <<call, i, done, buf, drive, history>>

(* The four reads of ALTSTATUS at the start of ide_polling: what matters   *)
(* is the time they take, not the port they reach (see IdeInit).           *)
\* Mutation: the status is read at once.
Settle_NoDelay == pc = "settle" /\ pc' = "spin" /\ UNCHANGED <<call, i, done, buf, ret, drive, history>>
Settle ==
  /\ pc = "settle" /\ pc' = "spin"
  /\ dev' = [dev EXCEPT !.shown = dev.phase]
  /\ UNCHANGED <<call, i, done, buf, ret, cache, media, history>>

(* The loop of ide_polling ends.                                           *)
NotBusy == pc = "spin" /\ dev.shown # "busy"

(* With check = 1 an error, or no DRQ, ends the read.                      *)
ReadFails ==
  /\ call.op = "read" /\ NotBusy /\ dev.shown # "ready"
  /\ \E r \in (IF dev.shown = "error" THEN {1, 2} ELSE {3}) : Return(r)
  /\ UNCHANGED <<call, i, done, buf, drive, history>>

ReadSector ==
  /\ call.op = "read" /\ NotBusy /\ dev.shown = "ready"
  /\ LET data == IF dev.phase = "ready" THEN View[dev.lba] ELSE NoData
     IN buf' = [k \in 0 .. i |-> IF k = i THEN data ELSE buf[k]]
  /\ dev' = IF dev.phase # "ready" THEN dev
            ELSE [dev EXCEPT !.phase = IF dev.left = 1 THEN "idle" ELSE "busy",
                             !.lba = @ + 1, !.left = @ - 1]
  /\ i' = i + 1
  /\ IF i' = call.n THEN Return(0) ELSE pc' = "settle" /\ UNCHANGED ret
  /\ UNCHANGED <<call, done, cache, media, history>>

(* With check = 0 the data is sent whatever the drive says: one that does  *)
(* not ask for data ignores it.                                            *)
WriteSector ==
  /\ call.op = "write" /\ NotBusy /\ i < Chunk
  /\ dev' = IF dev.phase = "ready" /\ dev.cmd = "write"
            THEN [dev EXCEPT !.phase = "busy", !.held = Data(done + i)]
            ELSE dev
  /\ i' = i + 1
  /\ pc' = IF i' = Chunk THEN "flush" ELSE "settle"
  /\ UNCHANGED <<call, done, buf, ret, cache, media, history>>

(* CACHE FLUSH follows the last sector at once.  A drive still busy with   *)
(* that sector ignores the command or, at best, keeps it for later; one    *)
(* with data nobody fetched may ignore it, too.                            *)
\* Mutation: no CACHE FLUSH.
IssueFlush_Never ==
  /\ pc = "flush" /\ pc' = "settle"
  /\ UNCHANGED <<call, i, done, buf, ret, drive, history>>
IssueFlush ==
  /\ pc = "flush" /\ pc' = "settle"
  /\ \/ dev.phase # "busy" /\ Takes("flush", 0, 0) /\ UNCHANGED ignored
     \/ /\ dev.phase = "busy" /\ dev.cmd = "write"
        /\ dev' = [dev EXCEPT !.flush_next = TRUE] /\ UNCHANGED ignored
     \/ dev.phase \in {"busy", "ready"} /\ ignored' = TRUE /\ UNCHANGED dev
  /\ UNCHANGED <<call, i, done, buf, ret, cache, media, before, fault, missed, zero_read>>

\* Mutation: sectors_remaining is not reduced.
FlushPolled_NoProgress ==
  /\ call.op = "write" /\ NotBusy /\ i = Chunk
  /\ i' = 0 /\ pc' = "chunk"
  /\ UNCHANGED <<call, done, buf, ret, drive, history>>
FlushPolled ==
  /\ call.op = "write" /\ NotBusy /\ i = Chunk
  /\ done' = done + Chunk /\ i' = 0
  /\ pc' = "chunk"
  /\ UNCHANGED <<call, buf, ret, drive, history>>

-----------------------------------------------------------------------------
(* The drive, external: what it is busy with ends.                         *)
NowIs(phase) == [dev EXCEPT !.phase = phase, !.shown = phase]

DevReady ==
  /\ dev.phase = "busy" /\ dev.cmd \in {"read", "write"} /\ dev.held = NoData
  /\ dev.lba < Capacity
  /\ dev' = NowIs("ready")
  /\ UNCHANGED <<driver, cache, media, history>>

DevTakesSector ==
  /\ dev.phase = "busy" /\ dev.held # NoData
  /\ cache' = [s \in DOMAIN cache \cup {dev.lba} |-> IF s = dev.lba THEN dev.held ELSE cache[s]]
  /\ LET next == [dev EXCEPT !.held = NoData, !.lba = @ + 1, !.left = @ - 1]
     IN dev' = IF dev.left > 1 THEN next
               ELSE IF dev.left = 1 /\ dev.flush_next THEN [next EXCEPT !.cmd = "flush"]
               ELSE [next EXCEPT !.phase = "idle", !.shown = "idle"]
  /\ UNCHANGED <<driver, media, history>>

DevFlushes ==
  /\ dev.phase = "busy" /\ dev.cmd = "flush"
  /\ media' = View /\ cache' = << >>
  /\ dev' = NowIs("idle")
  /\ UNCHANGED <<driver, history>>

(* It gives the command up: a bad sector, or one it does not have.         *)
DevFails ==
  /\ dev.phase = "busy"
  /\ dev' = [NowIs("error") EXCEPT !.held = NoData]
  /\ fault' = TRUE
  /\ UNCHANGED <<driver, cache, media, before, ignored, missed, zero_read>>

(* In its own time: it stores a cached sector; its status catches up.      *)
DevStores ==
  /\ \E s \in DOMAIN cache :
       /\ media' = [media EXCEPT ![s] = cache[s]]
       /\ cache' = [t \in DOMAIN cache \ {s} |-> cache[t]]
  /\ UNCHANGED <<driver, dev, history>>

DevShows ==
  /\ dev.shown # dev.phase /\ dev' = NowIs(dev.phase)
  /\ UNCHANGED <<driver, cache, media, history>>

-----------------------------------------------------------------------------
Call ==
  \/ \E lba \in Lbas, n \in ReadCounts : StartRead(lba, n)
  \/ \E lba \in Lbas, n \in WriteCounts : StartWrite(lba, n)
  \/ \E d \in Drives : Rejected(d)

DriverStep ==
  \/ NextChunk \/ WriteReturns \/ Settle \/ ReadFails \/ ReadSector
  \/ WriteSector \/ IssueFlush \/ FlushPolled

DeviceStep == DevReady \/ DevTakesSector \/ DevFlushes \/ DevFails

Next == Call \/ DriverStep \/ DeviceStep \/ DevStores \/ DevShows

(* The driver is the only thread and keeps polling; the drive always ends  *)
(* what it is busy with, if only by an error: the polling loops have no    *)
(* limit of their own.                                                     *)
Fairness == WF_vars(DriverStep) /\ WF_vars(DeviceStep)
Spec == Init /\ [][Next]_vars /\ Fairness

-----------------------------------------------------------------------------
Contents == (0 .. MaxCalls) \X Nat

TypeOK ==
  /\ pc \in {"idle", "chunk", "settle", "spin", "flush"}
  /\ call.op \in {"none", "read", "write"} /\ call.id \in 0 .. MaxCalls
  /\ i \in 0 .. CountMod /\ done \in 0 .. call.n /\ ret \in 0 .. 3
  /\ DOMAIN buf = 0 .. (IF call.op = "read" THEN i ELSE 0) - 1
  /\ dev.phase \in {"idle", "busy", "ready", "error"}
  /\ dev.shown \in {"idle", "busy", "ready", "error"}
  /\ dev.cmd \in {"none", "read", "write", "flush"} /\ dev.left \in 0 .. CountMod
  /\ DOMAIN cache \subseteq Sectors /\ DOMAIN media = Sectors
  /\ \A s \in Sectors : View[s] \in Contents /\ media[s] \in Contents

(* The drive ignored the call's READ or WRITE because it still had the     *)
(* sectors of a read of zero sectors: the one way to spoil a later call.   *)
Spoiled == missed /\ zero_read

(* A read that returns 0 has delivered the sectors it was asked for, in    *)
(* order, even on a drive that fails (ide_polling with check = 1); only    *)
(* after a read of zero sectors it may deliver those of that one instead.  *)
ReadReturnsDisk ==
  pc = "idle" /\ call.op = "read" /\ ret = 0 /\ call.lba < LbaLimit /\ ~Spoiled =>
    buf = [k \in 0 .. (call.n - 1) |-> View[call.lba + k]]

(* A write that returns 0 and met no error has put every sector in place:  *)
(* none was sent while the drive was not asking for it, unless a read of   *)
(* zero sectors left the drive with other things to do.                    *)
WriteVisible ==
  pc = "idle" /\ call.op = "write" /\ ret = 0 /\ ~fault /\ ~Spoiled =>
    \A k \in 0 .. (call.n - 1) : View[call.lba + k] = Data(k)

(* At every moment, error or ignored command or not, a sector holds what   *)
(* it held before the call or what the call has for that very sector;      *)
(* nothing lands elsewhere (the arithmetic of chunks: sectors_written, lba,*)
(* the data pointer).                                                      *)
NothingMisplaced ==
  \A s \in Sectors :
    \/ View[s] = before[s]
    \/ call.op = "write" /\ View[s] = Data(s - call.lba) /\ s - call.lba \in 0 .. (call.n - 1)

(* Every call returns, as long as the drive ends what it is busy with.     *)
CallReturns == pc # "idle" ~> pc = "idle"

(* elixir.c:21 and :38 report "written" whenever the write returned 0.     *)
WrittenWhenReported ==
  pc = "idle" /\ call.op = "write" /\ ret = 0 /\ ~Spoiled =>
    \A k \in 0 .. (call.n - 1) : View[call.lba + k] = Data(k)

(* CACHE FLUSH after every command: a write that returned 0, met no error  *)
(* and had none of its flushes ignored does not depend on the drive's      *)
(* keeping its power.  (A drive that is slow with the last sector may      *)
(* ignore the flush, and then the write still returns 0.)                  *)
DurableUnlessIgnored ==
  pc = "idle" /\ call.op = "write" /\ ret = 0 /\ ~fault /\ ~ignored /\ ~Spoiled =>
    \A k \in 0 .. (call.n - 1) : media[call.lba + k] = Data(k)

=============================================================================
