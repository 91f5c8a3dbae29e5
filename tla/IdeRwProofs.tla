---------------------------- MODULE IdeRwProofs -----------------------------
(***************************************************************************)
(* The transfers of ide_rw.c against a drive that may fail at any time,    *)
(* for every size of drive and of transfer.                                *)
(***************************************************************************)
EXTENDS IdeRw, TLAPS

Phases == {"idle", "busy", "ready", "error"}
Device == [phase : Phases, shown : Phases, cmd : {"none", "read", "write", "flush"}, lba : Nat,
           left : 0 .. CountMod, held : Contents \cup {NoData}, flush_next : BOOLEAN]
Calls == [op : {"none", "read", "write"}, lba : Nat, n : Nat, id : 0 .. MaxCalls]

Typed ==
  /\ pc \in {"idle", "chunk", "settle", "spin", "flush"}
  /\ call \in Calls /\ i \in Nat /\ done \in Nat /\ ret \in 0 .. 3
  /\ dev \in Device /\ fault \in BOOLEAN /\ ignored \in BOOLEAN
  /\ missed \in BOOLEAN /\ zero_read \in BOOLEAN
  /\ media \in [Sectors -> Contents]
  /\ DOMAIN cache \subseteq Sectors /\ \A s \in DOMAIN cache : cache[s] \in Contents

(* The driver leaves the drive alone only when it is busy with nothing,    *)
(* except for the sectors of a read of zero sectors.                       *)
AtRest ==
  /\ pc \in {"idle", "chunk"} => dev.phase \in {"idle", "error"} \/ (zero_read /\ dev.cmd = "read")
  /\ missed => zero_read
  /\ dev.cmd = "read" => ~dev.flush_next /\ (dev.phase \in {"busy", "ready"} => dev.left >= 1)
  /\ pc = "spin" => dev.shown = dev.phase
  /\ pc = "chunk" => call.op = "write"
  /\ dev.phase = "ready" => dev.lba \in Sectors
  /\ dev.held # NoData => call.op = "write" /\ dev.phase = "busy" /\ dev.cmd = "write"

(* Drive and driver agree on how far a read is, unless the drive ignored   *)
(* it and is at another.                                                   *)
ReadInv ==
  call.op # "write" =>
    /\ done = 0 /\ i <= call.n /\ call.n < CountMod
    /\ call.op = "none" => pc = "idle" /\ call.n = 0
    /\ DOMAIN buf = 0 .. (i - 1) /\ buf = [k \in DOMAIN buf |-> buf[k]]
    /\ pc # "idle" => pc \in {"settle", "spin"} /\ i < call.n /\ dev.cmd = "read"
    /\ pc = "idle" /\ ret = 0 => i = call.n
    /\ ~missed =>
         /\ \A k \in 0 .. (i - 1) : ReadLba(call.lba) + k \in Sectors /\ buf[k] = View[ReadLba(call.lba) + k]
         /\ pc # "idle" => /\ dev.phase # "idle"
                           /\ dev.phase # "error" =>
                                dev.lba = ReadLba(call.lba) + i /\ dev.left = call.n - i

(* What the drive is doing while a command of a write is under way.        *)
Flushing == dev.cmd = "flush" /\ dev.phase # "ready" /\ i = Chunk
AwaitsData ==
  /\ dev.cmd = "write" /\ dev.phase \in {"busy", "ready"} /\ dev.held = NoData
  /\ i < Chunk /\ dev.left = Chunk - i /\ dev.lba = call.lba + done + i
HoldsSector ==
  /\ dev.cmd = "write" /\ dev.phase = "busy" /\ dev.held = Data(done + i - 1)
  /\ i >= 1 /\ dev.left = Chunk - i + 1 /\ dev.lba = call.lba + done + i - 1 /\ dev.lba \in Sectors
ChunkTaken == dev.cmd = "write" /\ dev.phase = "idle" /\ i = Chunk
GivenUp == dev.cmd = "write" /\ dev.phase = "error"
Leftover == missed /\ dev.cmd = "read"

(* They agree on how far a write is, unless the drive has given it up or   *)
(* ignored it for a read nobody fetched.                                   *)
WriteInv ==
  call.op = "write" =>
    /\ done <= call.n /\ DOMAIN buf = {}
    /\ pc \in {"idle", "chunk"} => i = 0
    /\ pc = "idle" /\ ret = 0 => done = call.n
    /\ pc \in {"settle", "spin", "flush"} =>
         /\ done < call.n /\ i <= Chunk
         /\ pc = "flush" => i = Chunk /\ dev.cmd \in {"read", "write"}
         /\ dev.flush_next => i = Chunk /\ pc # "flush"
         /\ dev.phase = "error" => fault
         /\ Flushing \/ AwaitsData \/ HoldsSector \/ ChunkTaken \/ GivenUp \/ Leftover

(* What the drive has taken of the data is where it belongs.               *)
Arrived == IF dev.held = NoData THEN done + i ELSE done + i - 1
VisibleInv ==
  call.op = "write" /\ ~fault /\ ~missed =>
    \A k \in 0 .. (Arrived - 1) : call.lba + k \in Sectors /\ View[call.lba + k] = Data(k)

(* What a flush has followed is on the medium, unless it was ignored.      *)
Stored == IF dev.cmd = "flush" /\ dev.phase = "idle" THEN done + i ELSE done
DurableInv ==
  call.op = "write" /\ ~fault /\ ~ignored /\ ~missed =>
    /\ \A k \in 0 .. (Stored - 1) : media[call.lba + k] = Data(k)
    /\ pc \in {"settle", "spin"} /\ i = Chunk =>
         dev.cmd = "flush" \/ (dev.phase = "busy" /\ dev.flush_next)

IInv == Typed /\ AtRest /\ ReadInv /\ WriteInv /\ VisibleInv /\ DurableInv /\ NothingMisplaced

-----------------------------------------------------------------------------
LEMMA DataFacts ==
  ASSUME Typed
  PROVE  /\ NoData \notin Contents
         /\ \A k \in Nat : Data(k) \in Contents /\ Data(k) # NoData
  BY DEF Typed, Calls, Contents, NoData, Data

LEMMA ViewFacts ==
  ASSUME Typed
  PROVE  View \in [Sectors -> Contents]
  BY DEF Typed, View

LEMMA ViewKept ==
  ASSUME UNCHANGED <<cache, media>>
  PROVE  View' = View
  BY DEF View

LEMMA ReadLbaFacts ==
  ASSUME NEW lba \in Nat
  PROVE  ReadLba(lba) \in Nat /\ (lba < LbaLimit => ReadLba(lba) = lba)
<1>1. LbaWrap \in Nat \ {0} /\ LbaLimit \in Int
  BY IdeRwAssumption DEF IdeRwAssumption
<1>2. lba % LbaWrap \in Nat
  BY <1>1
<1>3. QED
  BY <1>1, <1>2 DEF ReadLba

LEMMA ChunkFacts ==
  ASSUME Typed, done < call.n
  PROVE  Chunk \in 1 .. CountMod /\ done + Chunk <= call.n
<1>1. CountMod \in Nat \ {0} /\ call.n \in Nat /\ done \in Nat
  BY IdeRwAssumption DEF IdeRwAssumption, Typed, Calls
<1>2. QED
  BY <1>1 DEF Chunk

(* The drive takes a command.                                              *)
LEMMA TakesFacts ==
  ASSUME Typed, NEW cmd \in {"read", "write", "flush"}, NEW lba \in Nat, NEW n \in 0 .. CountMod,
         Takes(cmd, lba, n)
  PROVE  /\ dev' \in Device
         /\ dev'.phase = "busy" /\ dev'.shown = dev.shown /\ dev'.cmd = cmd /\ dev'.lba = lba
         /\ dev'.left = n /\ dev'.held = NoData /\ dev'.flush_next = FALSE
<1>1. dev \in Device
  BY DEF Typed
<1>2. dev' = [phase |-> "busy", shown |-> dev.shown, cmd |-> cmd, lba |-> lba, left |-> n,
              held |-> NoData, flush_next |-> FALSE]
  BY <1>1 DEF Takes, Device
<1>3. QED
  BY <1>1, <1>2 DEF Device, Phases

LEMMA InitEstablishesIInv == Init => IInv
<1> SUFFICES ASSUME Init PROVE IInv
  OBVIOUS
<1>1. CountMod \in Nat \ {0} /\ MaxCalls \in Nat /\ Capacity \in Nat
  BY IdeRwAssumption DEF IdeRwAssumption
<1>2. Typed
  <2>1. media \in [Sectors -> Contents]
    BY <1>1 DEF Init, Sectors, Contents
  <2>2. dev \in Device
    BY <1>1 DEF Init, Device, Phases
  <2>3. DOMAIN cache = {}
    BY DEF Init
  <2>4. call \in Calls
    BY <1>1 DEF Init, Calls
  <2>5. pc = "idle" /\ i \in Nat /\ done \in Nat /\ ret \in 0 .. 3
    BY DEF Init
  <2>6. fault \in BOOLEAN /\ ignored \in BOOLEAN /\ missed \in BOOLEAN /\ zero_read \in BOOLEAN
    BY Zenon DEF Init
  <2>7. QED
    BY <2>1, <2>2, <2>3, <2>4, <2>5, <2>6 DEF Typed
<1>3. AtRest
  BY DEF Init, AtRest
<1>4. ReadInv
  BY <1>1 DEF Init, ReadInv
<1>5. WriteInv /\ VisibleInv /\ DurableInv
  BY DEF Init, WriteInv, VisibleInv, DurableInv
<1>6. NothingMisplaced
  BY DEF Init, NothingMisplaced, View
<1>7. QED
  BY <1>2, <1>3, <1>4, <1>5, <1>6 DEF IInv

-----------------------------------------------------------------------------
LEMMA CallKeepsIInv ==
  ASSUME IInv, Call
  PROVE  IInv'
<1> USE DEF IInv
<1>1. Typed /\ AtRest
  OBVIOUS
<1>2. /\ Lbas \subseteq Nat /\ ReadCounts \subseteq 0 .. (CountMod - 1) /\ WriteCounts \subseteq Nat
      /\ CountMod \in Nat \ {0} /\ MaxCalls \in Nat
  BY IdeRwAssumption DEF IdeRwAssumption
<1>3. ASSUME NEW op \in {"read", "write"}, NEW lba \in Nat, NEW n \in Nat, Begin(op, lba, n)
      PROVE  /\ call' \in Calls /\ call'.op = op /\ call'.lba = lba /\ call'.n = n
             /\ i' = 0 /\ done' = 0 /\ DOMAIN buf' = {} /\ before' = View /\ fault' = FALSE /\ ignored' = FALSE
  BY <1>1, <1>2, <1>3 DEF Begin, Typed, Calls
<1>4. ASSUME UNCHANGED <<cache, media>>, before' = View PROVE NothingMisplaced'
  BY <1>4, ViewKept DEF NothingMisplaced
<1>5. ASSUME NEW lba \in Lbas, NEW n \in ReadCounts, StartRead(lba, n) PROVE IInv'
  <2> DEFINE sectors == IF n = 0 THEN CountMod ELSE n
  <2>0. /\ lba \in Nat /\ n \in 0 .. (CountMod - 1) /\ n \in Nat /\ n < CountMod /\ Begin("read", lba, n)
        /\ sectors \in 0 .. CountMod /\ sectors >= 1
    BY <1>2, <1>5 DEF StartRead
  <2>1. /\ call' \in Calls /\ call'.op = "read" /\ call'.lba = lba /\ call'.n = n
        /\ i' = 0 /\ done' = 0 /\ DOMAIN buf' = {} /\ before' = View /\ fault' = FALSE /\ ignored' = FALSE
    BY <1>3, <2>0
  <2>2. /\ pc = "idle" /\ UNCHANGED <<cache, media>> /\ zero_read' = (zero_read \/ n = 0)
        /\ IF n = 0 THEN pc' = "idle" /\ ret' = 0 ELSE pc' = "settle" /\ ret' = ret
    BY <1>5 DEF StartRead, Begin, Return
  <2>3. zero_read' \in BOOLEAN /\ (zero_read => zero_read') /\ (n = 0 => zero_read')
    BY <2>2
  <2>4. ret' \in 0 .. 3 /\ pc' \in {"idle", "settle"}
    BY <1>1, <2>2 DEF Typed
  <2>5. ReadLba(lba) \in Nat /\ ReadLba(call.lba)' = ReadLba(lba)
    BY <2>0, <2>1, ReadLbaFacts DEF ReadLba
  <2>6. /\ dev' \in Device /\ dev'.cmd = "read" /\ missed' \in BOOLEAN
        /\ dev'.phase # "idle" /\ dev'.held = NoData /\ (missed' => zero_read')
        /\ ~missed' => dev'.phase = "busy" /\ dev'.lba = ReadLba(lba) /\ dev'.left = sectors
        /\ ~dev'.flush_next /\ (dev'.phase \in {"busy", "ready"} => dev'.left >= 1)
        /\ dev'.phase = "ready" => dev'.lba \in Sectors
    <3>1. Command("read", ReadLba(lba), sectors, FALSE)
      BY <1>5 DEF StartRead
    <3>2. CASE Takes("read", ReadLba(lba), sectors) /\ missed' = FALSE
      <4>1. /\ dev' \in Device
            /\ dev'.phase = "busy" /\ dev'.cmd = "read" /\ dev'.lba = ReadLba(lba)
            /\ dev'.left = sectors /\ dev'.held = NoData /\ dev'.flush_next = FALSE
        BY <1>1, <2>0, <2>5, <3>2, TakesFacts
      <4>2. missed' \in BOOLEAN /\ ~missed'
        BY <3>2
      <4>3. QED
        BY <2>0, <4>1, <4>2
    <3>3. CASE dev.phase \in {"busy", "ready"} /\ UNCHANGED dev /\ missed' = TRUE
      <4>1. zero_read /\ dev.cmd = "read" /\ dev.held = NoData /\ ~dev.flush_next /\ dev.left >= 1
        BY <2>2, <3>3 DEF AtRest
      <4>2. dev.phase = "ready" => dev.lba \in Sectors
        BY DEF AtRest
      <4>3. missed' \in BOOLEAN /\ missed' /\ dev' = dev /\ dev \in Device /\ dev.phase # "idle"
        BY <1>1, <3>3 DEF Typed
      <4>4. QED
        BY <2>3, <4>1, <4>2, <4>3
    <3>4. QED
      BY <3>1, <3>2, <3>3 DEF Command
  <2>7. Typed'
    BY <1>1, <2>1, <2>2, <2>3, <2>4, <2>6 DEF Typed, Sectors, Contents
  <2>8. AtRest'
    BY <2>1, <2>2, <2>3, <2>4, <2>6 DEF AtRest, Sectors
  <2>9. ReadInv'
    <3>1. i' = 0 /\ DOMAIN buf' = 0 .. (i' - 1) /\ 0 .. (i' - 1) = {} /\ buf' = [k \in DOMAIN buf' |-> buf'[k]]
      <4>1. buf' = << >>
        BY <2>0 DEF Begin
      <4>2. QED
        BY <2>1, <4>1
    <3>2. i' <= call'.n /\ call'.n < CountMod /\ (n # 0 => i' < call'.n /\ sectors = call'.n - i')
      BY <1>2, <2>0, <2>1
    <3>3. ReadLba(lba) = ReadLba(call.lba)' + i'
      BY <2>1, <2>5
    <3>4. ~missed' => dev'.phase = "busy" /\ dev'.lba = ReadLba(call.lba)' + i' /\ dev'.left = sectors
      BY <2>6, <3>3
    <3>5. CASE n = 0
      BY <2>1, <2>2, <3>1, <3>2, <3>5 DEF ReadInv
    <3>6. CASE n # 0
      <4> HIDE DEF sectors
      <4>1. QED
        BY <2>1, <2>2, <2>6, <3>1, <3>2, <3>4, <3>6 DEF ReadInv
    <3>7. QED
      BY <3>5, <3>6
  <2>10. WriteInv' /\ VisibleInv' /\ DurableInv'
    BY <2>1 DEF WriteInv, VisibleInv, DurableInv
  <2>11. QED
    BY <1>4, <2>1, <2>2, <2>7, <2>8, <2>9, <2>10
<1>6. ASSUME NEW lba \in Lbas, NEW n \in WriteCounts, StartWrite(lba, n) PROVE IInv'
  <2>1. /\ call' \in Calls /\ call'.op = "write" /\ call'.lba = lba /\ call'.n = n
        /\ i' = 0 /\ done' = 0 /\ DOMAIN buf' = {} /\ before' = View /\ fault' = FALSE /\ ignored' = FALSE
    BY <1>2, <1>3, <1>6 DEF StartWrite
  <2>2. /\ pc = "idle" /\ pc' = "chunk" /\ n > 0
        /\ UNCHANGED <<ret, dev, cache, media, zero_read>> /\ missed' = FALSE
    BY <1>6 DEF StartWrite, Begin, drive
  <2>3. Typed'
    <3>1. missed' \in BOOLEAN /\ zero_read' \in BOOLEAN
      BY <1>1, <2>2 DEF Typed
    <3>2. QED
      BY <1>1, <2>1, <2>2, <3>1 DEF Typed, Sectors, Contents
  <2>4. AtRest'
    BY <1>1, <2>1, <2>2 DEF AtRest, Sectors
  <2>5. ReadInv' /\ WriteInv'
    BY <1>2, <2>1, <2>2 DEF ReadInv, WriteInv
  <2>6. VisibleInv' /\ DurableInv'
    <3>1. dev.held = NoData
      BY <2>2 DEF AtRest
    <3>2. QED
      BY <2>1, <2>2, <3>1 DEF VisibleInv, DurableInv, Arrived, Stored
  <2>7. QED
    BY <1>4, <2>1, <2>2, <2>3, <2>4, <2>5, <2>6
<1>7. ASSUME NEW d \in Drives, Rejected(d) PROVE IInv'
  <2>1. PICK op \in {"read", "write"}, r \in 0 .. 2 :
          Begin(op, 0, 0) /\ Return(r) /\ (op = "read" => r # 0)
    BY <1>7 DEF Rejected
  <2>2. /\ call' \in Calls /\ call'.op = op /\ call'.lba = 0 /\ call'.n = 0
        /\ i' = 0 /\ done' = 0 /\ DOMAIN buf' = {} /\ before' = View /\ fault' = FALSE /\ ignored' = FALSE
    BY <1>3, <2>1
  <2>3. /\ pc = "idle" /\ pc' = "idle" /\ ret' = r
        /\ UNCHANGED <<dev, cache, media, zero_read>> /\ missed' = FALSE
    BY <1>7, <2>1 DEF Rejected, Begin, Return, drive
  <2>4. Typed'
    <3>1. ret' \in 0 .. 3
      BY <2>3
    <3>2. zero_read \in BOOLEAN
      BY <1>1 DEF Typed
    <3>3. missed' \in BOOLEAN /\ zero_read' \in BOOLEAN
      BY <2>3, <3>2, Zenon
    <3>4. QED
      BY <1>1, <2>2, <2>3, <3>1, <3>3 DEF Typed, Sectors, Contents
  <2>5. dev.held = NoData
    BY <2>3 DEF AtRest
  <2>6. AtRest'
    BY <1>1, <2>2, <2>3, <2>5 DEF AtRest, Sectors
  <2>7. buf' = << >>
    BY <2>1 DEF Begin
  <2>8. ReadInv' /\ WriteInv'
    BY <1>2, <2>1, <2>2, <2>3, <2>7 DEF ReadInv, WriteInv
  <2>9. VisibleInv' /\ DurableInv'
    BY <2>2, <2>3, <2>5 DEF VisibleInv, DurableInv, Arrived, Stored
  <2>10. QED
    BY <1>4, <2>2, <2>3, <2>4, <2>6, <2>8, <2>9
<1>8. QED
  BY <1>5, <1>6, <1>7 DEF Call

-----------------------------------------------------------------------------
LEMMA NothingNewMisplaced ==
  ASSUME NothingMisplaced, UNCHANGED <<call, cache, media, before>>
  PROVE  NothingMisplaced'
  BY ViewKept DEF NothingMisplaced, Data

LEMMA NextChunkKeepsIInv ==
  ASSUME IInv, NextChunk
  PROVE  IInv'
<1> USE DEF IInv
<1>1. /\ pc = "chunk" /\ pc' = "settle" /\ done < call.n /\ i' = 0
      /\ UNCHANGED <<call, done, buf, ret, cache, media, before, fault, ignored, zero_read>>
  BY DEF NextChunk
<1>2. Typed /\ call.op = "write" /\ i = 0 /\ dev.held = NoData
  BY <1>1 DEF AtRest, WriteInv
<1>3. /\ Chunk \in 1 .. CountMod /\ call.lba + done \in Nat /\ call.lba + done + 0 = call.lba + done
      /\ Chunk \in 0 .. CountMod /\ done \in Nat /\ done + 0 = done
  BY <1>1, <1>2, ChunkFacts DEF Typed, Calls
<1>4. Chunk' = Chunk
  BY <1>1 DEF Chunk
<1>5. ReadInv'
  BY <1>1, <1>2 DEF ReadInv
<1>6. CASE Takes("write", call.lba + done, Chunk) /\ missed' = missed
  <2>1. /\ dev' \in Device /\ dev'.phase = "busy" /\ dev'.cmd = "write" /\ dev'.lba = call.lba + done
        /\ dev'.left = Chunk /\ dev'.held = NoData /\ dev'.flush_next = FALSE
    BY <1>2, <1>3, <1>6, TakesFacts
  <2>2. Typed' /\ AtRest'
    BY <1>1, <1>2, <1>6, <2>1 DEF Typed, AtRest
  <2>3. AwaitsData'
    BY <1>1, <1>3, <1>4, <2>1 DEF AwaitsData
  <2>4. WriteInv'
    BY <1>1, <1>2, <1>3, <1>4, <2>1, <2>3 DEF WriteInv
  <2>5. Arrived = done /\ Arrived' = done /\ Stored = done /\ Stored' = done
    BY <1>1, <1>2, <1>3, <2>1 DEF Arrived, Stored
  <2>6. VisibleInv'
    BY <1>1, <1>6, <2>5, ViewKept DEF VisibleInv, Data
  <2>7. DurableInv'
    BY <1>1, <1>3, <1>4, <1>6, <2>5 DEF DurableInv, Data
  <2>8. QED
    BY <1>1, <1>5, <2>2, <2>4, <2>6, <2>7, NothingNewMisplaced
<1>7. CASE dev.phase \in {"busy", "ready"} /\ UNCHANGED dev /\ missed' = TRUE
  <2>1. zero_read /\ dev.cmd = "read" /\ ~dev.flush_next
    BY <1>1, <1>7 DEF AtRest
  <2>2. missed' \in BOOLEAN /\ missed'
    BY <1>7
  <2>3. Typed'
    BY <1>1, <1>2, <1>7, <2>2 DEF Typed
  <2>4. AtRest'
    BY <1>1, <1>2, <1>7, <2>1 DEF AtRest
  <2>5. Leftover'
    BY <1>7, <2>1, <2>2 DEF Leftover
  <2>6. WriteInv'
    BY <1>1, <1>2, <1>3, <1>4, <1>7, <2>1, <2>5 DEF WriteInv
  <2>7. VisibleInv' /\ DurableInv'
    BY <2>2 DEF VisibleInv, DurableInv
  <2>8. QED
    BY <1>1, <1>5, <2>3, <2>4, <2>6, <2>7, NothingNewMisplaced
<1>8. QED
  BY <1>6, <1>7 DEF NextChunk, Command

LEMMA WriteReturnsKeepsIInv ==
  ASSUME IInv, WriteReturns
  PROVE  IInv'
<1> USE DEF IInv
<1>1. /\ pc = "chunk" /\ pc' = "idle" /\ ret' \in 0 .. 3 /\ (ret' = 0 => done = call.n)
      /\ UNCHANGED <<call, i, done, buf, drive, before, fault, ignored, missed, zero_read>>
  BY DEF WriteReturns, Return, history
<1>2. UNCHANGED <<dev, cache, media>> /\ call.op = "write"
  BY <1>1 DEF drive, AtRest
<1>3. Typed'
  BY <1>1, <1>2 DEF Typed
<1>4. AtRest' /\ ReadInv'
  BY <1>1, <1>2 DEF AtRest, ReadInv
<1>5. WriteInv'
  BY <1>1, <1>2 DEF WriteInv
<1>6. VisibleInv'
  BY <1>1, <1>2, ViewKept DEF VisibleInv, Arrived, Data
<1>7. DurableInv'
  BY <1>1, <1>2 DEF DurableInv, Stored, Data
<1>8. QED
  BY <1>1, <1>2, <1>3, <1>4, <1>5, <1>6, <1>7, NothingNewMisplaced

(* The status register catches up.                                         *)
LEMMA ShownFacts ==
  ASSUME Typed, dev' = [dev EXCEPT !.shown = dev.phase]
  PROVE  /\ dev' \in Device /\ dev'.shown = dev.phase
         /\ dev'.phase = dev.phase /\ dev'.cmd = dev.cmd /\ dev'.lba = dev.lba /\ dev'.left = dev.left
         /\ dev'.held = dev.held /\ dev'.flush_next = dev.flush_next
  BY DEF Typed, Device

LEMMA SettleKeepsIInv ==
  ASSUME IInv, Settle
  PROVE  IInv'
<1> USE DEF IInv
<1>1. /\ pc = "settle" /\ pc' = "spin"
      /\ UNCHANGED <<call, i, done, buf, ret, cache, media, before, fault, ignored, missed, zero_read>>
  BY DEF Settle, history
<1>2. /\ dev' \in Device /\ dev'.shown = dev.phase
      /\ dev'.phase = dev.phase /\ dev'.cmd = dev.cmd /\ dev'.lba = dev.lba /\ dev'.left = dev.left
      /\ dev'.held = dev.held /\ dev'.flush_next = dev.flush_next
  BY ShownFacts DEF Settle
<1>3. Typed' /\ AtRest'
  BY <1>1, <1>2 DEF Typed, AtRest
<1>4. ReadInv'
  BY <1>1, <1>2, ViewKept DEF ReadInv, ReadLba
<1>5. Chunk' = Chunk
  BY <1>1 DEF Chunk
<1>6. /\ Flushing' = Flushing /\ AwaitsData' = AwaitsData /\ HoldsSector' = HoldsSector
      /\ ChunkTaken' = ChunkTaken /\ GivenUp' = GivenUp /\ Leftover' = Leftover
  BY <1>1, <1>2, <1>5 DEF Flushing, AwaitsData, HoldsSector, ChunkTaken, GivenUp, Leftover, Data
<1>7. WriteInv'
  BY <1>1, <1>2, <1>5, <1>6 DEF WriteInv
<1>8. VisibleInv'
  BY <1>1, <1>2, ViewKept DEF VisibleInv, Arrived, Data
<1>9. DurableInv'
  BY <1>1, <1>2, <1>5 DEF DurableInv, Stored, Data
<1>10. QED
  BY <1>1, <1>3, <1>4, <1>7, <1>8, <1>9, NothingNewMisplaced

LEMMA ReadFailsKeepsIInv ==
  ASSUME IInv, ReadFails
  PROVE  IInv'
<1> USE DEF IInv
<1>1. /\ pc = "spin" /\ pc' = "idle" /\ ret' \in 1 .. 3 /\ call.op = "read"
      /\ dev.shown \notin {"busy", "ready"}
      /\ UNCHANGED <<call, i, done, buf, dev, cache, media, before, fault, ignored, missed, zero_read>>
  BY DEF ReadFails, NotBusy, Return, drive, history
<1>2. Typed' /\ AtRest'
  BY <1>1 DEF Typed, AtRest, Device, Phases
<1>3. ReadInv'
  BY <1>1, ViewKept DEF ReadInv, ReadLba
<1>4. WriteInv' /\ VisibleInv' /\ DurableInv'
  BY <1>1 DEF WriteInv, VisibleInv, DurableInv
<1>5. QED
  BY <1>1, <1>2, <1>3, <1>4, NothingNewMisplaced

LEMMA ReadSectorKeepsIInv ==
  ASSUME IInv, ReadSector
  PROVE  IInv'
<1> USE DEF IInv
<1>1. /\ pc = "spin" /\ call.op = "read" /\ dev.phase = "ready" /\ i' = i + 1
      /\ UNCHANGED <<call, done, cache, media, before, fault, ignored, missed, zero_read>>
  BY DEF ReadSector, NotBusy, AtRest, history
<1>2. /\ done = 0 /\ i < call.n /\ call.n < CountMod /\ DOMAIN buf = 0 .. (i - 1) /\ dev.cmd = "read"
      /\ dev.lba \in Sectors /\ dev.left >= 1 /\ ~dev.flush_next
      /\ ~missed =>
           /\ \A k \in 0 .. (i - 1) : ReadLba(call.lba) + k \in Sectors /\ buf[k] = View[ReadLba(call.lba) + k]
           /\ dev.lba = ReadLba(call.lba) + i /\ dev.left = call.n - i
  BY <1>1 DEF ReadInv, AtRest
<1>3. Typed /\ i \in Nat /\ call.n \in Nat /\ dev.held = NoData /\ CountMod \in Nat
  BY <1>1, IdeRwAssumption DEF Typed, Calls, AtRest, IdeRwAssumption
<1>4. buf' = [k \in 0 .. i |-> IF k = i THEN View[dev.lba] ELSE buf[k]]
  BY <1>1 DEF ReadSector
<1>5. dev' = [dev EXCEPT !.phase = IF dev.left = 1 THEN "idle" ELSE "busy", !.lba = @ + 1, !.left = @ - 1]
  BY <1>1 DEF ReadSector
<1>6. /\ dev' \in Device /\ dev'.phase = (IF dev.left = 1 THEN "idle" ELSE "busy")
      /\ dev'.lba = dev.lba + 1 /\ dev'.left = dev.left - 1 /\ dev'.cmd = "read" /\ dev'.held = NoData
      /\ ~dev'.flush_next /\ (dev'.phase # "idle" => dev'.left >= 1)
  <2>1. dev \in Device /\ dev.left \in 1 .. CountMod
    <3>1. dev \in Device
      BY <1>3 DEF Typed
    <3>2. dev.left \in 0 .. CountMod
      BY <3>1 DEF Device
    <3>3. QED
      BY <1>2, <1>3, <3>1, <3>2
  <2>2. QED
    <3>1. dev' = [phase |-> IF dev.left = 1 THEN "idle" ELSE "busy", shown |-> dev.shown, cmd |-> "read",
                  lba |-> dev.lba + 1, left |-> dev.left - 1, held |-> NoData, flush_next |-> dev.flush_next]
      BY <1>2, <1>3, <1>5, <2>1 DEF Device
    <3>2. dev.left - 1 \in 0 .. CountMod /\ dev.lba + 1 \in Nat /\ dev.shown \in Phases /\ dev.flush_next \in BOOLEAN
      BY <1>3, <2>1 DEF Device
    <3>3. dev.left # 1 => dev.left - 1 >= 1
      BY <2>1
    <3>4. QED
      BY <1>2, <3>1, <3>2, <3>3 DEF Device, Phases
<1>7. IF i' = call.n THEN pc' = "idle" /\ ret' = 0 ELSE pc' = "settle" /\ ret' = ret
  BY DEF ReadSector, Return
<1>8. Typed'
  <2>1. ret' \in 0 .. 3 /\ pc' \in {"idle", "settle"} /\ i' \in Nat
    BY <1>1, <1>3, <1>7 DEF Typed
  <2>2. QED
    BY <1>1, <1>3, <1>6, <2>1 DEF Typed
<1>9. AtRest'
  <2>1. ~missed => (dev.left = 1 <=> i' = call.n)
    BY <1>1, <1>2, <1>3
  <2>2. dev'.phase # "ready" /\ (missed => zero_read)
    BY <1>6 DEF AtRest
  <2>3. QED
    BY <1>1, <1>6, <1>7, <2>1, <2>2 DEF AtRest
<1>10. ReadInv'
  <2>1. ReadLba(call.lba)' = ReadLba(call.lba) /\ View' = View /\ call.lba \in Nat
    BY <1>1, <1>3, ViewKept DEF ReadLba, Typed, Calls
  <2>2. 0 .. (i' - 1) = 0 .. i /\ DOMAIN buf' = 0 .. i /\ buf' = [k \in DOMAIN buf' |-> buf'[k]]
    BY <1>1, <1>3, <1>4
  <2>3. ASSUME ~missed, NEW k \in 0 .. i PROVE ReadLba(call.lba) + k \in Sectors /\ buf'[k] = View[ReadLba(call.lba) + k]
    <3>1. CASE k = i
      BY <1>2, <1>4, <2>3, <3>1
    <3>2. CASE k # i
      <4>1. k \in 0 .. (i - 1)
        BY <1>3, <3>2
      <4>2. QED
        BY <1>2, <1>4, <2>3, <3>2, <4>1
    <3>3. QED
      BY <3>1, <3>2
  <2>4. ~missed => (dev.left = 1 <=> i' = call.n)
    BY <1>1, <1>2, <1>3
  <2>5. ReadLba(call.lba) \in Nat
    BY <2>1, ReadLbaFacts
  <2>6. i' <= call.n /\ (~missed => dev'.lba = ReadLba(call.lba) + i' /\ dev'.left = call.n - i')
    <3>1. i' <= call.n
      BY <1>1, <1>2, <1>3
    <3>2. ASSUME ~missed PROVE dev'.lba = ReadLba(call.lba) + i' /\ dev'.left = call.n - i'
      <4>1. dev.lba = ReadLba(call.lba) + i /\ dev.left = call.n - i
        BY <1>2, <3>2
      <4>2. dev'.lba = (ReadLba(call.lba) + i) + 1 /\ dev'.left = (call.n - i) - 1
        BY <1>6, <4>1
      <4>3. QED
        BY <1>1, <1>3, <2>5, <4>2
    <3>3. QED
      BY <3>1, <3>2
  <2>7. i' # call.n => i' < call.n
    BY <1>1, <1>2, <1>3
  <2>8. QED
    BY <1>1, <1>2, <1>6, <1>7, <2>1, <2>2, <2>3, <2>4, <2>6, <2>7 DEF ReadInv
<1>11. WriteInv' /\ VisibleInv' /\ DurableInv'
  BY <1>1 DEF WriteInv, VisibleInv, DurableInv
<1>12. QED
  BY <1>1, <1>8, <1>9, <1>10, <1>11, NothingNewMisplaced

LEMMA WriteSectorKeepsIInv ==
  ASSUME IInv, WriteSector
  PROVE  IInv'
<1> USE DEF IInv
<1>1. /\ pc = "spin" /\ call.op = "write" /\ dev.phase # "busy" /\ i < Chunk /\ i' = i + 1
      /\ UNCHANGED <<call, done, buf, ret, cache, media, before, fault, ignored, missed, zero_read>>
      /\ pc' = IF i' = Chunk THEN "flush" ELSE "settle"
  BY DEF WriteSector, NotBusy, AtRest, history
<1>2. Typed /\ i \in Nat /\ done \in Nat /\ call.lba \in Nat /\ done < call.n /\ dev.held = NoData
  BY <1>1 DEF Typed, Calls, AtRest, WriteInv
<1>3. Chunk \in 1 .. CountMod /\ Chunk' = Chunk /\ CountMod \in Nat
  BY <1>1, <1>2, ChunkFacts, IdeRwAssumption DEF Chunk, IdeRwAssumption
<1>4. (dev.phase = "ready" /\ AwaitsData) \/ GivenUp \/ Leftover
  BY <1>1, <1>2, <1>3 DEF WriteInv, Flushing, AwaitsData, HoldsSector, ChunkTaken, GivenUp
<1>5. i' \in Nat /\ i' <= Chunk /\ pc' \in {"flush", "settle"} /\ (pc' = "flush" => i' = Chunk)
  BY <1>1, <1>2, <1>3
<1>10. ~dev.flush_next
  BY <1>1, <1>2, <1>3 DEF WriteInv
<1>6. ReadInv'
  BY <1>1 DEF ReadInv
<1>7. CASE dev.phase = "ready" /\ AwaitsData
  <2>1. Data(done + i) \in Contents /\ Data(done + i) # NoData
    BY <1>2, DataFacts
  <2>2. /\ dev' \in Device /\ dev'.phase = "busy" /\ dev'.cmd = "write" /\ dev'.held = Data(done + i)
        /\ dev'.lba = dev.lba /\ dev'.left = dev.left /\ dev'.shown = dev.shown
        /\ dev'.flush_next = dev.flush_next
    <3>1. dev' = [dev EXCEPT !.phase = "busy", !.held = Data(done + i)]
      BY <1>7 DEF WriteSector, AwaitsData
    <3>2. dev \in Device /\ dev.cmd = "write"
      BY <1>2, <1>7 DEF Typed, AwaitsData
    <3>3. QED
      BY <2>1, <3>1, <3>2 DEF Device, Phases
  <2>3. Typed'
    BY <1>1, <1>2, <1>5, <2>2 DEF Typed
  <2>4. AtRest'
    BY <1>1, <1>5, <2>2 DEF AtRest
  <2>5. HoldsSector'
    <3>1. dev.lba \in Sectors /\ dev.left = Chunk - i /\ dev.lba = call.lba + done + i
      BY <1>7 DEF AtRest, AwaitsData
    <3>2. done + i' - 1 = done + i /\ call.lba + done + i' - 1 = call.lba + done + i /\ i' >= 1
          /\ Chunk - i' + 1 = Chunk - i
      BY <1>1, <1>2, <1>3
    <3>4. dev'.left = Chunk' - i' + 1 /\ dev'.lba = call'.lba + done' + i' - 1 /\ dev'.lba \in Sectors
      BY <1>1, <1>3, <2>2, <3>1, <3>2
    <3>6. (done + i - 1)' = done + i
      BY <1>1, <3>2
    <3>7. Data(done + i - 1)' = Data(done + i)
      BY <1>1, <3>6 DEF Data
    <3>8. QED
      BY <2>2, <3>2, <3>4, <3>7 DEF HoldsSector
  <2>6. WriteInv'
    BY <1>1, <1>2, <1>3, <1>5, <1>10, <2>2, <2>5 DEF WriteInv
  <2>7. VisibleInv'
    <3>1. Arrived = done + i /\ Arrived' = done + i
      BY <1>1, <1>2, <2>1, <2>2 DEF Arrived
    <3>2. QED
      BY <1>1, <3>1, ViewKept DEF VisibleInv, Data
  <2>8. DurableInv'
    <3>1. Stored = done /\ Stored' = done
      BY <1>1, <1>7, <2>2 DEF Stored
    <3>2. QED
      BY <1>1, <1>3, <1>5, <2>2, <3>1 DEF DurableInv, Data
  <2>9. QED
    BY <1>1, <1>6, <2>3, <2>4, <2>6, <2>7, <2>8, NothingNewMisplaced
<1>8. CASE GivenUp \/ Leftover
  <2>1. dev' = dev /\ (dev.phase = "error" => fault) /\ (fault \/ missed)
    BY <1>1, <1>8 DEF WriteSector, GivenUp, Leftover, WriteInv
  <2>2. Typed'
    BY <1>1, <1>2, <1>5, <2>1 DEF Typed
  <2>3. AtRest'
    BY <1>1, <1>5, <2>1 DEF AtRest
  <2>4. dev.cmd \in {"read", "write"} /\ (GivenUp' \/ Leftover')
    BY <1>1, <1>8, <2>1 DEF GivenUp, Leftover
  <2>5. WriteInv'
    BY <1>1, <1>2, <1>3, <1>5, <1>10, <2>1, <2>4 DEF WriteInv
  <2>6. VisibleInv' /\ DurableInv'
    BY <1>1, <2>1 DEF VisibleInv, DurableInv
  <2>7. QED
    BY <1>1, <1>6, <2>2, <2>3, <2>5, <2>6, NothingNewMisplaced
<1>9. QED
  BY <1>4, <1>7, <1>8

LEMMA IssueFlushKeepsIInv ==
  ASSUME IInv, IssueFlush
  PROVE  IInv'
<1> USE DEF IInv
<1>1. /\ pc = "flush" /\ pc' = "settle"
      /\ UNCHANGED <<call, i, done, buf, ret, cache, media, before, fault, missed, zero_read>>
  BY DEF IssueFlush
<1>2. Typed /\ call.op = "write" /\ i = Chunk /\ dev.cmd \in {"read", "write"} /\ done < call.n /\ i <= Chunk
  BY <1>1 DEF ReadInv, WriteInv
<1>3. Chunk \in 1 .. CountMod /\ Chunk' = Chunk /\ i \in Nat /\ done \in Nat
  BY <1>1, <1>2, ChunkFacts DEF Chunk, Typed
<1>4. HoldsSector \/ ChunkTaken \/ GivenUp \/ Leftover
  BY <1>1, <1>2, <1>3 DEF WriteInv, Flushing, AwaitsData
<1>5. ReadInv'
  BY <1>1, <1>2 DEF ReadInv
<1>6. CASE dev.phase # "busy" /\ Takes("flush", 0, 0) /\ UNCHANGED ignored
  <2>1. 0 \in Nat /\ 0 \in 0 .. CountMod
    BY IdeRwAssumption DEF IdeRwAssumption
  <2>2. /\ dev' \in Device /\ dev'.phase = "busy" /\ dev'.cmd = "flush" /\ dev'.held = NoData
        /\ dev'.shown = dev.shown /\ dev'.flush_next = FALSE
    BY <1>2, <1>6, <2>1, TakesFacts
  <2>3. dev.held = NoData
    BY <1>6 DEF AtRest
  <2>4. Typed'
    BY <1>1, <1>2, <1>6, <2>2 DEF Typed
  <2>5. AtRest'
    BY <1>1, <2>2 DEF AtRest
  <2>6. Flushing'
    BY <1>1, <1>2, <1>3, <2>2 DEF Flushing
  <2>7. WriteInv'
    BY <1>1, <1>2, <1>3, <2>2, <2>6 DEF WriteInv
  <2>8. Arrived' = Arrived /\ Stored' = done /\ Stored = done
    BY <1>1, <1>2, <2>2, <2>3 DEF Arrived, Stored
  <2>9. VisibleInv'
    BY <1>1, <2>8, ViewKept DEF VisibleInv, Data
  <2>10. DurableInv'
    BY <1>1, <1>6, <2>2, <2>8 DEF DurableInv, Data
  <2>11. QED
    BY <1>1, <1>5, <2>4, <2>5, <2>7, <2>9, <2>10, NothingNewMisplaced
<1>7. CASE dev.phase = "busy" /\ dev.cmd = "write" /\ dev' = [dev EXCEPT !.flush_next = TRUE] /\ UNCHANGED ignored
  <2>1. /\ dev' \in Device /\ dev'.flush_next = TRUE
        /\ dev'.phase = dev.phase /\ dev'.cmd = dev.cmd /\ dev'.lba = dev.lba /\ dev'.left = dev.left
        /\ dev'.held = dev.held /\ dev'.shown = dev.shown
    BY <1>2, <1>7 DEF Typed, Device
  <2>2. HoldsSector
    BY <1>4, <1>7 DEF ChunkTaken, GivenUp, Leftover
  <2>3. Typed'
    BY <1>1, <1>2, <1>7, <2>1 DEF Typed
  <2>4. AtRest'
    BY <1>1, <1>7, <2>1 DEF AtRest
  <2>5. HoldsSector'
    BY <1>1, <1>3, <2>1, <2>2 DEF HoldsSector, Data
  <2>6. WriteInv'
    BY <1>1, <1>2, <1>3, <1>7, <2>1, <2>5 DEF WriteInv
  <2>7. Arrived' = Arrived /\ Stored' = Stored
    BY <1>1, <2>1 DEF Arrived, Stored
  <2>8. VisibleInv'
    BY <1>1, <2>7, ViewKept DEF VisibleInv, Data
  <2>9. dev'.phase = "busy" /\ dev'.flush_next
    BY <1>7, <2>1
  <2>10. DurableInv'
    BY <1>1, <1>7, <2>7, <2>9 DEF DurableInv, Data
  <2>11. QED
    BY <1>1, <1>5, <2>3, <2>4, <2>6, <2>8, <2>10, NothingNewMisplaced
<1>8. CASE dev.phase \in {"busy", "ready"} /\ ignored' = TRUE /\ UNCHANGED dev
  <2>1. HoldsSector \/ Leftover
    BY <1>4, <1>8 DEF ChunkTaken, GivenUp
  <2>2. HoldsSector' \/ Leftover'
    BY <1>1, <1>3, <1>8, <2>1 DEF HoldsSector, Leftover, Data
  <2>3. ignored' \in BOOLEAN
    BY <1>8
  <2>4. Typed' /\ AtRest'
    BY <1>1, <1>2, <1>8, <2>3 DEF Typed, AtRest
  <2>5. WriteInv'
    BY <1>1, <1>2, <1>3, <1>8, <2>2 DEF WriteInv
  <2>6. VisibleInv'
    BY <1>1, <1>8, ViewKept DEF VisibleInv, Data, Arrived
  <2>7. DurableInv'
    BY <1>8 DEF DurableInv
  <2>8. QED
    BY <1>1, <1>5, <2>4, <2>5, <2>6, <2>7, NothingNewMisplaced
<1>9. QED
  BY <1>6, <1>7, <1>8 DEF IssueFlush

LEMMA FlushPolledKeepsIInv ==
  ASSUME IInv, FlushPolled
  PROVE  IInv'
<1> USE DEF IInv
<1>1. /\ pc = "spin" /\ pc' = "chunk" /\ call.op = "write" /\ dev.phase # "busy"
      /\ i = Chunk /\ i' = 0 /\ done' = done + Chunk
      /\ UNCHANGED <<call, buf, ret, dev, cache, media, before, fault, ignored, missed, zero_read>>
  BY DEF FlushPolled, NotBusy, AtRest, drive, history
<1>2. Typed /\ done < call.n /\ DOMAIN buf = {} /\ i \in Nat /\ done \in Nat /\ dev.held = NoData
  BY <1>1 DEF Typed, WriteInv, AtRest
<1>3. Chunk \in 1 .. CountMod /\ done' \in Nat /\ done' <= call.n /\ done' = done + i
  BY <1>1, <1>2, ChunkFacts
<1>4. dev.phase \in {"idle", "error"} \/ Leftover
  <2>1. dev.phase \in Phases
    BY <1>2 DEF Typed, Device
  <2>2. Flushing \/ AwaitsData \/ HoldsSector \/ ChunkTaken \/ GivenUp \/ Leftover
    BY <1>1 DEF WriteInv
  <2>3. ~AwaitsData
    BY <1>1, <1>2, <1>3 DEF AwaitsData
  <2>4. QED
    BY <1>1, <2>1, <2>2, <2>3 DEF Phases, Flushing, HoldsSector, ChunkTaken, GivenUp
<1>5. Typed'
  BY <1>1, <1>2, <1>3 DEF Typed
<1>6. AtRest' /\ ReadInv'
  BY <1>1, <1>4 DEF AtRest, ReadInv, Leftover
<1>7. WriteInv'
  BY <1>1, <1>2, <1>3 DEF WriteInv
<1>8. Arrived = done + i /\ Arrived' = done + i
  BY <1>1, <1>2, <1>3 DEF Arrived
<1>9. VisibleInv'
  BY <1>1, <1>8, ViewKept DEF VisibleInv, Data
<1>10. ~fault /\ ~ignored /\ ~missed => Stored = done + i
  BY <1>1, <1>2, <1>4 DEF Stored, DurableInv, WriteInv, Leftover
<1>11. Stored' = done + i
  BY <1>1, <1>2, <1>3 DEF Stored
<1>12. DurableInv'
  BY <1>1, <1>10, <1>11 DEF DurableInv, Data
<1>13. QED
  BY <1>1, <1>5, <1>6, <1>7, <1>9, <1>12, NothingNewMisplaced

-----------------------------------------------------------------------------
(* The drive is busy with the command of a call that waits for it, or with *)
(* sectors nobody fetches.                                                 *)
LEMMA BusyFacts ==
  ASSUME IInv, dev.phase = "busy"
  PROVE  /\ pc \in {"idle", "chunk"} => zero_read /\ dev.cmd = "read"
         /\ call.op = "write" /\ pc \notin {"idle", "chunk"} =>
              Flushing \/ AwaitsData \/ HoldsSector \/ Leftover
         /\ call.op # "write" => dev.cmd = "read" /\ dev.held = NoData
<1> USE DEF IInv
<1>1. pc \in {"idle", "chunk"} => zero_read /\ dev.cmd = "read"
  BY DEF AtRest
<1>2. ASSUME call.op = "write", pc \notin {"idle", "chunk"}
      PROVE  Flushing \/ AwaitsData \/ HoldsSector \/ Leftover
  BY <1>2 DEF Typed, WriteInv, ChunkTaken, GivenUp
<1>3. ASSUME call.op # "write" PROVE dev.cmd = "read" /\ dev.held = NoData
  BY <1>1, <1>3 DEF ReadInv, AtRest
<1>4. QED
  BY <1>1, <1>2, <1>3

LEMMA NowIsFacts ==
  ASSUME Typed, NEW phase \in Phases, dev' = NowIs(phase)
  PROVE  /\ dev' \in Device /\ dev'.phase = phase /\ dev'.shown = phase
         /\ dev'.cmd = dev.cmd /\ dev'.lba = dev.lba /\ dev'.left = dev.left
         /\ dev'.held = dev.held /\ dev'.flush_next = dev.flush_next
  BY DEF Typed, Device, NowIs

LEMMA DevReadyKeepsIInv ==
  ASSUME IInv, DevReady
  PROVE  IInv'
<1> USE DEF IInv
<1>1. /\ dev.phase = "busy" /\ dev.cmd \in {"read", "write"} /\ dev.held = NoData /\ dev.lba < Capacity
      /\ UNCHANGED <<pc, call, i, done, buf, ret, cache, media, before, fault, ignored, missed, zero_read>>
  BY DEF DevReady, driver, history
<1>2. /\ dev' \in Device /\ dev'.phase = "ready" /\ dev'.shown = "ready"
      /\ dev'.cmd = dev.cmd /\ dev'.lba = dev.lba /\ dev'.left = dev.left
      /\ dev'.held = NoData /\ dev'.flush_next = dev.flush_next
  <2>1. "ready" \in Phases /\ dev' = NowIs("ready")
    BY DEF Phases, DevReady
  <2>2. QED
    BY <1>1, <2>1, NowIsFacts
<1>3. call.op = "write" /\ pc \notin {"idle", "chunk"} => AwaitsData \/ Leftover
  <2>1. Typed
    OBVIOUS
  <2>2. HoldsSector => dev.held # NoData
    <3>1. done + i - 1 \in Nat \/ ~HoldsSector
      BY <2>1 DEF HoldsSector, Typed
    <3>2. QED
      BY <2>1, <3>1, DataFacts DEF HoldsSector
  <2>3. QED
    BY <1>1, <2>2, BusyFacts DEF Flushing
<1>4. dev.lba \in Sectors
  <2>1. dev.lba \in Nat /\ Capacity \in Nat
    BY IdeRwAssumption DEF Typed, Device, IdeRwAssumption
  <2>2. QED
    BY <1>1, <2>1 DEF Sectors
<1>5. Typed' /\ AtRest'
  <2>1. pc \in {"idle", "chunk"} => zero_read /\ dev.cmd = "read"
    BY <1>1, BusyFacts
  <2>2. QED
    BY <1>1, <1>2, <1>4, <2>1 DEF Typed, AtRest
<1>6. ReadInv'
  BY <1>1, <1>2, ViewKept DEF ReadInv, ReadLba
<1>7. Chunk' = Chunk
  BY <1>1 DEF Chunk
<1>8. WriteInv'
  <2>1. AwaitsData => AwaitsData'
    BY <1>1, <1>2, <1>7 DEF AwaitsData
  <2>2. Leftover => Leftover'
    BY <1>1, <1>2 DEF Leftover
  <2>3. QED
    BY <1>1, <1>2, <1>3, <1>7, <2>1, <2>2 DEF WriteInv
<1>9. VisibleInv'
  BY <1>1, <1>2, ViewKept DEF VisibleInv, Arrived, Data
<1>10. DurableInv'
  <2>1. Stored' = Stored
    BY <1>1, <1>2 DEF Stored
  <2>2. ~missed /\ call.op = "write" /\ pc \in {"settle", "spin"} => i # Chunk
    <3>1. AwaitsData => i # Chunk
      BY ChunkFacts DEF AwaitsData, WriteInv, Typed, Calls, Chunk
    <3>2. QED
      BY <1>3, <3>1 DEF Leftover
  <2>3. QED
    BY <1>1, <1>7, <2>1, <2>2 DEF DurableInv, Data
<1>11. QED
  BY <1>1, <1>5, <1>6, <1>8, <1>9, <1>10, NothingNewMisplaced

LEMMA DevFailsKeepsIInv ==
  ASSUME IInv, DevFails
  PROVE  IInv'
<1> USE DEF IInv
<1>1. /\ dev.phase = "busy" /\ fault' = TRUE
      /\ UNCHANGED <<pc, call, i, done, buf, ret, cache, media, before, ignored, missed, zero_read>>
  BY DEF DevFails, driver
<1>2. /\ dev' \in Device /\ dev'.phase = "error" /\ dev'.shown = "error"
      /\ dev'.cmd = dev.cmd /\ dev'.held = NoData /\ dev'.flush_next = dev.flush_next
  <2>1. dev \in Device /\ dev' = [[dev EXCEPT !.phase = "error", !.shown = "error"] EXCEPT !.held = NoData]
    BY DEF DevFails, NowIs, Typed
  <2>2. QED
    BY <2>1 DEF Device, Phases
<1>3. call.op = "write" /\ pc \notin {"idle", "chunk"} =>
        Flushing \/ AwaitsData \/ HoldsSector \/ Leftover
  BY <1>1, BusyFacts
<1>4. fault' \in BOOLEAN
  BY <1>1
<1>5. Typed' /\ AtRest'
  BY <1>1, <1>2, <1>4 DEF Typed, AtRest
<1>6. ReadInv'
  BY <1>1, <1>2, ViewKept DEF ReadInv, ReadLba
<1>7. WriteInv'
  <2>1. Chunk' = Chunk
    BY <1>1 DEF Chunk
  <2>2. call.op = "write" /\ pc \notin {"idle", "chunk"} => Flushing' \/ GivenUp' \/ Leftover'
    BY <1>1, <1>2, <1>3, <2>1 DEF Flushing, AwaitsData, HoldsSector, GivenUp, Leftover
  <2>3. QED
    BY <1>1, <1>2, <2>1, <2>2 DEF WriteInv
<1>8. VisibleInv' /\ DurableInv'
  BY <1>1 DEF VisibleInv, DurableInv
<1>9. QED
  BY <1>1, <1>5, <1>6, <1>7, <1>8, NothingNewMisplaced

LEMMA DevShowsKeepsIInv ==
  ASSUME IInv, DevShows
  PROVE  IInv'
<1> USE DEF IInv
<1>1. UNCHANGED <<pc, call, i, done, buf, ret, cache, media, before, fault, ignored, missed, zero_read>>
  BY DEF DevShows, driver, history
<1>2. /\ dev' \in Device /\ dev'.shown = dev.phase
      /\ dev'.phase = dev.phase /\ dev'.cmd = dev.cmd /\ dev'.lba = dev.lba /\ dev'.left = dev.left
      /\ dev'.held = dev.held /\ dev'.flush_next = dev.flush_next
  <2>1. dev.phase \in Phases /\ dev' = NowIs(dev.phase)
    BY DEF DevShows, Typed, Device
  <2>2. QED
    BY <2>1, NowIsFacts
<1>3. Typed' /\ AtRest'
  BY <1>1, <1>2 DEF Typed, AtRest
<1>4. ReadInv'
  BY <1>1, <1>2, ViewKept DEF ReadInv, ReadLba
<1>5. Chunk' = Chunk
  BY <1>1 DEF Chunk
<1>6. /\ Flushing' = Flushing /\ AwaitsData' = AwaitsData /\ HoldsSector' = HoldsSector
      /\ ChunkTaken' = ChunkTaken /\ GivenUp' = GivenUp /\ Leftover' = Leftover
  BY <1>1, <1>2, <1>5 DEF Flushing, AwaitsData, HoldsSector, ChunkTaken, GivenUp, Leftover, Data
<1>7. WriteInv'
  BY <1>1, <1>2, <1>5, <1>6 DEF WriteInv
<1>8. VisibleInv'
  BY <1>1, <1>2, ViewKept DEF VisibleInv, Arrived, Data
<1>9. DurableInv'
  BY <1>1, <1>2, <1>5 DEF DurableInv, Stored, Data
<1>10. QED
  BY <1>1, <1>3, <1>4, <1>7, <1>8, <1>9, NothingNewMisplaced

(* What a flush has stored the drive had taken.                            *)
LEMMA StoredHasArrived ==
  ASSUME IInv, call.op = "write"
  PROVE  Stored \in Nat /\ Arrived \in Int /\ Stored <= Arrived
<1> USE DEF IInv
<1>1. done \in Nat /\ i \in Nat
  BY DEF Typed
<1>2. CASE dev.held = NoData
  BY <1>1, <1>2 DEF Stored, Arrived
<1>3. CASE dev.held # NoData
  <2>1. dev.phase = "busy" /\ dev.cmd = "write"
    BY <1>3 DEF AtRest
  <2>2. HoldsSector
    BY <1>3, <2>1, BusyFacts DEF Flushing, AwaitsData, Leftover
  <2>3. i >= 1
    BY <2>2 DEF HoldsSector
  <2>4. QED
    BY <1>1, <1>3, <2>1, <2>3 DEF Stored, Arrived
<1>4. QED
  BY <1>2, <1>3

LEMMA DevFlushesKeepsIInv ==
  ASSUME IInv, DevFlushes
  PROVE  IInv'
<1> USE DEF IInv
<1>1. /\ dev.phase = "busy" /\ dev.cmd = "flush" /\ media' = View /\ DOMAIN cache' = {}
      /\ UNCHANGED <<pc, call, i, done, buf, ret, before, fault, ignored, missed, zero_read>>
  BY DEF DevFlushes, driver, history
<1>2. /\ dev' \in Device /\ dev'.phase = "idle" /\ dev'.shown = "idle"
      /\ dev'.cmd = "flush" /\ dev'.held = dev.held /\ dev'.flush_next = dev.flush_next
  <2>1. "idle" \in Phases /\ dev' = NowIs("idle")
    BY DEF Phases, DevFlushes
  <2>2. QED
    BY <1>1, <2>1, NowIsFacts
<1>3. /\ call.op = "write" /\ pc \in {"settle", "spin"} /\ i = Chunk /\ dev.held = NoData
  <2>1. dev.held = NoData
    BY <1>1 DEF AtRest
  <2>2. call.op = "write"
    BY <1>1, BusyFacts
  <2>3. pc \in {"settle", "spin", "flush"} /\ Flushing
    BY <1>1, <2>2, BusyFacts DEF AwaitsData, HoldsSector, Leftover, Typed
  <2>4. pc # "flush"
    BY <1>1, <2>2 DEF WriteInv
  <2>5. QED
    BY <2>1, <2>2, <2>3, <2>4 DEF Flushing
<1>4. Typed
  OBVIOUS
<1>5. View' = View
  <2>1. View' = [s \in Sectors |-> media'[s]]
    BY <1>1 DEF View
  <2>2. View \in [Sectors -> Contents]
    BY <1>4, ViewFacts
  <2>3. QED
    BY <1>1, <2>1, <2>2
<1>6. Typed'
  BY <1>1, <1>2, <1>4, ViewFacts DEF Typed, Sectors, Contents
<1>7. AtRest'
  BY <1>1, <1>2, <1>3 DEF AtRest
<1>8. ReadInv'
  BY <1>1, <1>3 DEF ReadInv
<1>9. Chunk' = Chunk
  BY <1>1 DEF Chunk
<1>10. Flushing'
  BY <1>1, <1>2, <1>3, <1>9 DEF Flushing
<1>11. WriteInv'
  BY <1>1, <1>2, <1>3, <1>9, <1>10 DEF WriteInv
<1>12. Arrived = done + i /\ Arrived' = done + i /\ Stored' = done + i
  BY <1>1, <1>2, <1>3 DEF Arrived, Stored
<1>13. VisibleInv'
  BY <1>1, <1>5, <1>12 DEF VisibleInv, Data
<1>14. DurableInv'
  BY <1>1, <1>2, <1>12 DEF VisibleInv, DurableInv, Data
<1>15. NothingMisplaced'
  BY <1>1, <1>5 DEF NothingMisplaced, Data
<1>16. QED
  BY <1>6, <1>7, <1>8, <1>11, <1>13, <1>14, <1>15

LEMMA DevStoresKeepsIInv ==
  ASSUME IInv, DevStores
  PROVE  IInv'
<1> USE DEF IInv
<1>1. PICK s \in DOMAIN cache : /\ media' = [media EXCEPT ![s] = cache[s]]
                                /\ cache' = [t \in DOMAIN cache \ {s} |-> cache[t]]
  BY DEF DevStores
<1>2. UNCHANGED <<pc, call, i, done, buf, ret, dev, before, fault, ignored, missed, zero_read>>
  BY DEF DevStores, driver, history
<1>3. /\ Typed /\ s \in Sectors /\ media \in [Sectors -> Contents] /\ cache[s] \in Contents
      /\ DOMAIN cache \subseteq Sectors /\ DOMAIN cache' = DOMAIN cache \ {s}
  BY <1>1 DEF Typed
<1>4. View' = View
  BY <1>1, <1>3 DEF View
<1>5. ASSUME NEW t \in Sectors PROVE media'[t] = media[t] \/ media'[t] = View[t]
  BY <1>1, <1>3, <1>5 DEF View
<1>6. Typed'
  BY <1>1, <1>2, <1>3 DEF Typed
<1>7. AtRest' /\ ReadInv'
  BY <1>2, <1>4 DEF AtRest, ReadInv, ReadLba
<1>8. WriteInv'
  <2>1. Chunk' = Chunk
    BY <1>2 DEF Chunk
  <2>2. /\ Flushing' = Flushing /\ AwaitsData' = AwaitsData /\ HoldsSector' = HoldsSector
        /\ ChunkTaken' = ChunkTaken /\ GivenUp' = GivenUp /\ Leftover' = Leftover
    BY <1>2, <2>1 DEF Flushing, AwaitsData, HoldsSector, ChunkTaken, GivenUp, Leftover, Data
  <2>3. QED
    BY <1>2, <2>1, <2>2 DEF WriteInv
<1>9. VisibleInv'
  BY <1>2, <1>4 DEF VisibleInv, Arrived, Data
<1>10. ASSUME call.op = "write", ~fault, ~ignored, ~missed, NEW k \in 0 .. (Stored - 1)
       PROVE  media'[call.lba + k] = Data(k)
  <2>1. k \in 0 .. (Arrived - 1)
    BY <1>10, StoredHasArrived
  <2>2. call.lba + k \in Sectors /\ View[call.lba + k] = Data(k) /\ media[call.lba + k] = Data(k)
    BY <1>10, <2>1 DEF VisibleInv, DurableInv
  <2>3. QED
    BY <1>5, <2>2
<1>11. DurableInv'
  <2>1. Stored' = Stored /\ Chunk' = Chunk
    BY <1>2 DEF Stored, Chunk
  <2>2. QED
    BY <1>2, <1>10, <2>1 DEF DurableInv, Data
<1>12. NothingMisplaced'
  BY <1>2, <1>4 DEF NothingMisplaced, Data
<1>13. QED
  BY <1>6, <1>7, <1>8, <1>9, <1>11, <1>12

LEMMA DevTakesSectorKeepsIInv ==
  ASSUME IInv, DevTakesSector
  PROVE  IInv'
<1> USE DEF IInv
<1>1. /\ dev.phase = "busy" /\ dev.held # NoData
      /\ cache' = [s \in DOMAIN cache \cup {dev.lba} |-> IF s = dev.lba THEN dev.held ELSE cache[s]]
      /\ UNCHANGED <<pc, call, i, done, buf, ret, media, before, fault, ignored, missed, zero_read>>
  BY DEF DevTakesSector, driver, history
<1>2. /\ call.op = "write" /\ HoldsSector /\ pc \in {"settle", "spin", "flush"} /\ dev.cmd = "write"
  BY <1>1, BusyFacts DEF AtRest, Flushing, AwaitsData, Leftover, Typed
<1>3. /\ Typed /\ dev \in Device /\ i \in Nat /\ done \in Nat /\ call.lba \in Nat /\ call.n \in Nat
      /\ done < call.n /\ i <= Chunk /\ i >= 1 /\ dev.lba \in Sectors
      /\ dev.left = Chunk - i + 1 /\ dev.lba = call.lba + done + i - 1 /\ dev.held = Data(done + i - 1)
      /\ (pc = "flush" => i = Chunk) /\ DOMAIN buf = {}
      /\ (dev.flush_next => i = Chunk /\ pc # "flush")
  BY <1>1, <1>2 DEF HoldsSector, WriteInv, Typed, Calls
<1>4. Chunk \in 1 .. CountMod /\ Chunk' = Chunk /\ CountMod \in Nat /\ done + Chunk <= call.n
  BY <1>1, <1>3, ChunkFacts, IdeRwAssumption DEF Chunk, IdeRwAssumption
<1>5. done + i - 1 \in Nat /\ done + i - 1 < call.n /\ Data(done + i - 1) \in Contents
  BY <1>3, <1>4, DataFacts
<1>6. dev.left > 1 <=> i < Chunk
  BY <1>3, <1>4
<1>7. /\ dev' \in Device /\ dev'.held = NoData /\ dev'.lba = dev.lba + 1 /\ dev'.left = dev.left - 1
      /\ dev'.flush_next = dev.flush_next
      /\ IF dev.left > 1 THEN dev'.phase = "busy" /\ dev'.cmd = "write" /\ dev'.shown = dev.shown
         ELSE IF dev.flush_next THEN dev'.phase = "busy" /\ dev'.cmd = "flush" /\ dev'.shown = dev.shown
         ELSE dev'.phase = "idle" /\ dev'.cmd = "write" /\ dev'.shown = "idle"
  <2> DEFINE next == [phase |-> "busy", shown |-> dev.shown, cmd |-> "write", lba |-> dev.lba + 1,
                      left |-> dev.left - 1, held |-> NoData, flush_next |-> dev.flush_next]
  <2>1. dev.left = 1 <=> ~(dev.left > 1)
    BY <1>3, <1>4
  <2>2. ASSUME NEW d, d = [dev EXCEPT !.held = NoData, !.lba = @ + 1, !.left = @ - 1] PROVE d = next
    <3>1. dev.phase = "busy" /\ dev.cmd = "write" /\ dev \in Device
      BY <1>1, <1>2, <1>3
    <3>2. QED
      BY <2>2, <3>1 DEF Device
  <2>3. dev' = IF dev.left > 1 THEN next
               ELSE IF dev.flush_next THEN [next EXCEPT !.cmd = "flush"]
               ELSE [next EXCEPT !.phase = "idle", !.shown = "idle"]
    BY <2>1, <2>2, Zenon DEF DevTakesSector
  <2>4. dev.left - 1 \in 0 .. CountMod /\ dev.lba + 1 \in Nat /\ dev.shown \in Phases /\ dev.flush_next \in BOOLEAN
    BY <1>3, <1>4 DEF Device
  <2>5. QED
    BY <2>3, <2>4 DEF Device, Phases
<1>8. View' = [View EXCEPT ![dev.lba] = Data(done + i - 1)]
  <2>1. View' = [s \in Sectors |-> IF s = dev.lba THEN dev.held
                                   ELSE IF s \in DOMAIN cache THEN cache[s] ELSE media[s]]
    BY <1>1, <1>3 DEF View, Sectors
  <2>2. QED
    BY <1>3, <2>1 DEF View
<1>9. View \in [Sectors -> Contents]
  BY <1>3, ViewFacts
<1>10. Typed'
  <2>1. DOMAIN cache \subseteq Sectors /\ \A s \in DOMAIN cache : cache[s] \in Contents
    BY <1>3 DEF Typed
  <2>2. DOMAIN cache' \subseteq Sectors /\ \A s \in DOMAIN cache' : cache'[s] \in Contents
    BY <1>1, <1>3, <1>5, <2>1
  <2>3. Sectors' = Sectors
    BY DEF Sectors
  <2>4. QED
    BY <1>1, <1>3, <1>7, <2>2, <2>3 DEF Typed
<1>11. AtRest'
  <2>1. dev'.phase # "ready" /\ pc' \notin {"idle", "chunk"}
    BY <1>1, <1>2, <1>7
  <2>2. pc = "spin" => dev.shown = "busy"
    BY <1>1 DEF AtRest
  <2>3. QED
    BY <1>1, <1>7, <2>1, <2>2 DEF AtRest
<1>12. ReadInv'
  BY <1>1, <1>2 DEF ReadInv
<1>13. Flushing' \/ AwaitsData' \/ ChunkTaken'
  <2>1. CASE dev.left > 1
    <3>1. i < Chunk /\ dev'.left = Chunk - i /\ dev'.lba = call.lba + done + i
      BY <1>3, <1>4, <1>6, <1>7, <2>1
    <3>2. QED
      BY <1>1, <1>4, <1>7, <2>1, <3>1 DEF AwaitsData
  <2>2. CASE ~(dev.left > 1)
    <3>1. i = Chunk
      BY <1>3, <1>4, <1>6, <2>2
    <3>2. QED
      BY <1>1, <1>4, <1>7, <2>2, <3>1 DEF Flushing, ChunkTaken
  <2>3. QED
    BY <2>1, <2>2
<1>14. pc = "flush" => dev'.cmd = "write"
  BY <1>2, <1>3, <1>7
<1>15. WriteInv'
  BY <1>1, <1>2, <1>3, <1>4, <1>7, <1>13, <1>14 DEF WriteInv
<1>16. Arrived = done + i - 1 /\ Arrived' = done + i
  BY <1>1, <1>7 DEF Arrived
<1>17. VisibleInv'
  <2>1. ASSUME ~fault, ~missed, NEW k \in 0 .. (done + i - 1)
        PROVE  call.lba + k \in Sectors /\ View'[call.lba + k] = Data(k)
    <3>1. CASE k = done + i - 1
      <4>1. call.lba + k = dev.lba
        BY <1>3, <1>5, <3>1
      <4>2. QED
        BY <1>3, <1>8, <1>9, <3>1, <4>1
    <3>2. CASE k # done + i - 1
      <4>1. k \in 0 .. (Arrived - 1) /\ call.lba + k # dev.lba
        BY <1>3, <1>16, <3>2
      <4>2. call.lba + k \in Sectors /\ View[call.lba + k] = Data(k)
        BY <1>2, <2>1, <4>1 DEF VisibleInv
      <4>3. QED
        BY <1>8, <1>9, <4>1, <4>2
    <3>3. QED
      BY <3>1, <3>2
  <2>2. Sectors' = Sectors
    BY DEF Sectors
  <2>3. ~fault' /\ ~missed' => ~fault /\ ~missed
    BY <1>1, Zenon
  <2>4. ~fault' /\ ~missed' => \A k \in 0 .. (done + i - 1) : (call.lba + k \in Sectors /\ View[call.lba + k] = Data(k))'
    <3>1. ASSUME NEW k, call.lba + k \in Sectors, View'[call.lba + k] = Data(k)
          PROVE  (call.lba + k \in Sectors /\ View[call.lba + k] = Data(k))'
      BY <1>1, <2>2, <3>1 DEF Data
    <3>2. ~fault' /\ ~missed' => \A k \in 0 .. (done + i - 1) : call.lba + k \in Sectors /\ View'[call.lba + k] = Data(k)
      BY <2>1, <2>3, Zenon
    <3>3. QED
      BY <3>1, <3>2, Zenon
  <2>5. 0 .. (Arrived' - 1) = 0 .. (done + i - 1)
    BY <1>3, <1>16
  <2>6. ~fault' /\ ~missed' => \A k \in 0 .. (Arrived' - 1) : (call.lba + k \in Sectors /\ View[call.lba + k] = Data(k))'
    BY <2>4, <2>5, Zenon
  <2>7. QED
    BY <2>6, Zenon DEF VisibleInv
<1>18. DurableInv'
  <2>1. Stored = done /\ Stored' = done
    BY <1>1, <1>2, <1>7 DEF Stored
  <2>2. CASE dev.left > 1
    BY <1>1, <1>4, <1>6, <2>1, <2>2 DEF DurableInv, Data
  <2>3. CASE ~(dev.left > 1)
    BY <1>1, <1>2, <1>3, <1>4, <1>6, <1>7, <2>1, <2>3 DEF DurableInv, Data
  <2>4. QED
    BY <2>2, <2>3
<1>19. NothingMisplaced'
  <2>1. ASSUME NEW s \in Sectors
        PROVE  \/ View'[s] = before[s]
               \/ View'[s] = Data(s - call.lba) /\ s - call.lba \in 0 .. (call.n - 1)
    <3>1. CASE s = dev.lba
      <4>1. s - call.lba = done + i - 1
        BY <1>3, <3>1
      <4>2. QED
        BY <1>3, <1>5, <1>8, <1>9, <3>1, <4>1
    <3>2. CASE s # dev.lba
      BY <1>8, <1>9, <2>1, <3>2 DEF NothingMisplaced
    <3>3. QED
      BY <3>1, <3>2
  <2>2. Sectors' = Sectors
    BY DEF Sectors
  <2>3. QED
    BY <1>1, <1>2, <2>1, <2>2 DEF NothingMisplaced, Data
<1>20. QED
  BY <1>10, <1>11, <1>12, <1>15, <1>17, <1>18, <1>19

LEMMA NextKeepsIInv == IInv /\ [Next]_vars => IInv'
<1> SUFFICES ASSUME IInv, [Next]_vars PROVE IInv'
  OBVIOUS
<1>1. CASE Call
  BY <1>1, CallKeepsIInv
<1>2. CASE DriverStep
  BY <1>2, NextChunkKeepsIInv, WriteReturnsKeepsIInv, SettleKeepsIInv, ReadFailsKeepsIInv,
     ReadSectorKeepsIInv, WriteSectorKeepsIInv, IssueFlushKeepsIInv, FlushPolledKeepsIInv DEF DriverStep
<1>3. CASE DeviceStep
  BY <1>3, DevReadyKeepsIInv, DevTakesSectorKeepsIInv, DevFlushesKeepsIInv, DevFailsKeepsIInv DEF DeviceStep
<1>4. CASE DevStores
  BY <1>4, DevStoresKeepsIInv
<1>5. CASE DevShows
  BY <1>5, DevShowsKeepsIInv
<1>6. CASE UNCHANGED vars
  <2>1. UNCHANGED <<pc, call, i, done, buf, ret, dev, cache, media, before, fault, ignored, missed, zero_read>>
    BY <1>6 DEF vars, driver, drive, history
  <2>2. View' = View /\ Chunk' = Chunk /\ Arrived' = Arrived /\ Stored' = Stored
    BY <2>1 DEF View, Chunk, Arrived, Stored
  <2>3. Typed' /\ AtRest' /\ ReadInv' /\ NothingMisplaced'
    BY <2>1, <2>2 DEF IInv, Typed, AtRest, ReadInv, ReadLba, NothingMisplaced, Data
  <2>4. /\ Flushing' = Flushing /\ AwaitsData' = AwaitsData /\ HoldsSector' = HoldsSector
        /\ ChunkTaken' = ChunkTaken /\ GivenUp' = GivenUp /\ Leftover' = Leftover
    BY <2>1, <2>2 DEF Flushing, AwaitsData, HoldsSector, ChunkTaken, GivenUp, Leftover, Data
  <2>5. WriteInv'
    BY <2>1, <2>2, <2>4 DEF IInv, WriteInv
  <2>6. VisibleInv' /\ DurableInv'
    BY <2>1, <2>2 DEF IInv, VisibleInv, DurableInv, Data
  <2>7. QED
    BY <2>3, <2>5, <2>6 DEF IInv
<1>7. QED
  BY <1>1, <1>2, <1>3, <1>4, <1>5, <1>6 DEF Next

-----------------------------------------------------------------------------
(* Drive and driver agree, in every interleaving of the two.               *)
THEOREM IdeRwInvariant == Spec => []IInv
<1>1. QED
  BY InitEstablishesIInv, NextKeepsIInv, PTL DEF Spec

LEMMA IInvImpliesTypeOK == IInv => TypeOK
<1> SUFFICES ASSUME IInv PROVE TypeOK
  OBVIOUS
<1>1. Typed /\ ReadInv /\ WriteInv
  BY DEF IInv
<1>2. CountMod \in Nat \ {0} /\ MaxCalls \in Nat
  BY IdeRwAssumption DEF IdeRwAssumption
<1>3. call \in Calls /\ i \in Nat /\ done \in Nat /\ dev \in Device /\ View \in [Sectors -> Contents]
  BY <1>1, ViewFacts DEF Typed
<1>4. CASE call.op = "write"
  <2>1. done \in 0 .. call.n /\ DOMAIN buf = {}
    BY <1>1, <1>3, <1>4 DEF WriteInv, Calls
  <2>2. i \in 0 .. CountMod
    <3>1. CASE pc \in {"idle", "chunk"}
      BY <1>1, <1>2, <1>4, <3>1 DEF WriteInv
    <3>2. CASE pc \in {"settle", "spin", "flush"}
      BY <1>1, <1>2, <1>3, <1>4, <3>2, ChunkFacts DEF WriteInv
    <3>3. QED
      BY <1>1, <3>1, <3>2 DEF Typed
  <2>3. 0 .. (IF call.op = "read" THEN i ELSE 0) - 1 = {}
    BY <1>4
  <2>4. QED
    BY <1>1, <1>3, <2>1, <2>2, <2>3 DEF TypeOK, Typed, Calls, Device, Phases
<1>5. CASE call.op # "write"
  <2>1. done = 0 /\ i <= call.n /\ call.n < CountMod /\ DOMAIN buf = 0 .. (i - 1)
        /\ (call.op = "none" => call.n = 0)
    BY <1>1, <1>5 DEF ReadInv
  <2>2. done \in 0 .. call.n /\ i \in 0 .. CountMod
    BY <1>2, <1>3, <2>1 DEF Calls
  <2>3. DOMAIN buf = 0 .. (IF call.op = "read" THEN i ELSE 0) - 1
    BY <1>3, <1>5, <2>1 DEF Calls
  <2>4. QED
    BY <1>1, <1>3, <2>2, <2>3 DEF TypeOK, Typed, Calls, Device, Phases
<1>6. QED
  BY <1>4, <1>5

(* The types of the driver's and the drive's state.                        *)
THEOREM IdeRwTypeOK == Spec => []TypeOK
<1>1. QED
  BY IdeRwInvariant, IInvImpliesTypeOK, PTL

(* A read that returns 0 has delivered the sectors it was asked for        *)
(* (ide_read_sectors), zero or more, whatever the drive did meanwhile,     *)
(* unless the drive ignored it for the sectors of a read of zero sectors.  *)
THEOREM IdeRwReadReturnsDisk == Spec => []ReadReturnsDisk
<1>1. IInv => ReadReturnsDisk
  <2> SUFFICES ASSUME IInv, pc = "idle", call.op = "read", ret = 0, call.lba < LbaLimit, ~Spoiled
               PROVE  buf = [k \in 0 .. (call.n - 1) |-> View[call.lba + k]]
    BY DEF ReadReturnsDisk
  <2>0. ~missed
    BY DEF IInv, AtRest, Spoiled
  <2>1. call.lba \in Nat
    BY DEF IInv, Typed, Calls
  <2>2. ReadLba(call.lba) = call.lba
    BY <2>1, ReadLbaFacts
  <2>3. /\ i = call.n /\ DOMAIN buf = 0 .. (i - 1) /\ buf = [k \in DOMAIN buf |-> buf[k]]
        /\ \A k \in 0 .. (i - 1) : buf[k] = View[call.lba + k]
    BY <2>0, <2>2 DEF IInv, ReadInv
  <2>4. QED
    BY <2>3
<1>2. QED
  BY <1>1, IdeRwInvariant, PTL

(* A write that returns 0 and met no error has put every sector in place   *)
(* (ide_write_sectors_counted): none was sent while the drive did not ask, *)
(* unless the drive ignored a command after a read of zero sectors.        *)
THEOREM IdeRwWriteVisible == Spec => []WriteVisible
<1>1. IInv => WriteVisible
  <2> SUFFICES ASSUME IInv, pc = "idle", call.op = "write", ret = 0, ~fault, ~Spoiled,
                      NEW k \in 0 .. (call.n - 1)
               PROVE  View[call.lba + k] = Data(k)
    BY DEF WriteVisible
  <2>0. ~missed
    BY DEF IInv, AtRest, Spoiled
  <2>1. done = call.n /\ i = 0 /\ done \in Nat /\ dev.held = NoData
    BY DEF IInv, Typed, WriteInv, AtRest
  <2>2. Arrived = call.n
    BY <2>1 DEF Arrived
  <2>3. QED
    BY <2>0, <2>2 DEF IInv, VisibleInv
<1>2. QED
  BY <1>1, IdeRwInvariant, PTL

(* At every moment a sector holds what it held before the call or what the *)
(* call has for that very sector: the arithmetic of the chunks is right.   *)
THEOREM IdeRwNothingMisplaced == Spec => []NothingMisplaced
<1>1. IInv => NothingMisplaced
  BY DEF IInv
<1>2. QED
  BY <1>1, IdeRwInvariant, PTL

(* A write that returned 0, met no error and had no command ignored, the   *)
(* CACHE FLUSH included, is on the medium.                                 *)
THEOREM IdeRwDurableUnlessIgnored == Spec => []DurableUnlessIgnored
<1>1. IInv => DurableUnlessIgnored
  <2> SUFFICES ASSUME IInv, pc = "idle", call.op = "write", ret = 0, ~fault, ~ignored, ~Spoiled,
                      NEW k \in 0 .. (call.n - 1)
               PROVE  media[call.lba + k] = Data(k)
    BY DEF DurableUnlessIgnored
  <2>0. ~missed
    BY DEF IInv, AtRest, Spoiled
  <2>1. done = call.n /\ i = 0 /\ done \in Nat
    BY DEF IInv, Typed, WriteInv
  <2>2. Stored = call.n
    BY <2>1 DEF Stored
  <2>3. QED
    BY <2>0, <2>2 DEF IInv, DurableInv
<1>2. QED
  BY <1>1, IdeRwInvariant, PTL

=============================================================================
