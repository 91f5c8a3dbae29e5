---------------------------- MODULE BasicsProofs ----------------------------
(***************************************************************************)
(* The parts of the kernel that work alone: the loops of memcpy, memset,   *)
(* memmove and memcmp, for every memory, call and overlap; the descriptor  *)
(* tables, for stubs at any address; the text screen, of any size, and the *)
(* serial port, for every text and number written to them.                 *)
(***************************************************************************)
EXTENDS
  MemOps, Descriptors, Console,
  SequenceTheorems, FiniteSetTheorems, WellFoundedInduction, TLAPS

TypeOK ==
  /\ call \in Calls /\ i \in Nat
  /\ mem \in [Addresses -> Bytes] /\ was \in [Addresses -> Bytes]

(* Which addresses the loop is done with.                                  *)
Done(x) ==
  \/ (Forward(call) \/ call.op = "memset") /\ call.a <= x /\ x < call.a + i
  \/ Backward(call) /\ call.a + i <= x /\ x < call.a + call.n

(* Those hold what is wanted, the others what they held before.            *)
LoopInv ==
  pc = "loop" =>
    /\ Legal(call) /\ i <= call.n
    /\ \A x \in Addresses : mem[x] = IF Done(x) THEN Wanted(x) ELSE was[x]
    /\ call.op = "memcmp" => Agree(i)

MemInv == TypeOK /\ LoopInv /\ MemoryRight /\ ComparisonRight

LEMMA SizeIsNat == Size \in Nat
  BY SMT DEF Size

LEMMA InitEstablishesMemInv == Init => MemInv
<1> SUFFICES ASSUME Init PROVE MemInv
  OBVIOUS
<1>1. TypeOK
  BY DEF Init, TypeOK, Calls
<1>2. pc = "idle"
  BY DEF Init
<1>3. QED
  BY <1>1, <1>2 DEF MemInv, LoopInv, MemoryRight, ComparisonRight

LEMMA BeginKeeps == ASSUME MemInv, NEW k \in Calls, Begin(k) PROVE MemInv'
<1>1. TypeOK
  BY DEF MemInv
<1>2. /\ Legal(k) /\ call' = k /\ pc' = "loop" /\ was' = mem /\ mem' = mem
      /\ i' = IF Backward(k) THEN k.n ELSE 0
  BY DEF Begin
<1>3. /\ k.a \in Nat /\ k.b \in Nat /\ k.n \in Nat
      /\ k.op \in {"memcpy", "memmove", "memset", "memcmp"}
  BY DEF Calls
<1>4. TypeOK'
  BY <1>1, <1>2, <1>3 DEF TypeOK
<1>5. i' \in Nat /\ i' <= call'.n /\ Legal(call)'
  BY <1>2, <1>3 DEF Legal, Apart
<1>6. \A x \in Addresses : ~Done(x)'
  BY <1>2, <1>3 DEF Done, Forward, Backward, Addresses
<1>7. \A x \in Addresses : mem'[x] = IF Done(x)' THEN Wanted(x)' ELSE was'[x]
  BY <1>2, <1>6
<1>8. call'.op = "memcmp" => Agree(i)'
  BY <1>2, <1>3 DEF Agree, Backward
<1>9. LoopInv'
  BY <1>5, <1>7, <1>8 DEF LoopInv
<1>10. QED
  BY <1>2, <1>4, <1>9 DEF MemInv, MemoryRight, ComparisonRight

(* One step of a loop that writes: the byte written is the wanted one, and *)
(* it is the one that becomes done.                                        *)
LEMMA WriteKeeps ==
  ASSUME MemInv, pc = "loop", UNCHANGED <<call, pc, was, result>>, i' \in Nat, i' <= call.n,
         call.op # "memcmp", NEW t \in Addresses, Wanted(t) \in Bytes,
         mem' = [mem EXCEPT ![t] = Wanted(t)],
         \A x \in Addresses : Done(x)' <=> (Done(x) \/ x = t)
  PROVE  MemInv'
<1>1. TypeOK /\ LoopInv
  BY DEF MemInv
<1>2. mem' = [x \in Addresses |-> IF x = t THEN Wanted(t) ELSE mem[x]]
  BY <1>1 DEF TypeOK
<1>3. TypeOK'
  BY <1>1, <1>2 DEF TypeOK
<1>4. \A x \in Addresses : Wanted(x)' = Wanted(x)
  BY DEF Wanted
<1>5. \A x \in Addresses : mem'[x] = IF Done(x)' THEN Wanted(x)' ELSE was'[x]
  BY <1>1, <1>2, <1>4 DEF LoopInv
<1>6. Legal(call)'
  BY <1>1 DEF LoopInv, Legal, Apart
<1>7. LoopInv'
  BY <1>5, <1>6 DEF LoopInv
<1>8. QED
  BY <1>3, <1>7 DEF MemInv, MemoryRight, ComparisonRight

LEMMA CopyForwardKeeps == ASSUME MemInv, CopyForward PROVE MemInv'
<1>1. TypeOK /\ LoopInv
  BY DEF MemInv
<1>2. /\ pc = "loop" /\ Forward(call) /\ i < call.n /\ i' = i + 1
      /\ mem' = [mem EXCEPT ![call.a + i] = mem[call.b + i]]
      /\ UNCHANGED <<call, pc, was, result>>
  BY DEF CopyForward
<1>3. /\ call.a \in Nat /\ call.b \in Nat /\ call.n \in Nat /\ i \in Nat
      /\ call.op \in {"memcpy", "memmove"} /\ Legal(call)
  BY <1>1, <1>2 DEF TypeOK, LoopInv, Calls, Forward
<1>4. ~Backward(call)
  BY <1>2, <1>3 DEF Forward, Backward
<1>5. call.a + i \in Addresses /\ call.b + i \in Addresses
  BY <1>2, <1>3, SizeIsNat DEF Legal, Addresses
<1>6. ~(call.a <= call.b + i /\ call.b + i < call.a + i)
  BY <1>2, <1>3 DEF Forward, Legal, Apart
<1>7. mem[call.b + i] = was[call.b + i]
  BY <1>1, <1>2, <1>3, <1>4, <1>5, <1>6 DEF LoopInv, Done
<1>8. Wanted(call.a + i) = was[call.b + i] /\ Wanted(call.a + i) \in Bytes
  <2>1. call.a <= call.a + i /\ call.a + i < call.a + call.n /\ call.a + i - call.a = i
    BY <1>2, <1>3
  <2>2. Wanted(call.a + i) = was[call.b + i]
    BY <1>3, <2>1 DEF Wanted
  <2>3. QED
    BY <1>1, <1>5, <2>2 DEF TypeOK
<1>9. \A x \in Addresses : Done(x)' <=> (Done(x) \/ x = call.a + i)
  BY <1>2, <1>3, <1>4 DEF Done, Forward, Backward, Addresses
<1>10. i' \in Nat /\ i' <= call.n /\ call.op # "memcmp"
  BY <1>2, <1>3
<1>11. mem' = [mem EXCEPT ![call.a + i] = Wanted(call.a + i)]
  BY <1>2, <1>7, <1>8
<1>12. QED
  BY <1>2, <1>5, <1>8, <1>9, <1>10, <1>11, WriteKeeps

LEMMA CopyBackwardKeeps == ASSUME MemInv, CopyBackward PROVE MemInv'
<1>1. TypeOK /\ LoopInv
  BY DEF MemInv
<1>2. /\ pc = "loop" /\ Backward(call) /\ i > 0 /\ i' = i - 1
      /\ mem' = [mem EXCEPT ![call.a + (i - 1)] = mem[call.b + (i - 1)]]
      /\ UNCHANGED <<call, pc, was, result>>
  BY DEF CopyBackward
<1>3. /\ call.a \in Nat /\ call.b \in Nat /\ call.n \in Nat /\ i \in Nat /\ i <= call.n
      /\ call.op = "memmove" /\ call.b < call.a /\ Legal(call)
  BY <1>1, <1>2 DEF TypeOK, LoopInv, Calls, Backward
<1>4. ~Forward(call)
  BY <1>3 DEF Forward
<1>5. call.a + (i - 1) \in Addresses /\ call.b + (i - 1) \in Addresses
  BY <1>2, <1>3, SizeIsNat DEF Legal, Addresses
<1>6. mem[call.b + (i - 1)] = was[call.b + (i - 1)]
  BY <1>1, <1>2, <1>3, <1>4, <1>5 DEF LoopInv, Done
<1>7. Wanted(call.a + (i - 1)) = was[call.b + (i - 1)] /\ Wanted(call.a + (i - 1)) \in Bytes
  <2>1. /\ call.a <= call.a + (i - 1) /\ call.a + (i - 1) < call.a + call.n
        /\ call.a + (i - 1) - call.a = i - 1
    BY <1>2, <1>3
  <2>2. Wanted(call.a + (i - 1)) = was[call.b + (i - 1)]
    BY <1>3, <2>1 DEF Wanted
  <2>3. QED
    BY <1>1, <1>5, <2>2 DEF TypeOK
<1>8. \A x \in Addresses : Done(x)' <=> (Done(x) \/ x = call.a + (i - 1))
  BY <1>2, <1>3, <1>4 DEF Done, Forward, Backward, Addresses
<1>9. i' \in Nat /\ i' <= call.n
  BY <1>2, <1>3
<1>10. QED
  BY <1>2, <1>3, <1>5, <1>6, <1>7, <1>8, <1>9, WriteKeeps

LEMMA SetByteKeeps == ASSUME MemInv, SetByte PROVE MemInv'
<1>1. TypeOK /\ LoopInv
  BY DEF MemInv
<1>2. /\ pc = "loop" /\ call.op = "memset" /\ i < call.n /\ i' = i + 1
      /\ mem' = [mem EXCEPT ![call.a + i] = call.c % 256]
      /\ UNCHANGED <<call, pc, was, result>>
  BY DEF SetByte
<1>3. call.a \in Nat /\ call.n \in Nat /\ i \in Nat /\ Legal(call)
  BY <1>1, <1>2 DEF TypeOK, LoopInv, Calls
<1>4. call.a + i \in Addresses
  BY <1>2, <1>3, SizeIsNat DEF Legal, Addresses
<1>5. Wanted(call.a + i) = call.c % 256 /\ Wanted(call.a + i) \in Bytes
  <2>1. call.c \in Int
    BY <1>1 DEF TypeOK, Calls
  <2>2. call.c % 256 \in Bytes
    BY <2>1 DEF Bytes
  <2>3. Wanted(call.a + i) = call.c % 256
    BY <1>2, <1>3 DEF Wanted
  <2>4. QED
    BY <2>2, <2>3
<1>6. \A x \in Addresses : Done(x)' <=> (Done(x) \/ x = call.a + i)
  BY <1>2, <1>3 DEF Done, Forward, Backward, Addresses
<1>7. i' \in Nat /\ i' <= call.n /\ call.op # "memcmp"
  BY <1>1, <1>2, <1>3
<1>8. mem' = [mem EXCEPT ![call.a + i] = Wanted(call.a + i)]
  BY <1>2, <1>5
<1>9. QED
  BY <1>2, <1>4, <1>5, <1>6, <1>7, <1>8, WriteKeeps

LEMMA CompareEqualKeeps == ASSUME MemInv, CompareEqual PROVE MemInv'
<1>1. TypeOK /\ LoopInv
  BY DEF MemInv
<1>2. /\ pc = "loop" /\ call.op = "memcmp" /\ i < call.n /\ i' = i + 1
      /\ mem[call.a + i] = mem[call.b + i]
      /\ UNCHANGED <<mem, call, pc, was, result>>
  BY DEF CompareEqual
<1>3. /\ call.a \in Nat /\ call.b \in Nat /\ call.n \in Nat /\ i \in Nat /\ Legal(call)
  BY <1>1, <1>2 DEF TypeOK, LoopInv, Calls
<1>4. \A x \in Addresses : ~Done(x) /\ ~Done(x)'
  BY <1>2 DEF Done, Forward, Backward
<1>5. \A x \in Addresses : mem[x] = was[x]
  BY <1>1, <1>2, <1>4 DEF LoopInv
<1>6. call.a + i \in Addresses /\ call.b + i \in Addresses
  BY <1>2, <1>3, SizeIsNat DEF Legal, Addresses
<1>7. Agree(i)'
  <2>1. Agree(i)
    BY <1>1, <1>2 DEF LoopInv
  <2>2. was[call.a + i] = was[call.b + i]
    BY <1>2, <1>5, <1>6
  <2>3. \A j \in 0 .. (i + 1 - 1) : j \in 0 .. (i - 1) \/ j = i
    BY <1>3
  <2>4. i' = i + 1 /\ call' = call /\ was' = was
    BY <1>2
  <2>5. \A j \in 0 .. (i + 1 - 1) : was[call.a + j] = was[call.b + j]
    BY <2>1, <2>2, <2>3 DEF Agree
  <2>6. \A j \in 0 .. (i' - 1) : was'[call'.a + j] = was'[call'.b + j]
    BY <1>3, <2>4, <2>5
  <2>7. QED
    BY <2>6 DEF Agree
<1>8. TypeOK' /\ Legal(call)' /\ i' <= call'.n
  BY <1>1, <1>2, <1>3 DEF TypeOK, Legal, Apart
<1>9. LoopInv'
  BY <1>2, <1>4, <1>5, <1>7, <1>8 DEF LoopInv
<1>10. QED
  BY <1>2, <1>8, <1>9 DEF MemInv, MemoryRight, ComparisonRight

LEMMA CompareDiffersKeeps == ASSUME MemInv, CompareDiffers PROVE MemInv'
<1>1. TypeOK /\ LoopInv
  BY DEF MemInv
<1>2. /\ pc = "loop" /\ call.op = "memcmp" /\ i < call.n
      /\ mem[call.a + i] # mem[call.b + i]
      /\ result' = IF mem[call.a + i] < mem[call.b + i] THEN -1 ELSE 1
      /\ pc' = "returned" /\ UNCHANGED <<mem, call, i, was>>
  BY DEF CompareDiffers
<1>3. /\ call.a \in Nat /\ call.b \in Nat /\ call.n \in Nat /\ i \in Nat /\ Legal(call)
  BY <1>1, <1>2 DEF TypeOK, LoopInv, Calls
<1>4. \A x \in Addresses : mem[x] = was[x]
  BY <1>1, <1>2 DEF LoopInv, Done, Forward, Backward
<1>5. call.a + i \in Addresses /\ call.b + i \in Addresses
  BY <1>2, <1>3, SizeIsNat DEF Legal, Addresses
<1>6. TypeOK'
  BY <1>1, <1>2 DEF TypeOK
<1>7. MemoryRight'
  <2>1. \A x \in Addresses : Wanted(x)' = was[x]
    BY <1>2 DEF Wanted
  <2>2. mem = [x \in Addresses |-> was[x]]
    BY <1>1, <1>4 DEF TypeOK
  <2>3. QED
    BY <1>2, <2>1, <2>2 DEF MemoryRight
<1>8. ComparisonRight'
  <2>1. i \in 0 .. (call.n - 1) /\ Agree(i)'
    BY <1>1, <1>2, <1>3 DEF LoopInv, Agree
  <2>2. mem[call.a + i] \in Int /\ mem[call.b + i] \in Int
    <3>1. mem[call.a + i] \in Bytes /\ mem[call.b + i] \in Bytes
      BY <1>1, <1>5 DEF TypeOK
    <3>2. QED
      BY <3>1 DEF Bytes
  <2>3. \/ result' = -1 /\ was[call.a + i] < was[call.b + i]
        \/ result' = 1 /\ was[call.a + i] > was[call.b + i]
    <3>1. was[call.a + i] = mem[call.a + i] /\ was[call.b + i] = mem[call.b + i]
      BY <1>4, <1>5
    <3>2. mem[call.a + i] < mem[call.b + i] \/ mem[call.a + i] > mem[call.b + i]
      BY <1>2, <2>2
    <3>3. CASE mem[call.a + i] < mem[call.b + i]
      BY <1>2, <3>1, <3>3
    <3>4. CASE mem[call.a + i] > mem[call.b + i]
      <4>1. ~(mem[call.a + i] < mem[call.b + i])
        BY <2>2, <3>4
      <4>2. QED
        BY <1>2, <3>1, <3>4, <4>1
    <3>5. QED
      BY <3>2, <3>3, <3>4
  <2>4. QED
    BY <1>2, <2>1, <2>3 DEF ComparisonRight
<1>9. QED
  BY <1>2, <1>6, <1>7, <1>8 DEF MemInv, LoopInv

LEMMA ReturnKeeps == ASSUME MemInv, Return PROVE MemInv'
<1>1. TypeOK /\ LoopInv
  BY DEF MemInv
<1>2. /\ pc = "loop" /\ pc' = "returned" /\ result' = 0 /\ Over
      /\ UNCHANGED <<mem, call, i, was>>
  BY DEF Return
<1>3. /\ call.a \in Nat /\ call.b \in Nat /\ call.n \in Nat /\ i \in Nat /\ i <= call.n
      /\ call.op \in {"memcpy", "memmove", "memset", "memcmp"}
  BY <1>1, <1>2 DEF TypeOK, LoopInv, Calls
<1>4. TypeOK'
  BY <1>1, <1>2 DEF TypeOK
<1>5. MemoryRight'
  <2>1. \A x \in Addresses : mem[x] = Wanted(x)
    <3> SUFFICES ASSUME NEW x \in Addresses PROVE mem[x] = Wanted(x)
      OBVIOUS
    <3>1. mem[x] = IF Done(x) THEN Wanted(x) ELSE was[x]
      BY <1>1, <1>2 DEF LoopInv
    <3>2. x \in Nat
      BY DEF Addresses
    <3>3. CASE call.op = "memmove" /\ call.a = call.b
      <4>1. ~Forward(call) /\ ~Backward(call)
        BY <1>3, <3>3 DEF Forward, Backward
      <4>2. mem[x] = was[x]
        BY <3>1, <3>3, <4>1 DEF Done
      <4>3. call.b + (x - call.a) = x
        BY <1>3, <3>2, <3>3
      <4>4. Wanted(x) = was[x]
        BY <3>3, <4>3 DEF Wanted
      <4>5. QED
        BY <4>2, <4>4
    <3>4. CASE ~(call.op = "memmove" /\ call.a = call.b)
      <4>1. call.op # "memcmp" /\ call.a <= x /\ x < call.a + call.n => Done(x)
        BY <1>2, <1>3, <3>2, <3>4 DEF Over, Done, Forward, Backward
      <4>2. ~(call.op # "memcmp" /\ call.a <= x /\ x < call.a + call.n) => Wanted(x) = was[x]
        BY DEF Wanted
      <4>3. QED
        BY <3>1, <4>1, <4>2
    <3>5. QED
      BY <3>3, <3>4
  <2>2. mem = [x \in Addresses |-> Wanted(x)]
    BY <1>1, <2>1 DEF TypeOK
  <2>3. \A x : Wanted(x)' = Wanted(x)
    BY <1>2 DEF Wanted
  <2>4. QED
    BY <1>2, <2>2, <2>3 DEF MemoryRight
<1>6. ComparisonRight'
  <2> SUFFICES ASSUME call.op = "memcmp" PROVE Agree(call.n)'
    BY <1>2 DEF ComparisonRight
  <2>1. i = call.n
    BY <1>2, <1>3 DEF Over, Forward, Backward
  <2>2. Agree(i)
    BY <1>1, <1>2 DEF LoopInv
  <2>3. QED
    BY <1>2, <2>1, <2>2 DEF Agree
<1>7. QED
  BY <1>2, <1>4, <1>5, <1>6 DEF MemInv, LoopInv

LEMMA NextKeepsMemInv == MemInv /\ [Next]_vars => MemInv'
<1> SUFFICES ASSUME MemInv, [Next]_vars PROVE MemInv'
  OBVIOUS
<1>1. CASE Next
  BY <1>1, BeginKeeps, CopyForwardKeeps, CopyBackwardKeeps, SetByteKeeps, CompareEqualKeeps,
     CompareDiffersKeeps, ReturnKeeps DEF Next
<1>2. CASE UNCHANGED vars
  BY <1>2 DEF vars, MemInv, TypeOK, LoopInv, Legal, Apart, Agree, Done, Forward, Backward, Wanted,
     MemoryRight, ComparisonRight
<1>3. QED
  BY <1>1, <1>2

(* The invariant of the four loops (mem.c:137-178).                        *)
THEOREM MemInvariant == Spec => []MemInv
  BY InitEstablishesMemInv, NextKeepsMemInv, PTL DEF Spec

(* Every call leaves exactly the wanted bytes; memmove also when its       *)
(* ranges overlap, in either direction (mem.c:154-167).                    *)
THEOREM MemMemoryRight == Spec => []MemoryRight
<1>1. MemInv => MemoryRight
  BY DEF MemInv
<1>2. QED
  BY <1>1, MemInvariant, PTL

(* memcmp's answer orders the ranges by their first difference             *)
(* (mem.c:169-178).                                                        *)
THEOREM MemComparisonRight == Spec => []ComparisonRight
<1>1. MemInv => ComparisonRight
  BY DEF MemInv
<1>2. QED
  BY <1>1, MemInvariant, PTL

-----------------------------------------------------------------------------
(* The vectors whose gate is in place.                                     *)
Installed ==
  CASE step = "irq" -> 0 .. 31
    [] step = "installed" -> 0 .. 47
    [] OTHER -> {}

TablesInv ==
  /\ stubs \in [0 .. 47 -> Word]
  /\ step \in {"gdt", "idt", "exceptions", "irq", "installed"}
  /\ step # "gdt" =>
       /\ gp = 23
       /\ gdt[1] = GdtEntry(0, MaxWord, 154, 207) /\ gdt[2] = GdtEntry(0, MaxWord, 146, 207)
  /\ step \notin {"gdt", "idt"} => idtp = 2047
  /\ idt = [v \in Byte |-> IF v \in Installed THEN IdtEntry(stubs[v], 8, 142) ELSE ZeroIdt]

(* The two halves of an address make the address.                          *)
LEMMA HalvesJoin == ASSUME NEW a \in Word PROVE Offset(IdtEntry(a, 8, 142)) = a
<1> DEFINE h == a \div 65536
<1>1. MaxWord \in Nat
  BY SMT DEF MaxWord
<1>2. a \in Nat /\ a <= MaxWord
  BY <1>1, SMT DEF Word
<1>3. h \in Nat /\ h <= 65535 /\ a = 65536 * h + (a % 65536)
  BY <1>2, SMT DEF MaxWord
<1>4. h % 65536 = h
  <2> HIDE DEF h
  <2>1. QED
    BY <1>3, SMT
<1>5. Offset(IdtEntry(a, 8, 142)) = (a % 65536) + 65536 * (h % 65536)
  BY SMT DEF Offset, IdtEntry
<1>6. (a % 65536) + 65536 * h = a
  <2>1. a % 65536 \in Nat
    BY <1>2, SMT
  <2> HIDE DEF h
  <2>2. QED
    BY <1>3, <2>1, SMT
<1>7. QED
  BY <1>4, <1>5, <1>6, SMT

LEMMA InitFillsTables == TablesInit => TablesInv
  BY DEF TablesInit, TablesInv, Installed

LEMMA StepKeepsTables == TablesInv /\ [TablesNext]_tables => TablesInv'
<1> SUFFICES ASSUME TablesInv, [TablesNext]_tables PROVE TablesInv'
  OBVIOUS
<1>1. CASE gdt_install
  BY <1>1 DEF gdt_install, TablesInv, Installed
<1>2. CASE idt_install
  BY <1>2 DEF idt_install, TablesInv, Installed
<1>3. CASE exceptions_install
  <2>1. idt' = [v \in Byte |-> IF v \in 0 .. 31 THEN IdtEntry(stubs[v], 8, 142) ELSE ZeroIdt]
    BY <1>3 DEF exceptions_install, WithGates, TablesInv, Installed
  <2>2. QED
    BY <1>3, <2>1 DEF exceptions_install, TablesInv, Installed
<1>4. CASE irq_install
  <2>1. \A v : v \in 0 .. 47 <=> v \in 0 .. 31 \/ v \in 32 .. 47
    OBVIOUS
  <2>2. idt' = [v \in Byte |-> IF v \in 0 .. 47 THEN IdtEntry(stubs[v], 8, 142) ELSE ZeroIdt]
    BY <1>4, <2>1 DEF irq_install, WithGates, TablesInv, Installed
  <2>3. QED
    BY <1>4, <2>2 DEF irq_install, TablesInv, Installed
<1>5. CASE UNCHANGED tables
  BY <1>5 DEF tables, TablesInv, Installed
<1>6. QED
  BY <1>1, <1>2, <1>3, <1>4, <1>5 DEF TablesNext

LEMMA TablesInvariant == TablesSpec => []TablesInv
  BY InitFillsTables, StepKeepsTables, PTL DEF TablesSpec

(* Both segments decode to the whole address space (gdt.c:8-26).           *)
THEOREM DescriptorsFlat == TablesSpec => []FlatMemory
<1>1. TablesInv => FlatMemory
  BY SMT DEF TablesInv, FlatMemory, Reached, GdtEntry, SegmentPresent, SegmentBase, SegmentLimit,
     IsCode, IsWritableData, Is32Bit, Bit, MaxWord
<1>2. QED
  BY <1>1, TablesInvariant, PTL

(* The gates decode to the stubs' addresses, and there are no others       *)
(* (idt.c:21-38, exceptions.c:65-98, idt.c:54-69).                         *)
THEOREM DescriptorsGates == TablesSpec => []GatesLeadToStubs
<1>1. TablesInv => GatesLeadToStubs
  <2> SUFFICES ASSUME TablesInv, step = "installed", NEW v \in Byte
               PROVE  /\ Reached(v, idtp)
                      /\ GatePresent(idt[v]) <=> v <= 47
                      /\ v <= 47 => /\ Offset(idt[v]) = stubs[v] /\ IsInterruptGate(idt[v])
                                    /\ idt[v].sel % 8 = 0 /\ Reached(idt[v].sel \div 8, gp)
                                    /\ IsCode(gdt[idt[v].sel \div 8])
    BY DEF GatesLeadToStubs
  <2>1. v \in Nat /\ v <= 255 /\ (v \in Installed <=> v <= 47)
    BY DEF Installed, Byte
  <2>2. Reached(v, idtp)
    BY <2>1 DEF TablesInv, Reached
  <2>3. CASE v <= 47
    <3>1. idt[v] = IdtEntry(stubs[v], 8, 142) /\ stubs[v] \in Word
      BY <2>1, <2>3 DEF TablesInv
    <3>2. Offset(idt[v]) = stubs[v]
      BY <3>1, HalvesJoin
    <3>3. idt[v].sel = 8 /\ idt[v].flags = 142
      BY <3>1 DEF IdtEntry
    <3>4. GatePresent(idt[v]) /\ IsInterruptGate(idt[v])
      BY <3>3 DEF GatePresent, IsInterruptGate, Bit
    <3>5. 8 \div 8 = 1 /\ 8 % 8 = 0
      BY SMT
    <3>6. IsCode(gdt[1]) /\ gp = 23
      BY DEF TablesInv, GdtEntry, IsCode, Bit
    <3>7. QED
      BY <2>2, <2>3, <3>2, <3>3, <3>4, <3>5, <3>6 DEF Reached
  <2>4. CASE ~(v <= 47)
    <3>1. idt[v] = ZeroIdt
      BY <2>1, <2>4 DEF TablesInv
    <3>2. ~GatePresent(idt[v])
      BY <3>1 DEF ZeroIdt, IdtEntry, GatePresent, Bit
    <3>3. QED
      BY <2>2, <2>4, <3>2
  <2>5. QED
    BY <2>3, <2>4
<1>2. QED
  BY <1>1, TablesInvariant, PTL

-----------------------------------------------------------------------------
(* Rows of w cells, one after the other: where a cell is says which it is. *)
LEMMA CellOf ==
  ASSUME NEW w \in Nat \ {0}, NEW r \in Nat, NEW c \in 0 .. (w - 1)
  PROVE  (r * w + c) \div w = r /\ (r * w + c) % w = c
OBVIOUS

LEMMA RowsApart ==
  ASSUME NEW w \in Nat \ {0}, NEW r \in Nat, NEW q \in Nat, r < q
  PROVE  r * w + w <= q * w
<1>1. PICK d \in Nat : q = r + 1 + d
  <2>1. q - r - 1 \in Nat /\ q = r + 1 + (q - r - 1)
    OBVIOUS
  <2>2. QED
    BY <2>1
<1>2. q * w = r * w + w + d * w /\ d * w \in Nat
  BY <1>1
<1>3. r * w \in Nat
  OBVIOUS
<1>4. QED
  BY <1>2, <1>3

LEMMA CellSplit ==
  ASSUME NEW w \in Nat \ {0}, NEW n \in Nat
  PROVE  /\ n \div w \in Nat /\ n % w \in 0 .. (w - 1)
         /\ n = (n \div w) * w + (n % w)
OBVIOUS

LEMMA StopIs == \A col \in Nat : Stop(col) = ((col + 4) \div 4) * 4 /\ Stop(col) \in Nat
<1> SUFFICES ASSUME NEW col \in Nat PROVE Stop(col) = ((col + 4) \div 4) * 4 /\ Stop(col) \in Nat
  OBVIOUS
<1> DEFINE m == ((col + 4) \div 4) * 4
<1>1. m \in (col + 1) .. (col + 4) /\ m % 4 = 0
  OBVIOUS
<1>2. \A t \in (col + 1) .. (col + 4) : t % 4 = 0 => t = m
  OBVIOUS
<1> HIDE DEF m
<1>3. Stop(col) = m
  BY <1>1, <1>2 DEF Stop
<1>4. QED
  BY <1>1, <1>3 DEF m

(* Paper in order: nothing is written below the row it has reached.        *)
Sheet(p) ==
  /\ p = [ground |-> p.ground, row |-> p.row, col |-> p.col, ink |-> p.ink]
  /\ p.row \in Nat /\ p.col \in Nat
  /\ \A r, c \in Nat : r > p.row => <<r, c>> \notin DOMAIN p.ink

(* The screen is the last rows of the paper.                               *)
Shows(s, p) ==
  s = [vga |-> [n \in Cells |-> Inked(p, Top(p) + n \div VGA_WIDTH, n % VGA_WIDTH)],
       row |-> p.row - Top(p), col |-> p.col]

LEMMA TopFacts ==
  ASSUME NEW p, p.row \in Nat
  PROVE  /\ Top(p) \in Nat /\ p.row - Top(p) \in 0 .. (VGA_HEIGHT - 1)
         /\ p.row >= VGA_HEIGHT => p.row - Top(p) = VGA_HEIGHT - 1
         /\ p.row < VGA_HEIGHT => Top(p) = 0
  BY ConsoleAssumption DEF Top

(* Where a cell of the screen lies.                                        *)
LEMMA CellFacts ==
  /\ \A n \in Cells : /\ n \in Nat /\ n \div VGA_WIDTH \in 0 .. (VGA_HEIGHT - 1)
                      /\ n % VGA_WIDTH \in 0 .. (VGA_WIDTH - 1)
                      /\ n = (n \div VGA_WIDTH) * VGA_WIDTH + (n % VGA_WIDTH)
  /\ \A r \in 0 .. (VGA_HEIGHT - 1), c \in 0 .. (VGA_WIDTH - 1) : r * VGA_WIDTH + c \in Cells
<1>1. /\ VGA_WIDTH \in Nat \ {0} /\ VGA_HEIGHT \in Nat \ {0} /\ VGA_WIDTH * VGA_HEIGHT \in Nat
  BY ConsoleAssumption
<1>2. ASSUME NEW n \in Cells
      PROVE  /\ n \in Nat /\ n \div VGA_WIDTH \in 0 .. (VGA_HEIGHT - 1)
             /\ n % VGA_WIDTH \in 0 .. (VGA_WIDTH - 1)
             /\ n = (n \div VGA_WIDTH) * VGA_WIDTH + (n % VGA_WIDTH)
  <2>1. n \in Nat /\ n < VGA_WIDTH * VGA_HEIGHT
    BY <1>1 DEF Cells
  <2>2. /\ n \div VGA_WIDTH \in Nat /\ n % VGA_WIDTH \in 0 .. (VGA_WIDTH - 1)
        /\ n = (n \div VGA_WIDTH) * VGA_WIDTH + (n % VGA_WIDTH)
    BY <1>1, <2>1, CellSplit
  <2>3. ASSUME VGA_HEIGHT <= n \div VGA_WIDTH PROVE FALSE
    <3>1. VGA_HEIGHT * VGA_WIDTH <= (n \div VGA_WIDTH) * VGA_WIDTH
      <4>1. CASE VGA_HEIGHT = n \div VGA_WIDTH
        BY <1>1, <4>1
      <4>2. CASE VGA_HEIGHT < n \div VGA_WIDTH
        <5>1. VGA_HEIGHT * VGA_WIDTH + VGA_WIDTH <= (n \div VGA_WIDTH) * VGA_WIDTH
          BY <1>1, <2>2, <4>2, RowsApart
        <5> DEFINE a == VGA_HEIGHT * VGA_WIDTH
                   b == (n \div VGA_WIDTH) * VGA_WIDTH
        <5>2. a \in Nat /\ b \in Nat
          BY <1>1, <2>2
        <5> HIDE DEF a, b
        <5>3. a + VGA_WIDTH <= b
          BY <5>1 DEF a, b
        <5>4. a <= b
          BY <1>1, <5>2, <5>3
        <5>5. QED
          BY <5>4 DEF a, b
      <4>3. QED
        BY <1>1, <2>2, <2>3, <4>1, <4>2
    <3> DEFINE a == VGA_HEIGHT * VGA_WIDTH
               b == (n \div VGA_WIDTH) * VGA_WIDTH
    <3>2. a \in Nat /\ b \in Nat /\ a = VGA_WIDTH * VGA_HEIGHT
      BY <1>1, <2>2
    <3> HIDE DEF a, b
    <3>3. a <= b /\ n = b + (n % VGA_WIDTH) /\ n < a
      BY <2>1, <2>2, <3>1, <3>2 DEF a, b
    <3>4. QED
      BY <2>1, <2>2, <3>2, <3>3
  <2>4. QED
    BY <1>1, <2>1, <2>2, <2>3
<1>3. ASSUME NEW r \in 0 .. (VGA_HEIGHT - 1), NEW c \in 0 .. (VGA_WIDTH - 1)
      PROVE  r * VGA_WIDTH + c \in Cells
  <2> DEFINE a == r * VGA_WIDTH
             b == VGA_HEIGHT * VGA_WIDTH
  <2>1. a + VGA_WIDTH <= b
    BY <1>1, <1>3, RowsApart
  <2>2. a \in Nat /\ b \in Nat /\ b = VGA_WIDTH * VGA_HEIGHT
    BY <1>1, <1>3
  <2> HIDE DEF a, b
  <2>3. a + c \in 0 .. (VGA_WIDTH * VGA_HEIGHT - 1)
    BY <1>1, <1>3, <2>1, <2>2
  <2>4. QED
    BY <2>3 DEF a, Cells
<1>4. QED
  BY <1>2, <1>3

(* One row down is one row of cells further.                               *)
LEMMA CellBelow ==
  ASSUME NEW n \in Cells
  PROVE  /\ n + VGA_WIDTH \in Cells <=> n \div VGA_WIDTH + 1 < VGA_HEIGHT
         /\ (n + VGA_WIDTH) \div VGA_WIDTH = n \div VGA_WIDTH + 1
         /\ (n + VGA_WIDTH) % VGA_WIDTH = n % VGA_WIDTH
<1> DEFINE r == n \div VGA_WIDTH
           c == n % VGA_WIDTH
<1>1. VGA_WIDTH \in Nat \ {0} /\ VGA_HEIGHT \in Nat \ {0}
  BY ConsoleAssumption
<1>2. /\ r \in 0 .. (VGA_HEIGHT - 1) /\ c \in 0 .. (VGA_WIDTH - 1) /\ n = r * VGA_WIDTH + c
      /\ n \in Nat
  BY CellFacts
<1> HIDE DEF r, c
<1> DEFINE below == r + 1
<1>3. n + VGA_WIDTH = below * VGA_WIDTH + c /\ below \in Nat
  BY <1>1, <1>2
<1>4. /\ (n + VGA_WIDTH) \div VGA_WIDTH = r + 1 /\ (n + VGA_WIDTH) % VGA_WIDTH = c
  <2> HIDE DEF below
  <2>1. /\ (below * VGA_WIDTH + c) \div VGA_WIDTH = below
        /\ (below * VGA_WIDTH + c) % VGA_WIDTH = c
    BY <1>1, <1>2, <1>3, CellOf
  <2>2. (n + VGA_WIDTH) \div VGA_WIDTH = below /\ (n + VGA_WIDTH) % VGA_WIDTH = c
    BY <1>3, <2>1, Zenon
  <2>3. QED
    BY <2>2 DEF below
<1>5. n + VGA_WIDTH \in Cells => r + 1 < VGA_HEIGHT
  <2>1. ASSUME n + VGA_WIDTH \in Cells PROVE r + 1 \in 0 .. (VGA_HEIGHT - 1)
    BY <1>4, <2>1, CellFacts
  <2>2. QED
    BY <1>1, <1>2, <2>1
<1>6. r + 1 < VGA_HEIGHT => n + VGA_WIDTH \in Cells
  <2>1. ASSUME r + 1 < VGA_HEIGHT PROVE (r + 1) * VGA_WIDTH + c \in Cells
    <3>1. r + 1 \in 0 .. (VGA_HEIGHT - 1)
      BY <1>1, <1>2, <2>1
    <3>2. QED
      BY <1>2, <3>1, CellFacts
  <2>2. QED
    BY <1>3, <2>1
<1>7. QED
  BY <1>4, <1>5, <1>6 DEF r, c

(* A character that does not end the row: the screen is written where the  *)
(* paper is, and both move to the same column, which may be past the last. *)
LEMMA PlaceShows ==
  ASSUME NEW p, NEW s, NEW c, Sheet(p), p.col < VGA_WIDTH, Shows(s, p), c # "\n"
  PROVE  /\ Sheet(Moved(p, c)) /\ Moved(p, c).row = p.row
         /\ Shows(Placed(s, c), Moved(p, c))
<1> DEFINE top == Top(p)
           row == p.row - top
           pos == row * VGA_WIDTH + p.col
           view(q) == [n \in Cells |-> Inked(q, top + n \div VGA_WIDTH, n % VGA_WIDTH)]
<1>1. /\ p = [ground |-> p.ground, row |-> p.row, col |-> p.col, ink |-> p.ink]
      /\ p.row \in Nat /\ p.col \in Nat /\ p.col \in 0 .. (VGA_WIDTH - 1)
      /\ \A r, k \in Nat : r > p.row => <<r, k>> \notin DOMAIN p.ink
      /\ VGA_WIDTH \in Nat \ {0}
  BY ConsoleAssumption DEF Sheet
<1>2. /\ top \in Nat /\ row \in 0 .. (VGA_HEIGHT - 1) /\ p.row = top + row /\ row \in Nat
  BY <1>1, TopFacts, ConsoleAssumption
<1>3. s = [vga |-> view(p), row |-> row, col |-> p.col]
  BY DEF Shows
<1> HIDE DEF top, row
<1>4. ASSUME NEW col \in Nat, Moved(p, c) = [ground |-> p.ground, row |-> p.row, col |-> col, ink |-> p.ink],
             Placed(s, c) = [vga |-> view(p), row |-> row, col |-> col]
      PROVE  /\ Sheet(Moved(p, c)) /\ Moved(p, c).row = p.row
             /\ Shows(Placed(s, c), Moved(p, c))
  <2> DEFINE q == Moved(p, c)
  <2>1. q.ground = p.ground /\ q.row = p.row /\ q.col = col /\ q.ink = p.ink
    BY <1>4
  <2>2. q = [ground |-> q.ground, row |-> q.row, col |-> q.col, ink |-> q.ink]
    BY <1>4
  <2> HIDE DEF q
  <2>3. Top(q) = top
    BY <2>1 DEF Top, top
  <2>4. view(q) = view(p)
    BY <2>1 DEF Inked
  <2>5. Shows(Placed(s, c), q)
    BY <1>4, <2>1, <2>3, <2>4 DEF Shows, row
  <2>6. Sheet(q)
    BY <1>1, <1>4, <2>1, <2>2 DEF Sheet
  <2>7. QED
    BY <2>1, <2>5, <2>6 DEF q
<1>5. CASE c = "\r"
  <2>1. /\ Moved(p, c) = [ground |-> p.ground, row |-> p.row, col |-> 0, ink |-> p.ink]
        /\ Placed(s, c) = [vga |-> view(p), row |-> row, col |-> 0]
    BY <1>1, <1>3, <1>5 DEF Moved, Placed
  <2>2. QED
    BY <1>4, <2>1
<1>6. CASE c = "\t"
  <2>1. /\ Moved(p, c) = [ground |-> p.ground, row |-> p.row, col |-> Stop(p.col), ink |-> p.ink]
        /\ Placed(s, c) = [vga |-> view(p), row |-> row, col |-> ((p.col + 4) \div 4) * 4]
    BY <1>1, <1>3, <1>6 DEF Moved, Placed
  <2>2. Stop(p.col) = ((p.col + 4) \div 4) * 4 /\ Stop(p.col) \in Nat
    BY <1>1, StopIs
  <2>3. QED
    BY <1>4, <2>1, <2>2
<1>7. CASE c = "BS"
  <2> DEFINE col == IF p.col = 0 THEN 0 ELSE p.col - 1
  <2>1. col \in Nat /\ col = IF p.col > 0 THEN p.col - 1 ELSE p.col
    BY <1>1
  <2>2. /\ Moved(p, c) = [ground |-> p.ground, row |-> p.row, col |-> col, ink |-> p.ink]
    BY <1>1, <1>7 DEF Moved
  <2>3. Placed(s, c) = [vga |-> view(p), row |-> row, col |-> col]
    BY <1>3, <1>7, <2>1 DEF Placed
  <2> HIDE DEF col
  <2>4. QED
    BY <1>4, <2>1, <2>2, <2>3
<1>8. CASE c \notin {"\r", "\t", "BS"}
  <2> DEFINE q == Moved(p, c)
             ink == Written(p, c)
  <2>1. q = [ground |-> p.ground, row |-> p.row, col |-> p.col + 1, ink |-> ink]
    BY <1>1, <1>8 DEF Moved
  <2>2. /\ q.ground = p.ground /\ q.row = p.row /\ q.col = p.col + 1 /\ q.ink = ink
        /\ q = [ground |-> q.ground, row |-> q.row, col |-> q.col, ink |-> q.ink]
    BY <2>1
  <2>3. Placed(s, c) = [vga |-> [view(p) EXCEPT ![pos] = c], row |-> row, col |-> p.col + 1]
    BY <1>3, <1>8 DEF Placed
  <2>4. /\ DOMAIN ink = {<<p.row, p.col>>} \cup DOMAIN p.ink
        /\ \A x \in DOMAIN ink : ink[x] = IF x = <<p.row, p.col>> THEN c ELSE p.ink[x]
    BY DEF Written
  <2> HIDE DEF q, ink
  <2>5. \A r, k : Inked(q, r, k) = IF r = p.row /\ k = p.col THEN c ELSE Inked(p, r, k)
    BY <2>2, <2>4 DEF Inked
  <2>6. pos \in Cells
    BY <1>1, <1>2, CellFacts
  <2>7. ASSUME NEW n \in Cells
        PROVE  n = pos <=> top + n \div VGA_WIDTH = p.row /\ n % VGA_WIDTH = p.col
    <3>1. /\ n \div VGA_WIDTH \in Nat /\ n % VGA_WIDTH \in Nat
          /\ n = (n \div VGA_WIDTH) * VGA_WIDTH + (n % VGA_WIDTH)
      BY CellFacts, ConsoleAssumption
    <3>2. pos \div VGA_WIDTH = row /\ pos % VGA_WIDTH = p.col
      BY <1>1, <1>2, CellOf
    <3>3. n = pos <=> n \div VGA_WIDTH = row /\ n % VGA_WIDTH = p.col
      BY <3>1, <3>2
    <3>4. top + n \div VGA_WIDTH = p.row <=> n \div VGA_WIDTH = row
      <4> DEFINE a == n \div VGA_WIDTH
      <4>1. a \in Nat
        BY <3>1
      <4> HIDE DEF a
      <4>2. top + a = p.row <=> a = row
        BY <1>2, <4>1
      <4>3. QED
        BY <4>2 DEF a
    <3>5. QED
      BY <3>3, <3>4
  <2>8. [view(p) EXCEPT ![pos] = c] = view(q)
    <3> HIDE DEF pos
    <3>1. ASSUME NEW n \in Cells PROVE view(q)[n] = IF n = pos THEN c ELSE view(p)[n]
      BY <2>5, <2>7
    <3>2. QED
      BY <2>6, <3>1
  <2>9. Top(q) = top
    BY <2>2 DEF Top, top
  <2>10. Shows(Placed(s, c), q)
    BY <2>2, <2>3, <2>8, <2>9 DEF Shows, row
  <2>11. Sheet(q)
    <3>1. ASSUME NEW r \in Nat, NEW k \in Nat, r > q.row PROVE <<r, k>> \notin DOMAIN q.ink
      <4>1. <<r, k>> # <<p.row, p.col>>
        BY <1>1, <2>2, <3>1
      <4>2. QED
        BY <1>1, <2>2, <2>4, <3>1, <4>1
    <3>2. QED
      BY <1>1, <2>2, <3>1 DEF Sheet
  <2>12. QED
    BY <2>2, <2>10, <2>11 DEF q
<1>9. QED
  BY <1>5, <1>6, <1>7, <1>8

(* The end of a row: the cursor goes down, or everything goes up.          *)
LEMMA BreakShows ==
  ASSUME NEW p, NEW s, Sheet(p), Shows(s, p)
  PROVE  Sheet(NextRow(p)) /\ NextRow(p).col = 0 /\ Shows(Scrolled(NewLine(s)), NextRow(p))
<1> DEFINE top == Top(p)
           q == NextRow(p)
           view(r, k) == [n \in Cells |-> Inked(r, k + n \div VGA_WIDTH, n % VGA_WIDTH)]
           down == NewLine(s)
<1>1. /\ p = [ground |-> p.ground, row |-> p.row, col |-> p.col, ink |-> p.ink]
      /\ p.row \in Nat /\ p.col \in Nat
      /\ \A r, k \in Nat : r > p.row => <<r, k>> \notin DOMAIN p.ink
      /\ VGA_WIDTH \in Nat \ {0} /\ VGA_HEIGHT \in Nat \ {0}
  BY ConsoleAssumption DEF Sheet
<1>2. /\ q = [ground |-> p.ground, row |-> p.row + 1, col |-> 0, ink |-> p.ink]
  BY DEF NextRow
<1>3. /\ q.ground = p.ground /\ q.row = p.row + 1 /\ q.col = 0 /\ q.ink = p.ink /\ q.row \in Nat
      /\ q = [ground |-> q.ground, row |-> q.row, col |-> q.col, ink |-> q.ink]
  BY <1>1, <1>2
<1>4. top \in Nat /\ p.row - top \in 0 .. (VGA_HEIGHT - 1)
  BY <1>1, TopFacts
<1>5. down = [vga |-> view(p, top), row |-> p.row - top + 1, col |-> 0]
  BY DEF NewLine, Shows
<1>6. \A r, k : Inked(q, r, k) = Inked(p, r, k)
  BY <1>3 DEF Inked
<1> HIDE DEF q, down
<1>7. Sheet(q)
  BY <1>1, <1>3 DEF Sheet
<1>8. CASE q.row < VGA_HEIGHT
  <2>1. top = 0 /\ Top(q) = 0
    BY <1>1, <1>3, <1>8 DEF Top
  <2>2. Scrolled(down) = down
    <3>1. down.row < VGA_HEIGHT
      BY <1>1, <1>3, <1>5, <1>8, <2>1
    <3>2. QED
      BY <3>1 DEF Scrolled
  <2>3. view(q, 0) = view(p, 0)
    BY <1>6
  <2>4. Shows(down, q)
    BY <1>1, <1>3, <1>5, <2>1, <2>3 DEF Shows
  <2>5. QED
    BY <1>3, <1>7, <2>2, <2>4 DEF q, down
<1>9. CASE ~(q.row < VGA_HEIGHT)
  <2>1. Top(q) = top + 1 /\ p.row - top = VGA_HEIGHT - 1 /\ q.row - Top(q) = VGA_HEIGHT - 1
    BY <1>1, <1>3, <1>9 DEF Top
  <2> DEFINE up == [n \in Cells |-> IF n + VGA_WIDTH \in Cells THEN view(p, top)[n + VGA_WIDTH] ELSE Blank]
  <2>2. Scrolled(down) = [vga |-> up, row |-> VGA_HEIGHT - 1, col |-> 0]
    <3>1. ~(down.row < VGA_HEIGHT) /\ down.vga = view(p, top)
      BY <1>1, <1>5, <2>1
    <3>2. QED
      BY <3>1 DEF Scrolled
  <2>3. ASSUME NEW n \in Cells PROVE up[n] = Inked(q, (top + 1) + n \div VGA_WIDTH, n % VGA_WIDTH)
    <3> DEFINE r == n \div VGA_WIDTH
               k == n % VGA_WIDTH
    <3>1. /\ r \in 0 .. (VGA_HEIGHT - 1) /\ k \in Nat
          /\ (n + VGA_WIDTH \in Cells <=> r + 1 < VGA_HEIGHT)
          /\ (n + VGA_WIDTH) \div VGA_WIDTH = r + 1 /\ (n + VGA_WIDTH) % VGA_WIDTH = k
      <4>1. r \in 0 .. (VGA_HEIGHT - 1) /\ k \in 0 .. (VGA_WIDTH - 1)
        BY CellFacts
      <4>2. k \in Nat
        BY <1>1, <4>1
      <4>3. QED
        BY <4>1, <4>2, CellBelow
    <3> HIDE DEF r, k
    <3>2. CASE r + 1 < VGA_HEIGHT
      <4>1. up[n] = Inked(p, top + (r + 1), k)
        BY <3>1, <3>2
      <4>2. top + (r + 1) = (top + 1) + r
        BY <1>4, <3>1
      <4>3. QED
        BY <1>6, <4>1, <4>2 DEF r, k
    <3>3. CASE ~(r + 1 < VGA_HEIGHT)
      <4>1. up[n] = Blank
        BY <3>1, <3>3
      <4>2. (top + 1) + r = q.row
        BY <1>1, <1>3, <1>4, <2>1, <3>1, <3>3
      <4>3. <<q.row, k>> \notin DOMAIN p.ink
        BY <1>1, <1>3, <3>1
      <4>4. Inked(q, q.row, k) = Blank
        BY <1>3, <1>9, <4>3 DEF Inked
      <4>5. QED
        BY <4>1, <4>2, <4>4 DEF r, k
    <3>4. QED
      BY <3>2, <3>3
  <2>4. up = view(q, top + 1)
    <3> HIDE DEF up
    <3>1. up = [n \in Cells |-> up[n]]
      BY DEF up
    <3>2. QED
      BY <2>3, <3>1
  <2>5. Shows(Scrolled(down), q)
    BY <1>3, <2>1, <2>2, <2>4 DEF Shows
  <2>6. QED
    BY <1>3, <1>7, <2>5 DEF q, down
<1>10. QED
  BY <1>8, <1>9

LEMMA PutShows ==
  ASSUME NEW p, NEW s, NEW c, Sheet(p), p.col < VGA_WIDTH, Shows(s, p)
  PROVE  /\ Sheet(Typed(p, c)) /\ Typed(p, c).col < VGA_WIDTH
         /\ Shows(put_char(s, c), Typed(p, c))
<1>1. VGA_WIDTH \in Nat \ {0} /\ VGA_HEIGHT \in Nat \ {0}
  BY ConsoleAssumption
<1>2. CASE c = "\n"
  <2> DEFINE down == NewLine(s)
  <2>1. Placed(s, c) = down /\ Typed(p, c) = NextRow(p)
    BY <1>2 DEF Placed, Typed
  <2>2. down.col = 0
    BY DEF NewLine
  <2>3. put_char(s, c) = Scrolled(down)
    BY <1>1, <2>1, <2>2 DEF put_char, Wrapped
  <2> HIDE DEF down
  <2>4. /\ Sheet(NextRow(p)) /\ NextRow(p).col = 0 /\ Shows(Scrolled(down), NextRow(p))
    BY BreakShows DEF down
  <2>5. QED
    BY <1>1, <2>1, <2>3, <2>4
<1>3. CASE c # "\n"
  <2> DEFINE q == Moved(p, c)
             d == Placed(s, c)
  <2>1. Sheet(q) /\ q.row = p.row /\ Shows(d, q)
    BY <1>3, PlaceShows
  <2>2. Typed(p, c) = IF q.col >= VGA_WIDTH THEN NextRow(q) ELSE q
    BY <1>3 DEF Typed
  <2>3. put_char(s, c) = Scrolled(Wrapped(d))
    BY DEF put_char
  <2> HIDE DEF q, d
  <2>4. d.col = q.col /\ d.row = q.row - Top(q)
    BY <2>1 DEF Shows
  <2>5. CASE q.col >= VGA_WIDTH
    <3>1. Wrapped(d) = NewLine(d)
      BY <2>4, <2>5 DEF Wrapped
    <3>2. /\ Sheet(NextRow(q)) /\ NextRow(q).col = 0 /\ Shows(Scrolled(Wrapped(d)), NextRow(q))
      BY <2>1, <3>1, BreakShows
    <3>3. QED
      BY <1>1, <2>2, <2>3, <2>5, <3>2
  <2>6. CASE ~(q.col >= VGA_WIDTH)
    <3>1. q.col \in Nat /\ q.row \in Nat /\ q.row - Top(q) \in 0 .. (VGA_HEIGHT - 1)
      BY <2>1, TopFacts DEF Sheet
    <3>2. Wrapped(d) = d
      BY <2>4, <2>6 DEF Wrapped
    <3>3. Scrolled(d) = d
      <4>1. d.row < VGA_HEIGHT
        BY <1>1, <2>4, <3>1
      <4>2. QED
        BY <4>1 DEF Scrolled
    <3>4. QED
      BY <1>1, <2>1, <2>2, <2>3, <2>6, <3>1, <3>2, <3>3
  <2>7. QED
    BY <2>5, <2>6
<1>4. QED
  BY <1>2, <1>3

(* The screen, the paper and the controller's cursor agree.                *)
ScreenInv ==
  /\ Sheet(paper) /\ paper.col < VGA_WIDTH /\ Shows(screen, paper)
  /\ said.on = "serial" \/ todo = << >> =>
       hw \in {Unset, screen.row * VGA_WIDTH + screen.col}

LEMMA BlankShows ==
  ASSUME NEW g
  PROVE  LET p == [ground |-> g, row |-> 0, col |-> 0, ink |-> << >>]
             s == [vga |-> [n \in Cells |-> g], row |-> 0, col |-> 0]
         IN Sheet(p) /\ p.col < VGA_WIDTH /\ Shows(s, p) /\ s.row * VGA_WIDTH + s.col = 0
<1> DEFINE p == [ground |-> g, row |-> 0, col |-> 0, ink |-> << >>]
           s == [vga |-> [n \in Cells |-> g], row |-> 0, col |-> 0]
<1>1. VGA_WIDTH \in Nat \ {0} /\ VGA_HEIGHT \in Nat \ {0}
  BY ConsoleAssumption
<1>2. \A r, c : <<r, c>> \notin DOMAIN p.ink
  OBVIOUS
<1>3. Sheet(p)
  BY <1>2 DEF Sheet
<1>4. Top(p) = 0
  BY <1>1 DEF Top
<1>5. ASSUME NEW n \in Cells PROVE Inked(p, 0 + n \div VGA_WIDTH, n % VGA_WIDTH) = g
  <2>1. n \div VGA_WIDTH \in 0 .. (VGA_HEIGHT - 1)
    BY CellFacts
  <2>2. 0 + n \div VGA_WIDTH < VGA_HEIGHT
    BY <1>1, <2>1
  <2>3. QED
    BY <1>2, <2>2 DEF Inked
<1>6. Shows(s, p)
  BY <1>4, <1>5 DEF Shows
<1>7. s.row * VGA_WIDTH + s.col = 0 /\ p.col < VGA_WIDTH
  BY <1>1
<1>8. QED
  BY <1>3, <1>6, <1>7

LEMMA ScreenInit == ConsoleInit => ScreenInv
<1> SUFFICES ASSUME ConsoleInit PROVE ScreenInv
  OBVIOUS
<1>1. /\ screen = [vga |-> [n \in Cells |-> Ground], row |-> 0, col |-> 0] /\ hw = Unset
      /\ paper = [ground |-> Ground, row |-> 0, col |-> 0, ink |-> << >>]
  BY DEF ConsoleInit
<1>2. QED
  BY <1>1, BlankShows DEF ScreenInv

LEMMA ScreenNext == ScreenInv /\ [ConsoleNext]_console_vars => ScreenInv'
<1> SUFFICES ASSUME ScreenInv, [ConsoleNext]_console_vars PROVE ScreenInv'
  OBVIOUS
<1>1. ASSUME NEW d \in Plain \cup Numeric, printf(d) PROVE ScreenInv'
  <2>1. UNCHANGED <<screen, hw, paper>> /\ todo = << >>
    BY <1>1 DEF printf, Say, Call
  <2>2. QED
    BY <2>1 DEF ScreenInv
<1>2. ASSUME NEW d \in Plain \cup Numeric, serial_printf(d) PROVE ScreenInv'
  <2>1. UNCHANGED <<screen, hw, paper>> /\ todo = << >>
    BY <1>2 DEF serial_printf, Say, Call
  <2>2. QED
    BY <2>1 DEF ScreenInv
<1>3. CASE Put
  <2>1. /\ screen' = put_char(screen, Head(todo)) /\ paper' = Typed(paper, Head(todo))
        /\ said.on = "screen" /\ said' = said
        /\ todo' = << >> => hw' = (screen'.row * VGA_WIDTH + screen'.col) % 65536
    BY <1>3 DEF Put, set_cursor
  <2>2. Sheet(paper') /\ paper'.col < VGA_WIDTH /\ Shows(screen', paper')
    BY <2>1, PutShows DEF ScreenInv
  <2>3. screen'.row \in 0 .. (VGA_HEIGHT - 1) /\ screen'.col \in 0 .. (VGA_WIDTH - 1)
    <3>1. paper'.row \in Nat /\ paper'.col \in Nat
      BY <2>2 DEF Sheet
    <3>2. paper'.row - Top(paper') \in 0 .. (VGA_HEIGHT - 1)
      BY <3>1, TopFacts
    <3>3. screen'.row = paper'.row - Top(paper') /\ screen'.col = paper'.col
      BY <2>2 DEF Shows
    <3>4. QED
      BY <2>2, <3>1, <3>2, <3>3, ConsoleAssumption
  <2>4. screen'.row * VGA_WIDTH + screen'.col \in Cells
    BY <2>3, CellFacts
  <2>5. (screen'.row * VGA_WIDTH + screen'.col) % 65536 = screen'.row * VGA_WIDTH + screen'.col
    <3> DEFINE at == screen'.row * VGA_WIDTH + screen'.col
    <3>1. at \in Nat /\ at < 65536
      BY <2>4, ConsoleAssumption DEF Cells
    <3> HIDE DEF at
    <3>2. at % 65536 = at
      BY <3>1
    <3>3. QED
      BY <3>2 DEF at
  <2>6. said'.on = "serial" \/ todo' = << >> =>
          hw' \in {Unset, screen'.row * VGA_WIDTH + screen'.col}
    BY <2>1, <2>5
  <2>7. QED
    BY <2>2, <2>6 DEF ScreenInv
<1>4. CASE clear_screen
  <2>1. /\ screen' = [vga |-> [n \in Cells |-> Blank], row |-> 0, col |-> 0]
        /\ paper' = [ground |-> Blank, row |-> 0, col |-> 0, ink |-> << >>]
        /\ hw' = (0 * VGA_WIDTH + 0) % 65536
    BY <1>4 DEF clear_screen, set_cursor
  <2>2. hw' = 0
    <3>1. VGA_WIDTH \in Nat
      BY ConsoleAssumption
    <3>2. (0 * VGA_WIDTH + 0) % 65536 = 0
      BY <3>1
    <3>3. QED
      BY <2>1, <3>2
  <2>3. /\ Sheet(paper') /\ paper'.col < VGA_WIDTH /\ Shows(screen', paper')
        /\ screen'.row * VGA_WIDTH + screen'.col = 0
    <3> DEFINE p == [ground |-> Blank, row |-> 0, col |-> 0, ink |-> << >>]
               s == [vga |-> [n \in Cells |-> Blank], row |-> 0, col |-> 0]
    <3>1. Sheet(p) /\ p.col < VGA_WIDTH /\ Shows(s, p) /\ s.row * VGA_WIDTH + s.col = 0
      BY BlankShows
    <3>2. paper' = p /\ screen' = s
      BY <2>1
    <3> HIDE DEF p, s
    <3>3. QED
      BY <3>1, <3>2
  <2>4. QED
    BY <2>2, <2>3 DEF ScreenInv
<1>5. CASE serial_init
  BY <1>5 DEF serial_init, ScreenInv
<1>6. CASE serial_write
  BY <1>6 DEF serial_write, ScreenInv
<1>7. CASE UartSends
  BY <1>7 DEF UartSends, ScreenInv
<1>8. CASE UNCHANGED console_vars
  BY <1>8 DEF console_vars, ScreenInv
<1>9. QED
  BY <1>1, <1>2, <1>3, <1>4, <1>5, <1>6, <1>7, <1>8 DEF ConsoleNext

(* The screen is always the tail of what was printed, and both cursors are *)
(* where the next character goes, on a screen of any size.                 *)
THEOREM ScreenIsTail == ConsoleSpec => []ScreenShowsTail
<1>1. ScreenInv => ScreenShowsTail
  BY DEF ScreenInv, Shows, ScreenShowsTail
<1>2. QED
  BY <1>1, ScreenInit, ScreenNext, PTL DEF ConsoleSpec

-----------------------------------------------------------------------------
(* Every text a call writes is a sequence.                                 *)
Directives == Plain \cup Numeric
IsText(t) == \E S : t \in Seq(S)

Characters == UNION {UNION {{t[k] : k \in DOMAIN t} : t \in OnSerial(d)} : d \in Directives}

LEMMA DigitsAreText ==
  ASSUME NEW num, NEW base, NEW digits
  PROVE  IsText(Digits(num, base, digits))
<1> DEFINE rest == CHOOSE r : r = [k \in 0 .. 12 |-> IF k = 0 THEN num ELSE r[k - 1] \div base]
           length == Cardinality({k \in 0 .. 12 : rest[k] > 0})
           text == [k \in 1 .. length |-> digits[(rest[length - k] % base) + 1]]
<1>1. Digits(num, base, digits) = text
  BY DEF Digits
<1> HIDE DEF rest
<1>2. length \in Nat
  <2>1. IsFiniteSet(0 .. 12)
    <3>1. 0 \in Int /\ 12 \in Int
      OBVIOUS
    <3>2. QED
      BY <3>1, FS_Interval
  <2>2. {k \in 0 .. 12 : rest[k] > 0} \in SUBSET (0 .. 12)
    OBVIOUS
  <2>3. QED
    BY <2>1, <2>2, FS_Subset, FS_CardinalityType
<1> HIDE DEF length
<1>3. text \in Seq({text[k] : k \in 1 .. length})
  BY <1>2, IsASeq
<1>4. QED
  BY <1>1, <1>3 DEF IsText

LEMMA JoinIsText ==
  ASSUME NEW s, NEW t, IsText(s), IsText(t)
  PROVE  IsText(s \o t)
<1>1. PICK S : s \in Seq(S)
  BY DEF IsText
<1>2. PICK T : t \in Seq(T)
  BY DEF IsText
<1>3. s \in Seq(S \cup T) /\ t \in Seq(S \cup T)
  BY <1>1, <1>2, SeqMonotonic
<1>4. s \o t \in Seq(S \cup T)
  BY <1>3, ConcatProperties
<1>5. QED
  BY <1>4 DEF IsText

LEMMA OneIsText ==
  ASSUME NEW c
  PROVE  IsText(<<c>>)
<1>1. <<c>> \in Seq({c})
  OBVIOUS
<1>2. QED
  BY <1>1 DEF IsText

LEMMA TwoAreText ==
  ASSUME NEW c, NEW d
  PROVE  IsText(<<c, d>>)
<1>1. <<c, d>> \in Seq({c, d})
  OBVIOUS
<1>2. QED
  BY <1>1 DEF IsText

LEMMA UnsignedIsText ==
  ASSUME NEW num, NEW base, NEW digits
  PROVE  IsText(Unsigned(num, base, digits))
<1>1. IsText(<<"0">>)
  BY OneIsText
<1>2. QED
  BY <1>1, DigitsAreText DEF Unsigned

LEMMA PtrIsText ==
  ASSUME NEW num
  PROVE  IsText(<<"0", "x">> \o Unsigned(num, 16, Lower))
<1>1. IsText(<<"0", "x">>)
  BY TwoAreText
<1>2. QED
  BY <1>1, UnsignedIsText, JoinIsText

LEMMA SignedIsText ==
  ASSUME NEW num, NEW t \in serial_putnum_signed(num)
  PROVE  IsText(t)
<1>1. IsText(<<"-">>) /\ IsText(<<"8">>)
  BY OneIsText
<1>2. ASSUME NEW n PROVE IsText(<<"-">> \o Digits(n, 10, Lower) \o <<"8">>)
  <2>1. IsText(<<"-">> \o Digits(n, 10, Lower))
    BY <1>1, DigitsAreText, JoinIsText
  <2>2. QED
    BY <1>1, <2>1, JoinIsText
<1>3. IsText(<<"-">> \o [k \in 1 .. 10 |-> Unknown])
  <2>1. [k \in 1 .. 10 |-> Unknown] \in Seq({Unknown})
    BY IsASeq
  <2>2. QED
    BY <1>1, <2>1, JoinIsText DEF IsText
<1>4. IsText(Signed(num))
  <2>1. IsText(<<"-">> \o Unsigned(-num, 10, Lower))
    BY <1>1, UnsignedIsText, JoinIsText
  <2>2. QED
    BY <2>1, UnsignedIsText, Zenon DEF Signed
<1>5. CASE num = INT_MIN
  <2>1. PICK n : n = 214748364
    OBVIOUS
  <2>2. \/ t = <<"-">> \o Digits(n, 10, Lower) \o <<"8">>
        \/ t = <<"-">> \o [k \in 1 .. 10 |-> Unknown]
    BY <1>5, <2>1, SMTT(60) DEF serial_putnum_signed
  <2>3. QED
    BY <1>2, <1>3, <2>2, Zenon
<1>6. CASE num # INT_MIN
  <2>1. t = Signed(num)
    BY <1>6, SMT DEF serial_putnum_signed
  <2>2. QED
    BY <1>4, <2>1, Zenon
<1>7. QED
  BY <1>5, <1>6

LEMMA TextIsText ==
  ASSUME NEW d \in Directives, NEW t \in OnSerial(d)
  PROVE  t \in Seq(Characters)
<1>1. IsText(t)
  <2>1. CASE d \in Numeric
    <3>1. d.how \in {"d", "u", "x", "X", "p"}
      BY <2>1 DEF Numeric
    <3>2. \/ t \in serial_putnum_signed(d.arg)
          \/ t \in {Unsigned(d.arg, 10, Lower), Unsigned(d.arg, 16, Lower), Unsigned(d.arg, 16, Upper),
                   <<"0", "x">> \o Unsigned(d.arg, 16, Lower)}
      BY <3>1 DEF OnSerial
    <3>3. \A x \in {Unsigned(d.arg, 10, Lower), Unsigned(d.arg, 16, Lower), Unsigned(d.arg, 16, Upper),
                    <<"0", "x">> \o Unsigned(d.arg, 16, Lower)} : IsText(x)
      BY PtrIsText, UnsignedIsText
    <3>4. QED
      BY <3>2, <3>3, SignedIsText
  <2>2. CASE d \in Plain
    <3>1. d.how \in {"text", "s", "c", "%", "other"} /\ IsText(d.arg)
      <4>1. CASE d \in [how : {"text"}, arg : Texts] \cup [how : {"s"}, arg : Texts \cup {Null}]
        <5>1. d.how \in {"text", "s"} /\ d.arg \in Texts \cup {Null}
          BY <4>1
        <5>2. Null \in Seq({"(", "n", "u", "l", ")"})
          BY DEF Null
        <5>3. IsText(Null) /\ \A u \in Texts : IsText(u)
          BY <5>2, ConsoleAssumption DEF IsText
        <5>4. QED
          BY <5>1, <5>3
      <4>2. CASE d \in {[how |-> "c", arg |-> <<u[1]>>] : u \in Texts}
        <5>1. PICK u \in Texts : d = [how |-> "c", arg |-> <<u[1]>>]
          BY <4>2
        <5>2. QED
          BY <5>1, OneIsText
      <4>3. CASE d \in {[how |-> "%", arg |-> <<"%">>], [how |-> "other", arg |-> <<"%", "q">>]}
        BY <4>3, OneIsText, TwoAreText
      <4>4. QED
        BY <2>2, <4>1, <4>2, <4>3 DEF Plain
    <3>2. t = d.arg
      BY <3>1 DEF OnSerial
    <3>3. QED
      BY <3>1, <3>2
  <2>3. QED
    BY <2>1, <2>2 DEF Directives
<1>2. PICK S : t \in Seq(S)
  BY <1>1 DEF IsText
<1>3. /\ Len(t) \in Nat /\ DOMAIN t = 1 .. Len(t) /\ t = [k \in 1 .. Len(t) |-> t[k]]
  BY <1>2, ElementOfSeq, LenProperties
<1>4. \A k \in 1 .. Len(t) : t[k] \in Characters
  BY <1>3 DEF Characters
<1>5. QED
  BY <1>3, <1>4, IsASeq

Pending == IF said.on = "serial" THEN todo ELSE << >>

(* What a divisor write would swallow cannot be there: the port is used    *)
(* only after serial_init.                                                 *)
SerialInv ==
  /\ uart \in [ready : BOOLEAN, dlab : BOOLEAN, fifo : Seq(Characters)]
  /\ line \in Seq(Characters) /\ owed \in Seq(Characters) /\ Pending \in Seq(Characters)
  /\ said.on = "serial" => uart.ready
  /\ uart.ready => ~uart.dlab /\ (line \o uart.fifo) \o Pending = owed

(* The character at the head moves from one sequence to the next.          *)
LEMMA HeadMoves ==
  ASSUME NEW S, NEW s \in Seq(S), NEW t \in Seq(S), t # << >>
  PROVE  /\ Head(t) \in S /\ Tail(t) \in Seq(S)
         /\ Append(s, Head(t)) \in Seq(S) /\ Append(s, Head(t)) \o Tail(t) = s \o t
<1>1. Head(t) \in S /\ Tail(t) \in Seq(S) /\ t = <<Head(t)>> \o Tail(t)
  <2>1. Head(t) \in S /\ Tail(t) \in Seq(S)
    BY HeadTailProperties
  <2>2. QED
    BY <2>1
<1>2. <<Head(t)>> \in Seq(S)
  BY <1>1
<1>3. Append(s, Head(t)) = s \o <<Head(t)>> /\ Append(s, Head(t)) \in Seq(S)
  BY <1>1, AppendIsConcat, AppendProperties
<1>4. (s \o <<Head(t)>>) \o Tail(t) = s \o (<<Head(t)>> \o Tail(t))
  BY <1>1, <1>2, ConcatAssociative
<1>5. QED
  BY <1>1, <1>3, <1>4

LEMMA SerialInit == ConsoleInit => SerialInv
<1> SUFFICES ASSUME ConsoleInit PROVE SerialInv
  OBVIOUS
<1>1. /\ said.on = "screen" /\ line = << >> /\ owed = << >>
      /\ uart \in [ready : {FALSE}, dlab : BOOLEAN, fifo : {<< >>}]
  BY DEF ConsoleInit
<1>2. << >> \in Seq(Characters)
  OBVIOUS
<1>3. uart \in [ready : BOOLEAN, dlab : BOOLEAN, fifo : Seq(Characters)] /\ ~uart.ready
  BY <1>1, <1>2
<1>4. QED
  BY <1>1, <1>2, <1>3 DEF SerialInv, Pending

LEMMA SerialNext == SerialInv /\ [ConsoleNext]_console_vars => SerialInv'
<1> SUFFICES ASSUME SerialInv, [ConsoleNext]_console_vars PROVE SerialInv'
  OBVIOUS
<1>1. ASSUME NEW d \in Plain \cup Numeric, printf(d) PROVE SerialInv'
  <2>1. UNCHANGED <<uart, line, owed>> /\ todo = << >> /\ said'.on = "screen"
    BY <1>1 DEF printf, Say, Call
  <2>2. Pending = << >> /\ Pending' = << >>
    BY <2>1 DEF Pending
  <2>3. QED
    BY <2>1, <2>2 DEF SerialInv
<1>2. ASSUME NEW d \in Plain \cup Numeric, serial_printf(d) PROVE SerialInv'
  <2>1. /\ UNCHANGED <<uart, line>> /\ todo = << >> /\ said'.on = "serial" /\ uart.ready
        /\ todo' \in OnSerial(d) /\ owed' = owed \o todo'
    BY <1>2 DEF serial_printf, Say, Call
  <2>2. Pending = << >> /\ Pending' = todo' /\ todo' \in Seq(Characters)
    BY <2>1, TextIsText DEF Pending, Directives
  <2>3. uart.fifo \in Seq(Characters) /\ line \o uart.fifo \in Seq(Characters)
    BY ConcatProperties DEF SerialInv
  <2>4. line \o uart.fifo = owed
    BY <2>1, <2>2, <2>3, ConcatEmptySeq DEF SerialInv
  <2>5. owed' \in Seq(Characters)
    BY <2>1, <2>2, ConcatProperties DEF SerialInv
  <2>6. QED
    BY <2>1, <2>2, <2>4, <2>5 DEF SerialInv
<1>3. CASE Put
  <2>1. UNCHANGED <<uart, line, owed, said>> /\ said.on = "screen"
    BY <1>3 DEF Put
  <2>2. Pending' = Pending
    BY <2>1 DEF Pending
  <2>3. QED
    BY <2>1, <2>2 DEF SerialInv
<1>4. CASE clear_screen
  <2>1. UNCHANGED <<uart, line, owed, said, todo>>
    BY <1>4 DEF clear_screen
  <2>2. QED
    BY <2>1 DEF SerialInv, Pending
<1>5. CASE serial_init
  <2>1. /\ uart' = [ready |-> TRUE, dlab |-> FALSE, fifo |-> << >>]
        /\ line' = << >> /\ owed' = << >> /\ todo' = << >>
    BY <1>5 DEF serial_init, Call
  <2>2. << >> \in Seq(Characters) /\ Pending' = << >> /\ (<< >> \o << >>) \o << >> = << >>
    BY <2>1 DEF Pending
  <2>3. /\ uart' \in [ready : BOOLEAN, dlab : BOOLEAN, fifo : Seq(Characters)]
        /\ uart'.ready /\ ~uart'.dlab /\ uart'.fifo = << >>
    BY <2>1, <2>2
  <2>4. QED
    BY <2>1, <2>2, <2>3 DEF SerialInv
<1>6. CASE serial_write
  <2>1. /\ said.on = "serial" /\ said' = said /\ todo # << >> /\ uart.fifo = << >>
        /\ uart' = [uart EXCEPT !.fifo = Received(Head(todo))] /\ todo' = Tail(todo)
        /\ UNCHANGED <<line, owed>>
    BY <1>6 DEF serial_write
  <2>2. /\ uart.ready /\ ~uart.dlab /\ todo \in Seq(Characters) /\ Pending = todo /\ Pending' = todo'
        /\ line \in Seq(Characters) /\ (line \o << >>) \o todo = owed
    BY <2>1 DEF SerialInv, Pending
  <2>3. Received(Head(todo)) = Append(<< >>, Head(todo))
    <3>1. Len(<< >>) # FifoSize
      BY ConsoleAssumption
    <3>2. QED
      BY <2>1, <2>2, <3>1 DEF Received
  <2>4. /\ Append(<< >>, Head(todo)) \in Seq(Characters) /\ Append(<< >>, Head(todo)) \o Tail(todo) = << >> \o todo
        /\ Tail(todo) \in Seq(Characters)
    <3>1. << >> \in Seq(Characters)
      OBVIOUS
    <3>2. QED
      BY <2>1, <2>2, <3>1, HeadMoves
  <2>5. /\ uart' \in [ready : BOOLEAN, dlab : BOOLEAN, fifo : Seq(Characters)]
        /\ uart'.ready = uart.ready /\ uart'.dlab = uart.dlab /\ uart'.fifo = Append(<< >>, Head(todo))
    BY <2>1, <2>3, <2>4 DEF SerialInv
  <2>6. (line \o uart'.fifo) \o todo' = owed
    <3>1. (line \o uart'.fifo) \o todo' = line \o (uart'.fifo \o todo')
      <4>1. \A f, t \in Seq(Characters) : (line \o f) \o t = line \o (f \o t)
        <5> DEFINE l == line
        <5>1. l \in Seq(Characters)
          BY <2>2
        <5> HIDE DEF l
        <5>2. \A f, t \in Seq(Characters) : (l \o f) \o t = l \o (f \o t)
          BY <5>1, ConcatAssociative
        <5>3. QED
          BY <5>2 DEF l
      <4>2. uart'.fifo \in Seq(Characters) /\ todo' \in Seq(Characters)
        BY <2>1, <2>4, <2>5
      <4>3. QED
        BY <4>1, <4>2
    <3>2. uart'.fifo \o todo' = todo
      BY <2>1, <2>2, <2>4, <2>5, ConcatEmptySeq
    <3>3. line \o << >> = line
      BY <2>2, ConcatEmptySeq
    <3>4. QED
      BY <2>2, <3>1, <3>2, <3>3
  <2>7. QED
    BY <2>1, <2>2, <2>4, <2>5, <2>6 DEF SerialInv
<1>7. CASE UartSends
  <2>1. /\ uart.fifo # << >> /\ line' = Append(line, Head(uart.fifo))
        /\ uart' = [uart EXCEPT !.fifo = Tail(@)] /\ UNCHANGED <<todo, said, owed>>
    BY <1>7 DEF UartSends
  <2>2. uart.fifo \in Seq(Characters) /\ line \in Seq(Characters) /\ Pending' = Pending
    BY <2>1 DEF SerialInv, Pending
  <2>3. /\ Tail(uart.fifo) \in Seq(Characters) /\ line' \in Seq(Characters)
        /\ line' \o Tail(uart.fifo) = line \o uart.fifo
    <3> DEFINE f == uart.fifo
    <3>1. f \in Seq(Characters) /\ f # << >> /\ line \in Seq(Characters)
      BY <2>1, <2>2
    <3> HIDE DEF f
    <3>2. /\ Tail(f) \in Seq(Characters) /\ Append(line, Head(f)) \in Seq(Characters)
          /\ Append(line, Head(f)) \o Tail(f) = line \o f
      BY <3>1, HeadMoves
    <3>3. QED
      BY <2>1, <3>2 DEF f
  <2>4. /\ uart' \in [ready : BOOLEAN, dlab : BOOLEAN, fifo : Seq(Characters)]
        /\ uart'.ready = uart.ready /\ uart'.dlab = uart.dlab /\ uart'.fifo = Tail(uart.fifo)
    BY <2>1, <2>3 DEF SerialInv
  <2>5. QED
    BY <2>1, <2>2, <2>3, <2>4 DEF SerialInv
<1>8. CASE UNCHANGED console_vars
  BY <1>8 DEF console_vars, SerialInv, Pending
<1>9. QED
  BY <1>1, <1>2, <1>3, <1>4, <1>5, <1>6, <1>7, <1>8 DEF ConsoleNext

(* Nothing given to serial_printf is lost, doubled or overtaken, whatever  *)
(* is written and however slowly the UART, of whatever FIFO, sends.        *)
THEOREM SerialKeepsOrder == ConsoleSpec => []SerialInOrder
<1>1. SerialInv => SerialInOrder
  BY DEF SerialInv, SerialInOrder, Pending
<1>2. QED
  BY <1>1, SerialInit, SerialNext, PTL DEF ConsoleSpec

-----------------------------------------------------------------------------
(* The numbers.  Both loops, the one that converts and the one that reads  *)
(* back, are recursive; their rounds are bounded.                          *)
Smaller == {p \in Nat \X Nat : p[1] < p[2]}

LEMMA LeastIn ==
  ASSUME NEW S \in SUBSET Nat, S # {}
  PROVE  \E l \in S : \A m \in S : l <= m
<1>1. IsWellFoundedOn(Smaller, Nat)
  BY NatLessThanWellFounded DEF OpToRel, Smaller
<1>2. PICK l \in S : \A m \in S : <<m, l>> \notin Smaller
  BY <1>1, WFMin
<1>3. ASSUME NEW m \in S PROVE l <= m
  <2>1. <<m, l>> \in Nat \X Nat /\ ~ (<<m, l>>[1] < <<m, l>>[2])
    BY <1>2 DEF Smaller
  <2>2. QED
    BY <2>1
<1>4. QED
  BY <1>3

(* What holds of 0, and of k + 1 if of k, holds up to any bound.           *)
LEMMA UpTo ==
  ASSUME NEW top \in Nat, NEW S, 0 \in S, \A k \in 0 .. (top - 1) : k \in S => k + 1 \in S
  PROVE  \A k \in 0 .. top : k \in S
<1> DEFINE T == {k \in Nat : k <= top /\ k \notin S}
<1> SUFFICES ASSUME T # {} PROVE FALSE
  OBVIOUS
<1>1. T \in SUBSET Nat
  OBVIOUS
<1>2. PICK l \in T : \A m \in T : l <= m
  <2> HIDE DEF T
  <2>1. QED
    BY <1>1, LeastIn
<1>3. l \in Nat /\ l # 0 /\ l <= top
  BY <1>2
<1>4. l - 1 \in Nat /\ l - 1 \in 0 .. (top - 1) /\ ~ (l <= l - 1) /\ (l - 1) + 1 = l
  BY <1>3
<1>5. l - 1 \in S
  BY <1>2, <1>3, <1>4
<1>6. QED
  BY <1>2, <1>4, <1>5

(* Dividing again and again: the function exists, and what it gives.       *)
Rests(num, base, top) == CHOOSE r : r = [k \in 0 .. top |-> IF k = 0 THEN num ELSE r[k - 1] \div base]

(* What the loop has left of the number after each round.                  *)
Divided(r, num, base, top) ==
  /\ r \in [0 .. top -> Nat] /\ r[0] = num
  /\ \A k \in 0 .. (top - 1) : r[k + 1] = r[k] \div base

LEMMA RestsAre ==
  ASSUME NEW num \in Nat, NEW base \in Nat \ {0}, NEW top \in Nat
  PROVE  Divided(Rests(num, base, top), num, base, top)
<1> DEFINE Good(f, m) == f \in [0 .. m -> Nat] /\ \A k \in 0 .. m : f[k] = IF k = 0 THEN num ELSE f[k - 1] \div base
           S == {m \in Nat : \E f : Good(f, m)}
<1>1. 0 \in S
  <2> DEFINE f == [k \in 0 .. 0 |-> num]
  <2>1. Good(f, 0)
    OBVIOUS
  <2>2. QED
    BY <2>1
<1>2. \A m \in 0 .. (top - 1) : m \in S => m + 1 \in S
  <2> SUFFICES ASSUME NEW m \in 0 .. (top - 1), m \in S PROVE m + 1 \in S
    OBVIOUS
  <2>1. PICK f : Good(f, m)
    OBVIOUS
  <2> DEFINE g == [k \in 0 .. (m + 1) |-> IF k = m + 1 THEN f[m] \div base ELSE f[k]]
  <2>2. m \in Nat /\ f[m] \in Nat /\ f[m] \div base \in Nat
    <3>1. m \in Nat /\ f[m] \in Nat
      BY <2>1
    <3>2. \A x \in Nat : x \div base \in Nat
      BY CellSplit
    <3>3. QED
      BY <3>1, <3>2
  <2>3. g \in [0 .. (m + 1) -> Nat]
    <3>1. ASSUME NEW k \in 0 .. (m + 1), k # m + 1 PROVE f[k] \in Nat
      <4>1. k \in 0 .. m
        BY <2>2, <3>1
      <4>2. QED
        BY <2>1, <4>1
    <3>2. QED
      BY <2>2, <3>1
  <2>4. ASSUME NEW k \in 0 .. (m + 1) PROVE g[k] = IF k = 0 THEN num ELSE g[k - 1] \div base
    <3>1. CASE k = m + 1
      <4>1. g[k] = f[m] \div base /\ g[m] = f[m] /\ k - 1 = m /\ k # 0
        BY <2>2, <3>1
      <4>2. QED
        BY <4>1
    <3>2. CASE k # m + 1
      <4>1. k \in 0 .. m /\ (k # 0 => k - 1 \in 0 .. m)
        BY <2>2, <3>2
      <4>2. g[k] = f[k] /\ (k # 0 => g[k - 1] = f[k - 1])
        BY <2>2, <4>1
      <4>3. QED
        BY <2>1, <4>1, <4>2
    <3>3. QED
      BY <3>1, <3>2
  <2>5. m + 1 \in Nat /\ Good(g, m + 1)
    <3> HIDE DEF g
    <3>1. QED
      BY <2>2, <2>3, <2>4
  <2> HIDE DEF g, Good
  <2>6. QED
    BY <2>5
<1> HIDE DEF S
<1>3. top \in S
  BY <1>1, <1>2, UpTo
<1>4. PICK f : Good(f, top)
  BY <1>3 DEF S
<1>5. f = [k \in 0 .. top |-> IF k = 0 THEN num ELSE f[k - 1] \div base]
  BY <1>4
<1> DEFINE r == Rests(num, base, top)
<1>6. r = [k \in 0 .. top |-> IF k = 0 THEN num ELSE r[k - 1] \div base]
  BY <1>5 DEF Rests
<1> HIDE DEF r
<1>7. r[0] = num /\ \A k \in 0 .. (top - 1) : r[k + 1] = r[k] \div base
  <2>1. r[0] = num
    BY <1>6
  <2>2. ASSUME NEW k \in 0 .. (top - 1) PROVE r[k + 1] = r[k] \div base
    <3>1. k + 1 \in 0 .. top /\ k + 1 # 0 /\ (k + 1) - 1 = k
      OBVIOUS
    <3>2. QED
      BY <1>6, <3>1
  <2>3. QED
    BY <2>1, <2>2
<1>8. \A k \in 0 .. top : r[k] \in Nat
  <2> DEFINE U == {k \in Nat : r[k] \in Nat}
  <2>1. 0 \in U
    BY <1>7
  <2>2. ASSUME NEW k \in 0 .. (top - 1), k \in U PROVE k + 1 \in U
    <3>1. r[k + 1] = r[k] \div base /\ r[k] \in Nat /\ k + 1 \in Nat
      BY <1>7, <2>2
    <3>2. r[k] \div base \in Nat
      BY <3>1
    <3>3. QED
      BY <3>1, <3>2
  <2> HIDE DEF U
  <2>3. \A k \in 0 .. top : k \in U
    BY <2>1, <2>2, UpTo
  <2>4. QED
    BY <2>3 DEF U
<1>9. r \in [0 .. top -> Nat]
  BY <1>6, <1>8
<1>10. QED
  BY <1>7, <1>9 DEF Divided, r

(* What reading computes, if a function says so.                           *)
Reads(w, text, base) ==
  /\ w = [k \in 0 .. Len(text) |-> w[k]] /\ w[0] = 0
  /\ \A k \in 1 .. Len(text) : w[k] = w[k - 1] * base - ValueOf(text[k])

LEMMA ReadBackIs ==
  ASSUME NEW text, Len(text) \in Nat, NEW base, NEW w, Reads(w, text, base)
  PROVE  ReadBack(text, base) = w[Len(text)]
<1> DEFINE top == Len(text)
           v == CHOOSE f : f = [k \in 0 .. top |-> IF k = 0 THEN 0 ELSE f[k - 1] * base - ValueOf(text[k])]
<1>1. ReadBack(text, base) = v[top]
  BY DEF ReadBack
<1>2. \A k \in 0 .. top : w[k] = IF k = 0 THEN 0 ELSE w[k - 1] * base - ValueOf(text[k])
  <2> SUFFICES ASSUME NEW k \in 0 .. top, k # 0 PROVE w[k] = w[k - 1] * base - ValueOf(text[k])
    BY DEF Reads
  <2>1. k \in 1 .. Len(text)
    OBVIOUS
  <2>2. QED
    BY <2>1 DEF Reads
<1>3. w = [k \in 0 .. top |-> IF k = 0 THEN 0 ELSE w[k - 1] * base - ValueOf(text[k])]
  BY <1>2 DEF Reads
<1>4. v = [k \in 0 .. top |-> IF k = 0 THEN 0 ELSE v[k - 1] * base - ValueOf(text[k])]
  BY <1>3
<1> HIDE DEF v
<1> DEFINE S == {k \in Nat : v[k] = w[k]}
<1>5. 0 \in S
  BY <1>4 DEF Reads
<1>6. ASSUME NEW k \in 0 .. (top - 1), k \in S PROVE k + 1 \in S
  <2>1. k \in Nat /\ k + 1 \in 1 .. top /\ k + 1 \in 0 .. top /\ k + 1 # 0 /\ (k + 1) - 1 = k
    OBVIOUS
  <2>2. v[k + 1] = v[k] * base - ValueOf(text[k + 1]) /\ w[k + 1] = w[k] * base - ValueOf(text[k + 1])
    BY <1>2, <1>4, <2>1
  <2>3. v[k] = w[k]
    BY <1>6
  <2>4. QED
    BY <2>1, <2>2, <2>3
<1> HIDE DEF S
<1>7. \A k \in 0 .. top : k \in S
  BY <1>5, <1>6, UpTo
<1>8. top \in S
  BY <1>7
<1>9. QED
  BY <1>1, <1>8 DEF S

(* The number fits the machine's unsigned int.                             *)
Small(n) == n \in Nat /\ n \div 65536 <= 65535
MostDigits(base) == IF base = 10 THEN 10 ELSE 8

LEMMA LowerValues == \A k \in 1 .. 16 : ValueOf(Lower[k]) = k - 1
<1> SUFFICES ASSUME NEW k \in 1 .. 16 PROVE ValueOf(Lower[k]) = k - 1
  OBVIOUS
<1>1. \A j \in 1 .. 16 : Lower[j] = Lower[k] \/ Upper[j] = Lower[k] => j = k
  BY DEF Lower, Upper
<1>2. QED
  BY <1>1 DEF ValueOf

LEMMA UpperValues == \A k \in 1 .. 16 : ValueOf(Upper[k]) = k - 1
<1> SUFFICES ASSUME NEW k \in 1 .. 16 PROVE ValueOf(Upper[k]) = k - 1
  OBVIOUS
<1>1. \A j \in 1 .. 16 : Lower[j] = Upper[k] \/ Upper[j] = Upper[k] => j = k
  BY DEF Lower, Upper
<1>2. QED
  BY <1>1 DEF ValueOf

(* Ten decimal digits are enough, or eight of base 16.                     *)
LEMMA TenRounds ==
  ASSUME NEW num, Small(num), NEW r \in [0 .. 12 -> Nat], r[0] = num,
         \A k \in 0 .. 11 : r[k + 1] = r[k] \div 10
  PROVE  r[10] = 0
<1>1. r[0] <= 4294967295
  BY DEF Small
<1>2. \A k \in 0 .. 11 : \A b \in Nat : r[k] <= 10 * b + 9 => r[k + 1] <= b
  <2> SUFFICES ASSUME NEW k \in 0 .. 11, NEW b \in Nat, r[k] <= 10 * b + 9 PROVE r[k + 1] <= b
    OBVIOUS
  <2>1. r[k] \in Nat /\ r[k + 1] = r[k] \div 10
    OBVIOUS
  <2>2. QED
    BY <2>1
<1>3. r[1] <= 429496729 /\ r[2] <= 42949672 /\ r[3] <= 4294967 /\ r[4] <= 429496 /\ r[5] <= 42949
  BY <1>1, <1>2
<1>4. r[6] <= 4294 /\ r[7] <= 429 /\ r[8] <= 42 /\ r[9] <= 4 /\ r[10] <= 0
  BY <1>2, <1>3
<1>5. QED
  BY <1>4

LEMMA EightRounds ==
  ASSUME NEW num, Small(num), NEW r \in [0 .. 12 -> Nat], r[0] = num,
         \A k \in 0 .. 11 : r[k + 1] = r[k] \div 16
  PROVE  r[8] = 0
<1>1. r[0] <= 4294967295
  BY DEF Small
<1>2. \A k \in 0 .. 11 : \A b \in Nat : r[k] <= 16 * b + 15 => r[k + 1] <= b
  <2> SUFFICES ASSUME NEW k \in 0 .. 11, NEW b \in Nat, r[k] <= 16 * b + 15 PROVE r[k + 1] <= b
    OBVIOUS
  <2>1. r[k] \in Nat /\ r[k + 1] = r[k] \div 16
    OBVIOUS
  <2>2. QED
    BY <2>1
<1>3. r[1] <= 268435455 /\ r[2] <= 16777215 /\ r[3] <= 1048575 /\ r[4] <= 65535
  BY <1>1, <1>2
<1>4. r[5] <= 4095 /\ r[6] <= 255 /\ r[7] <= 15 /\ r[8] <= 0
  BY <1>2, <1>3
<1>5. QED
  BY <1>4

(* The rounds of the loop are as many as the rests that are not 0.         *)
LEMMA Rounds ==
  ASSUME NEW num, Small(num), NEW base \in {10, 16},
         NEW r, r = Rests(num, base, 12)
  PROVE  LET length == Cardinality({k \in 0 .. 12 : r[k] > 0})
         IN /\ length \in 0 .. MostDigits(base) /\ r[length] = 0
            /\ num # 0 => length > 0
<1>1. /\ r \in [0 .. 12 -> Nat] /\ r[0] = num
      /\ \A k \in 0 .. 11 : r[k + 1] = r[k] \div base
  <2>1. num \in Nat /\ base \in Nat \ {0} /\ 12 \in Nat /\ 12 - 1 = 11
    BY DEF Small
  <2>2. Divided(r, num, base, 12)
    BY <2>1, RestsAre
  <2>3. QED
    BY <2>1, <2>2 DEF Divided
<1>2. r[MostDigits(base)] = 0 /\ MostDigits(base) \in 0 .. 10
  BY <1>1, TenRounds, EightRounds DEF MostDigits
<1> DEFINE Z == {k \in 0 .. 12 : r[k] = 0}
<1>3. Z \in SUBSET Nat /\ MostDigits(base) \in Z
  BY <1>2
<1>4. PICK m \in Z : \A k \in Z : m <= k
  <2> HIDE DEF Z
  <2>1. QED
    BY <1>3, LeastIn
<1>5. m \in 0 .. MostDigits(base) /\ r[m] = 0
  BY <1>2, <1>3, <1>4
<1>6. \A k \in 0 .. 12 : k < m => r[k] > 0
  BY <1>1, <1>4, <1>5
<1>7. \A k \in 0 .. 12 : k >= m => r[k] = 0
  <2> DEFINE S == {k \in Nat : k >= m => r[k] = 0}
  <2>1. 0 \in S
    BY <1>2, <1>5
  <2>2. ASSUME NEW k \in 0 .. (12 - 1), k \in S PROVE k + 1 \in S
    <3>1. k \in 0 .. 11 /\ r[k + 1] = r[k] \div base /\ m \in Nat
      BY <1>1, <1>2, <1>5
    <3>2. 0 \div base = 0
      OBVIOUS
    <3>3. k >= m => r[k + 1] = 0
      BY <2>2, <3>1, <3>2
    <3>4. k + 1 = m => r[k + 1] = 0
      BY <1>5
    <3>5. QED
      BY <3>1, <3>3, <3>4
  <2> HIDE DEF S
  <2>3. \A k \in 0 .. 12 : k \in S
    BY <2>1, <2>2, UpTo
  <2>4. QED
    BY <2>3 DEF S
<1>8. {k \in 0 .. 12 : r[k] > 0} = 0 .. (m - 1)
  <2>1. m \in Nat /\ m <= 10
    BY <1>2, <1>5
  <2>2. \A k \in 0 .. 12 : r[k] > 0 <=> k < m
    BY <1>6, <1>7, <2>1
  <2>3. QED
    BY <2>1, <2>2
<1>9. Cardinality({k \in 0 .. 12 : r[k] > 0}) = m
  <2>1. m \in Nat /\ 0 \in Int /\ m - 1 \in Int
    BY <1>2, <1>5
  <2>2. Cardinality(0 .. (m - 1)) = IF 0 > m - 1 THEN 0 ELSE (m - 1) - 0 + 1
    BY <2>1, FS_Interval
  <2>3. Cardinality(0 .. (m - 1)) = m
    BY <2>1, <2>2
  <2>4. QED
    BY <1>8, <2>3, Zenon
<1>10. num # 0 => m > 0
  BY <1>1, <1>2, <1>5
<1>11. QED
  BY <1>5, <1>9, <1>10

(* The text has the number's digits: reading them gives it back, negated.  *)
Faithful(t, num, base) ==
  /\ Len(t) \in 0 .. MostDigits(base) /\ (num # 0 => Len(t) > 0)
  /\ t = [k \in 1 .. Len(t) |-> t[k]]
  /\ \E w : Reads(w, t, base) /\ w[Len(t)] = -num

LEMMA DigitsRead ==
  ASSUME NEW num, Small(num), NEW base \in {10, 16}, NEW digits \in {Lower, Upper}
  PROVE  \A t : t = Digits(num, base, digits) => Faithful(t, num, base)
<1> SUFFICES ASSUME NEW t, t = Digits(num, base, digits)
             PROVE  /\ Len(t) \in 0 .. MostDigits(base) /\ (num # 0 => Len(t) > 0)
                    /\ t = [k \in 1 .. Len(t) |-> t[k]]
                    /\ \E w : Reads(w, t, base) /\ w[Len(t)] = -num
  BY Zenon DEF Faithful
<1> DEFINE r == Rests(num, base, 12)
           n == Cardinality({k \in 0 .. 12 : r[k] > 0})
           w == [k \in 0 .. n |-> -r[n - k]]
<1>1. t = [k \in 1 .. n |-> digits[(r[n - k] % base) + 1]]
  BY DEF Digits, Rests
<1>2. n \in 0 .. MostDigits(base) /\ r[n] = 0 /\ (num # 0 => n > 0)
  BY Rounds
<1>3. /\ r \in [0 .. 12 -> Nat] /\ r[0] = num
      /\ \A k \in 0 .. 11 : r[k + 1] = r[k] \div base
  <2>1. num \in Nat /\ base \in Nat \ {0} /\ 12 \in Nat /\ 12 - 1 = 11
    BY DEF Small
  <2>2. Divided(r, num, base, 12)
    BY <2>1, RestsAre
  <2>3. QED
    BY <2>1, <2>2 DEF Divided
<1> HIDE DEF r, n
<1>4. n \in Nat /\ n <= 10
  BY <1>2 DEF MostDigits
<1>5. Len(t) = n /\ t = [k \in 1 .. n |-> t[k]]
  <2>1. t = [k \in 1 .. n |-> t[k]]
    BY <1>1
  <2>2. t \in Seq({t[k] : k \in 1 .. n})
    BY <1>4, <2>1, IsASeq
  <2>3. DOMAIN t = 1 .. n /\ DOMAIN t = 1 .. Len(t) /\ Len(t) \in Nat
    BY <2>1, <2>2, LenProperties
  <2>4. QED
    BY <1>4, <2>1, <2>3
<1>6. Reads(w, t, base)
  <2>1. w[0] = 0
    BY <1>2, <1>4
  <2>2. ASSUME NEW k \in 1 .. n PROVE w[k] = w[k - 1] * base - ValueOf(t[k])
    <3> DEFINE a == r[n - k]
               b == r[n - k + 1]
    <3>1. n - k \in 0 .. 11 /\ n - k + 1 = n - (k - 1) /\ k - 1 \in 0 .. n /\ k \in 0 .. n
      BY <1>4
    <3>2. a \in Nat /\ b = a \div base
      BY <1>3, <3>1
    <3>3. w[k] = -a /\ w[k - 1] = -b
      BY <3>1
    <3>4. t[k] = digits[(a % base) + 1]
      BY <1>1
    <3> HIDE DEF a, b, w
    <3>5. a % base \in 0 .. 15 /\ a = b * base + (a % base) /\ b \in Nat
      <4>1. CASE base = 10
        BY <3>2, <4>1
      <4>2. CASE base = 16
        BY <3>2, <4>2
      <4>3. QED
        BY <4>1, <4>2
    <3>6. ValueOf(t[k]) = a % base
      <4>1. (a % base) + 1 \in 1 .. 16 /\ ((a % base) + 1) - 1 = a % base
        BY <3>5
      <4>2. QED
        BY <3>4, <4>1, LowerValues, UpperValues
    <3>7. QED
      BY <3>3, <3>5, <3>6
  <2>3. w = [k \in 0 .. n |-> w[k]]
    OBVIOUS
  <2> HIDE DEF w
  <2>4. QED
    BY <1>5, <2>1, <2>2, <2>3 DEF Reads
<1>7. w[n] = -num
  BY <1>3, <1>4
<1> HIDE DEF w
<1>8. QED
  BY <1>2, <1>5, <1>6, <1>7

LEMMA MinusNought == \A x \in Nat : x <= 0 => -x = 0
OBVIOUS

(* An unsigned number, 0 included, which the loop would print as nothing.  *)
LEMMA UnsignedReads ==
  ASSUME NEW num, Small(num), NEW base \in {10, 16}, NEW digits \in {Lower, Upper},
         NEW t, t = Unsigned(num, base, digits)
  PROVE  /\ ReadBack(t, base) = -num /\ Len(t) \in 1 .. MostDigits(base)
         /\ t = [k \in 1 .. Len(t) |-> t[k]]
<1>1. CASE num = 0
  <2>1. t = <<"0">> /\ Len(t) = 1 /\ t = [k \in 1 .. 1 |-> "0"]
    BY <1>1 DEF Unsigned
  <2>2. ValueOf("0") = 0
    <3>1. Lower[1] = "0"
      BY DEF Lower
    <3>2. QED
      BY <3>1, LowerValues
  <2> DEFINE w == [k \in 0 .. 1 |-> 0]
  <2>3. Reads(w, t, base)
    <3>1. \A k \in 1 .. 1 : w[k] = w[k - 1] * base - ValueOf(t[k])
      BY <2>1, <2>2
    <3>2. w = [k \in 0 .. 1 |-> w[k]] /\ w[0] = 0
      OBVIOUS
    <3> HIDE DEF w
    <3>3. QED
      BY <2>1, <3>1, <3>2 DEF Reads
  <2>4. w[1] = 0
    OBVIOUS
  <2> HIDE DEF w
  <2>5. ReadBack(t, base) = w[1]
    <3>1. Len(t) \in Nat
      BY <2>1
    <3>2. ReadBack(t, base) = w[Len(t)]
      BY <2>3, <3>1, ReadBackIs
    <3>3. QED
      BY <2>1, <3>2
  <2>6. Len(t) \in 1 .. MostDigits(base) /\ -num = 0 /\ t = [k \in 1 .. Len(t) |-> t[k]]
    <3>1. Len(t) \in 1 .. MostDigits(base) /\ -num = 0
      <4>1. Len(t) = 1
        BY <2>1
      <4>2. MostDigits(base) \in {8, 10}
        BY DEF MostDigits
      <4>3. \A l : l = 1 => l \in 1 .. MostDigits(base)
        BY <4>2
      <4>4. -num = 0
        <5>1. num \in Nat /\ num <= 0
          BY <1>1 DEF Small
        <5>2. QED
          BY <5>1, MinusNought, Zenon
      <4>5. QED
        BY <4>1, <4>3, <4>4, Zenon
    <3>2. t = [k \in 1 .. 1 |-> t[k]]
      BY <2>1
    <3>3. t = [k \in 1 .. Len(t) |-> t[k]]
      BY <2>1, <3>2, Zenon
    <3>4. QED
      BY <3>1, <3>3
  <2>7. QED
    BY <2>4, <2>5, <2>6
<1>2. CASE num # 0
  <2>1. t = Digits(num, base, digits)
    BY <1>2 DEF Unsigned
  <2> Faithful(t, num, base)
    BY <2>1, DigitsRead, Zenon
  <2>2. /\ Len(t) \in 0 .. MostDigits(base) /\ Len(t) > 0
        /\ t = [k \in 1 .. Len(t) |-> t[k]]
    BY <1>2, Zenon DEF Faithful
  <2>3. PICK w : Reads(w, t, base) /\ w[Len(t)] = -num
    BY Zenon DEF Faithful
  <2>4. Len(t) \in 1 .. MostDigits(base) /\ Len(t) \in Nat
    BY <2>2 DEF MostDigits
  <2>5. ReadBack(t, base) = w[Len(t)]
    BY <2>3, <2>4, ReadBackIs
  <2>6. QED
    BY <2>2, <2>3, <2>4, <2>5
<1>3. QED
  BY <1>1, <1>2

LEMMA AsASeq ==
  ASSUME NEW n \in Nat, NEW s, s = [k \in 1 .. n |-> s[k]], NEW S, \A k \in 1 .. n : s[k] \in S
  PROVE  s \in Seq(S) /\ Len(s) = n
<1>1. [k \in 1 .. n |-> s[k]] \in Seq(S)
  BY IsASeq
<1>2. s \in Seq(S)
  BY <1>1
<1>3. DOMAIN s = 1 .. n
  OBVIOUS
<1>4. DOMAIN s = 1 .. Len(s) /\ Len(s) \in Nat
  BY <1>2, LenProperties
<1>5. QED
  BY <1>2, <1>3, <1>4

(* A sign or a 0x put before a text comes off again.                       *)
LEMMA SignComesOff ==
  ASSUME NEW s, NEW n \in Nat, s = [k \in 1 .. n |-> s[k]], NEW c, NEW t, t = <<c>> \o s
  PROVE  t[1] = c /\ Tail(t) = s /\ Len(t) = n + 1
<1> DEFINE S == {s[k] : k \in 1 .. n} \cup {c}
<1>1. (\A k \in 1 .. n : s[k] \in S) /\ c \in S
  OBVIOUS
<1> HIDE DEF S
<1>2. s \in Seq(S) /\ Len(s) = n
  BY <1>1, AsASeq
<1>3. t \in Seq(S) /\ Len(t) = n + 1 /\ t[1] = c /\ \A k \in 1 .. n : t[k + 1] = s[k]
  BY <1>1, <1>2
<1>4. Tail(t) = s
  BY <1>1, <1>2, <1>3
<1>5. QED
  BY <1>3, <1>4

LEMMA PrefixComesOff ==
  ASSUME NEW s, NEW n \in Nat, s = [k \in 1 .. n |-> s[k]],
         NEW c, NEW d, NEW t, t = <<c, d>> \o s
  PROVE  SubSeq(t, 1, 2) = <<c, d>> /\ SubSeq(t, 3, Len(t)) = s
<1> DEFINE S == {s[k] : k \in 1 .. n} \cup {c, d}
<1>1. (\A k \in 1 .. n : s[k] \in S) /\ c \in S /\ d \in S
  OBVIOUS
<1> HIDE DEF S
<1>2. s \in Seq(S) /\ Len(s) = n
  BY <1>1, AsASeq
<1>3. /\ t \in Seq(S) /\ Len(t) = n + 2 /\ t[1] = c /\ t[2] = d
      /\ \A k \in 1 .. n : t[k + 2] = s[k]
  BY <1>1, <1>2
<1>4. SubSeq(t, 1, 2) = <<c, d>>
  <2> DEFINE q == SubSeq(t, 1, 2)
  <2>1. 1 \in Int /\ 2 \in Int /\ \A k \in 1 .. 2 : t[k] \in S
    BY <1>1, <1>3
  <2>2. q \in Seq(S) /\ Len(q) = 2 /\ \A k \in 1 .. 2 : q[k] = t[k]
    BY <2>1, SubSeqProperties
  <2> HIDE DEF q
  <2>3. q = [k \in 1 .. 2 |-> q[k]] /\ q[1] = c /\ q[2] = d
    BY <1>3, <2>2
  <2>4. q = <<c, d>>
    BY <2>3
  <2>5. QED
    BY <2>4 DEF q
<1>5. SubSeq(t, 3, Len(t)) = s
  BY <1>1, <1>2, <1>3
<1>6. QED
  BY <1>4, <1>5

LEMMA PtrReads ==
  ASSUME NEW num, Small(num), NEW t, t = print_ptr(num)
  PROVE  SubSeq(t, 1, 2) = <<"0", "x">> /\ ReadBack(SubSeq(t, 3, Len(t)), 16) = -num
<1> DEFINE r == Rests(num, 16, 7)
           s == [k \in 1 .. 8 |-> Lower[(r[8 - k] % 16) + 1]]
           w == [k \in 0 .. 8 |-> IF k = 0 THEN 0 ELSE -r[8 - k]]
<1>1. t = <<"0", "x">> \o s
  BY DEF print_ptr, Rests
<1>2. /\ r \in [0 .. 7 -> Nat] /\ r[0] = num
      /\ \A k \in 0 .. 6 : r[k + 1] = r[k] \div 16
  <2>1. num \in Nat /\ 16 \in Nat \ {0} /\ 7 \in Nat /\ 7 - 1 = 6
    BY DEF Small
  <2>2. Divided(r, num, 16, 7)
    BY <2>1, RestsAre
  <2>3. QED
    BY <2>1, <2>2 DEF Divided
<1> HIDE DEF r
<1>3. r[7] <= 15
  <2>1. r[0] <= 4294967295
    BY <1>2 DEF Small
  <2>2. \A k \in 0 .. 6 : \A b \in Nat : r[k] <= 16 * b + 15 => r[k + 1] <= b
    <3> SUFFICES ASSUME NEW k \in 0 .. 6, NEW b \in Nat, r[k] <= 16 * b + 15 PROVE r[k + 1] <= b
      OBVIOUS
    <3>1. r[k] \in Nat /\ r[k + 1] = r[k] \div 16
      BY <1>2
    <3>2. QED
      BY <3>1
  <2>3. r[1] <= 268435455 /\ r[2] <= 16777215 /\ r[3] <= 1048575 /\ r[4] <= 65535
    BY <2>1, <2>2
  <2>4. QED
    BY <2>2, <2>3
<1>4. s = [k \in 1 .. 8 |-> s[k]] /\ Len(s) = 8
  OBVIOUS
<1>5. Reads(w, s, 16)
  <2>1. w[0] = 0 /\ w = [k \in 0 .. 8 |-> w[k]]
    OBVIOUS
  <2>2. ASSUME NEW k \in 1 .. 8 PROVE w[k] = w[k - 1] * 16 - ValueOf(s[k])
    <3> DEFINE a == r[8 - k]
    <3>1. 8 - k \in 0 .. 7 /\ a \in Nat /\ a % 16 \in 0 .. 15 /\ a = (a \div 16) * 16 + (a % 16)
      <4>1. 8 - k \in 0 .. 7
        OBVIOUS
      <4>2. a \in Nat
        BY <1>2, <4>1
      <4> HIDE DEF a
      <4>3. QED
        BY <4>1, <4>2
    <3>2. ValueOf(s[k]) = a % 16
      <4>1. s[k] = Lower[(a % 16) + 1]
        OBVIOUS
      <4> HIDE DEF a
      <4>2. (a % 16) + 1 \in 1 .. 16 /\ ((a % 16) + 1) - 1 = a % 16
        BY <3>1
      <4> HIDE DEF s
      <4>3. QED
        BY <4>1, <4>2, LowerValues
    <3>3. w[k] = -a
      OBVIOUS
    <3>4. w[k - 1] = -(a \div 16)
      <4>1. CASE k = 1
        <5>1. w[k - 1] = 0 /\ a = r[7]
          BY <4>1
        <5>2. a \div 16 = 0
          BY <1>3, <3>1, <5>1
        <5>3. QED
          BY <5>1, <5>2
      <4>2. CASE k # 1
        <5>1. 8 - k \in 0 .. 6 /\ (8 - k) + 1 = 8 - (k - 1) /\ k - 1 \in 1 .. 8
          BY <4>2
        <5>2. w[k - 1] = -r[8 - (k - 1)]
          BY <5>1
        <5>3. r[8 - (k - 1)] = a \div 16
          BY <1>2, <5>1
        <5>4. QED
          BY <5>2, <5>3
      <4>3. QED
        BY <4>1, <4>2
    <3> HIDE DEF w, s, a
    <3>5. QED
      BY <3>1, <3>2, <3>3, <3>4
  <2> HIDE DEF w
  <2>3. QED
    BY <1>4, <2>1, <2>2 DEF Reads
<1>6. w[8] = -num
  BY <1>2
<1> HIDE DEF w, s
<1>7. ReadBack(s, 16) = w[8]
  <2>1. Len(s) \in Nat
    BY <1>4
  <2>2. ReadBack(s, 16) = w[Len(s)]
    BY <1>5, <2>1, ReadBackIs
  <2>3. QED
    BY <1>4, <2>2
<1>8. SubSeq(t, 1, 2) = <<"0", "x">> /\ SubSeq(t, 3, Len(t)) = s
  <2>1. 8 \in Nat /\ s = [k \in 1 .. 8 |-> s[k]]
    BY <1>4
  <2>2. \A c, d, x : x = <<c, d>> \o s =>
          SubSeq(x, 1, 2) = <<c, d>> /\ SubSeq(x, 3, Len(x)) = s
    BY <2>1, PrefixComesOff
  <2>3. QED
    BY <1>1, <2>2, Zenon
<1>9. QED
  BY <1>6, <1>7, <1>8

-----------------------------------------------------------------------------
(* Every argument's magnitude is an unsigned int, INT_MIN's too.           *)
LEMMA ArgumentsSmall ==
  \A n \in Numbers : n \in Int /\ (n >= 0 => Small(n)) /\ (n < 0 => Small(-n))
<1>1. ASSUME NEW n \in Int, n \div 65536 >= -32768, n \div 65536 <= 65535
      PROVE  (n >= 0 => Small(n)) /\ (n < 0 => Small(-n))
  <2>1. n < 0 => -n \in Nat /\ (-n) \div 65536 <= 65535
    BY <1>1
  <2>2. QED
    BY <1>1, <2>1 DEF Small
<1>2. \A n \in Numbers : n \in Int /\ n \div 65536 >= -32768 /\ n \div 65536 <= 65535
  BY ConsoleAssumption
<1>3. QED
  BY <1>1, <1>2

LEMMA NegativeReads ==
  ASSUME NEW m, Small(m), NEW s, s = Unsigned(m, 10, Lower), NEW t, t = <<"-">> \o s
  PROVE  t[1] = "-" /\ ReadBack(Tail(t), 10) = -m /\ Len(t) <= 13
<1>1. ReadBack(s, 10) = -m /\ Len(s) \in 1 .. MostDigits(10) /\ s = [k \in 1 .. Len(s) |-> s[k]]
  BY UnsignedReads
<1>2. \A x \in 1 .. MostDigits(10) : x \in Nat /\ x + 1 <= 13
  BY DEF MostDigits
<1>3. Len(s) \in Nat /\ Len(s) + 1 <= 13
  BY <1>1, <1>2, Zenon
<1>4. PICK n \in Nat : n = Len(s) /\ s = [k \in 1 .. n |-> s[k]]
  BY <1>1, <1>3, Zenon
<1>5. PICK c : c = "-" /\ t = <<c>> \o s
  OBVIOUS
<1>6. t[1] = c /\ Tail(t) = s /\ Len(t) = n + 1
  BY <1>4, <1>5, SignComesOff
<1>7. QED
  BY <1>1, <1>3, <1>4, <1>5, <1>6, Zenon

(* NumbersRight, of one conversion.                                        *)
Right(how, n, t) ==
  \/ how = "d" /\ n < 0 /\ t[1] = "-" /\ ReadBack(Tail(t), 10) = n /\ Len(t) <= 13
  \/ how \in {"d", "u"} /\ n >= 0 /\ ReadBack(t, 10) = -n /\ Len(t) <= 12
  \/ how \in {"x", "X"} /\ ReadBack(t, 16) = -n /\ Len(t) <= 9
  \/ how = "p" /\ SubSeq(t, 1, 2) = <<"0", "x">> /\ ReadBack(SubSeq(t, 3, Len(t)), 16) = -n

LEMMA NegativeRight ==
  ASSUME NEW n \in Numbers, n < 0, NEW t, t = <<"-">> \o Unsigned(-n, 10, Lower)
  PROVE  Right("d", n, t)
<1>1. n \in Int /\ Small(-n)
  BY ArgumentsSmall
<1>2. PICK m : -n = m /\ -m = n
  BY <1>1
<1>3. Small(m) /\ t = <<"-">> \o Unsigned(m, 10, Lower)
  BY <1>1, <1>2, Zenon
<1>4. t[1] = "-" /\ ReadBack(Tail(t), 10) = -m /\ Len(t) <= 13
  BY <1>3, NegativeReads, Zenon
<1>5. QED
  BY <1>2, <1>4, Zenon DEF Right

LEMMA NaturalRight ==
  ASSUME NEW n \in Numbers, n >= 0, NEW t
  PROVE  /\ t = Unsigned(n, 10, Lower) => Right("d", n, t) /\ Right("u", n, t)
         /\ t = Unsigned(n, 16, Lower) => Right("x", n, t)
         /\ t = Unsigned(n, 16, Upper) => Right("X", n, t)
         /\ t = print_ptr(n) => Right("p", n, t)
         /\ t = <<"0", "x">> \o Unsigned(n, 16, Lower) => Right("p", n, t)
<1>1. Small(n)
  BY ArgumentsSmall
<1>2. /\ \A x \in 1 .. MostDigits(10) : x \in Nat /\ x <= 12
      /\ \A x \in 1 .. MostDigits(16) : x \in Nat /\ x <= 9
  BY DEF MostDigits
<1>3. \A digits \in {Lower, Upper} : \A u : u = Unsigned(n, 10, digits) =>
         ReadBack(u, 10) = -n /\ Len(u) \in 1 .. MostDigits(10)
  BY <1>1, UnsignedReads, Zenon
<1>4. \A digits \in {Lower, Upper} : \A u : u = Unsigned(n, 16, digits) =>
         /\ ReadBack(u, 16) = -n /\ Len(u) \in 1 .. MostDigits(16)
         /\ u = [k \in 1 .. Len(u) |-> u[k]]
  BY <1>1, UnsignedReads, Zenon
<1>5. t = Unsigned(n, 10, Lower) => Right("d", n, t) /\ Right("u", n, t)
  BY <1>2, <1>3, Zenon DEF Right
<1>6. t = Unsigned(n, 16, Lower) => Right("x", n, t)
  BY <1>2, <1>4, Zenon DEF Right
<1>7. t = Unsigned(n, 16, Upper) => Right("X", n, t)
  BY <1>2, <1>4, Zenon DEF Right
<1>8. t = print_ptr(n) => Right("p", n, t)
  BY <1>1, PtrReads, Zenon DEF Right
<1>9. t = <<"0", "x">> \o Unsigned(n, 16, Lower) => Right("p", n, t)
  <2> DEFINE u == Unsigned(n, 16, Lower)
  <2>1. /\ ReadBack(u, 16) = -n /\ Len(u) \in Nat
        /\ u = [k \in 1 .. Len(u) |-> u[k]]
    BY <1>2, <1>4, Zenon
  <2> HIDE DEF u
  <2>2. ASSUME t = <<"0", "x">> \o u
        PROVE  SubSeq(t, 1, 2) = <<"0", "x">> /\ SubSeq(t, 3, Len(t)) = u
    <3>1. \A c, e, x : x = <<c, e>> \o u =>
            SubSeq(x, 1, 2) = <<c, e>> /\ SubSeq(x, 3, Len(x)) = u
      BY <2>1, PrefixComesOff
    <3>2. QED
      BY <2>2, <3>1, Zenon
  <2>3. t = <<"0", "x">> \o u => Right("p", n, t)
    BY <2>1, <2>2, Zenon DEF Right
  <2>4. QED
    BY <2>3 DEF u
<1>10. QED
  BY <1>5, <1>6, <1>7, <1>8, <1>9

Converted == {"d", "u", "x", "X", "p"}

LEMMA DirectiveArguments ==
  ASSUME NEW d \in Plain \cup Numeric, d.how \in Converted
  PROVE  d.arg \in Numbers /\ (d.how # "d" => d.arg >= 0)
<1>1. d \notin Plain
  BY DEF Plain, Converted
<1>2. d \in Numeric
  BY <1>1
<1>3. CASE d \in [how : {"d"}, arg : {n \in Numbers : n \div 65536 < 32768}]
  BY <1>3
<1>4. CASE d \in [how : {"u", "x", "X", "p"}, arg : Numbers \cap Nat]
  <2>1. d.arg \in Numbers /\ d.arg \in Nat
    BY <1>4
  <2>2. \A x \in Nat : x >= 0
    OBVIOUS
  <2>3. QED
    BY <2>1, <2>2
<1>5. QED
  BY <1>2, <1>3, <1>4 DEF Numeric

LEMMA SignedRight ==
  ASSUME NEW n \in Numbers
  PROVE  Right("d", n, Signed(n))
<1>1. CASE n < 0
  BY <1>1, NegativeRight, Zenon DEF Signed
<1>2. CASE ~(n < 0)
  <2>1. n >= 0
    BY <1>2, ArgumentsSmall
  <2>2. Signed(n) = Unsigned(n, 10, Lower)
    BY <1>2 DEF Signed
  <2>3. QED
    BY <2>1, <2>2, NaturalRight, Zenon
<1>3. QED
  BY <1>1, <1>2

LEMMA ConversionRight ==
  ASSUME NEW d \in Plain \cup Numeric, d.how \in Converted, d.arg # INT_MIN,
         NEW t \in OnScreen(d) \cup OnSerial(d)
  PROVE  Right(d.how, d.arg, t)
<1>1. d.arg \in Numbers /\ (d.how # "d" => d.arg >= 0)
  BY DirectiveArguments
<1>2. CASE d.how = "d"
  <2>1. t = Signed(d.arg)
    BY <1>2 DEF OnScreen, OnSerial, print_int, serial_putnum_signed
  <2>2. QED
    BY <1>1, <1>2, <2>1, SignedRight, Zenon
<1>3. CASE d.how # "d"
  <2>1. \/ d.how = "u" /\ t = Unsigned(d.arg, 10, Lower)
        \/ d.how = "x" /\ t = Unsigned(d.arg, 16, Lower)
        \/ d.how = "X" /\ t = Unsigned(d.arg, 16, Upper)
        \/ d.how = "p" /\ t = print_ptr(d.arg)
        \/ d.how = "p" /\ t = <<"0", "x">> \o Unsigned(d.arg, 16, Lower)
    BY <1>3 DEF OnScreen, OnSerial, Converted
  <2>2. QED
    BY <1>1, <1>3, <2>1, NaturalRight, Zenon
<1>4. QED
  BY <1>2, <1>3

LEMMA NumbersInit == ConsoleInit => NumbersRight
  BY DEF ConsoleInit, NumbersRight

LEMMA NumbersNext == NumbersRight /\ [ConsoleNext]_console_vars => NumbersRight'
<1> SUFFICES ASSUME NumbersRight, [ConsoleNext]_console_vars PROVE NumbersRight'
  OBVIOUS
<1>1. ASSUME NEW d \in Plain \cup Numeric, printf(d) \/ serial_printf(d) PROVE NumbersRight'
  <2>1. PICK t \in OnScreen(d) \cup OnSerial(d) : \E device :
          said' = [on |-> device, how |-> d.how, arg |-> d.arg, text |-> t]
    BY <1>1 DEF printf, serial_printf, Say
  <2>2. said'.how = d.how /\ said'.arg = d.arg /\ said'.text = t
    BY <2>1
  <2>3. d.how \in Converted /\ d.arg # INT_MIN => Right(d.how, d.arg, t)
    BY ConversionRight
  <2>4. QED
    BY <2>2, <2>3, Zenon DEF NumbersRight, Right, Converted
<1>2. CASE said' = said
  BY <1>2 DEF NumbersRight
<1>3. QED
  BY <1>1, <1>2
  DEF ConsoleNext, Put, clear_screen, serial_init, serial_write, UartSends, console_vars

(* Every number printed on screen or line, signed, unsigned or a pointer,  *)
(* reads back as itself and its digits fit the buffers on the stack, for   *)
(* every 32-bit number but INT_MIN, which both devices' code negates.      *)
THEOREM NumbersReadBack == ConsoleSpec => []NumbersRight
  BY NumbersInit, NumbersNext, PTL DEF ConsoleSpec

=============================================================================
