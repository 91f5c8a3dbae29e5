---------------------------- MODULE Descriptors -----------------------------
(***************************************************************************)
(* The descriptor tables as kmain fills them: gdt_set_gate and             *)
(* idt_set_gate cut a base and a limit into the fields of an entry, from   *)
(* which the processor puts them together again.  The processor, and the   *)
(* addresses the linker gives the stubs, are external.                     *)
(***************************************************************************)
EXTENDS Integers

MaxWord == 4294967295
Word == 0 .. MaxWord    \* unsigned long
Byte == 0 .. 255

VARIABLES
  gdt, idt,     (* the tables                                              *)
  gp, idtp,     (* the limits given to lgdt and lidt, 0 before             *)
  stubs,        (* vector -> the address of its stub, isr or irq           *)
  step          (* the next step of kmain                                  *)

tables == <<gdt, idt, gp, idtp, stubs, step>>

GdtEntry(base, limit, access, gran) ==
  [base_low    |-> base % 65536,
   base_middle |-> (base \div 65536) % 256,
   base_high   |-> (base \div 16777216) % 256,
   limit_low   |-> limit % 65536,
   granularity |-> ((limit \div 65536) % 16) + 16 * (gran \div 16),
   access      |-> access]

IdtEntry(base, sel, flags) ==
  [base_low |-> base % 65536, sel |-> sel, always0 |-> 0, flags |-> flags,
   base_high |-> (base \div 65536) % 65536]

ZeroGdt == GdtEntry(0, 0, 0, 0)
ZeroIdt == IdtEntry(0, 0, 0)

TablesInit ==
  /\ gdt = [n \in 0 .. 2 |-> ZeroGdt] /\ idt = [v \in Byte |-> ZeroIdt]
  /\ gp = 0 /\ idtp = 0
  /\ stubs \in [0 .. 47 -> Word]
  /\ step = "gdt"

gdt_install ==
  /\ step = "gdt" /\ step' = "idt"
  /\ gp' = 8 * 3 - 1
  /\ gdt' = [n \in 0 .. 2 |->
               CASE n = 0 -> GdtEntry(0, 0, 0, 0)
                 [] n = 1 -> GdtEntry(0, MaxWord, 154, 207)      \* 0x9A, 0xCF
                 [] n = 2 -> GdtEntry(0, MaxWord, 146, 207)]     \* 0x92
  /\ UNCHANGED <<idt, idtp, stubs>>

idt_install ==
  /\ step = "idt" /\ step' = "exceptions"
  /\ idtp' = 8 * 256 - 1
  /\ idt' = [v \in Byte |-> ZeroIdt]
  /\ UNCHANGED <<gdt, gp, stubs>>

(* An interrupt gate (0x8E) through the code segment 0x08.                 *)
WithGates(vectors) == [v \in Byte |-> IF v \in vectors THEN IdtEntry(stubs[v], 8, 142) ELSE idt[v]]

exceptions_install ==
  /\ step = "exceptions" /\ step' = "irq"
  /\ idt' = WithGates(0 .. 31)
  /\ UNCHANGED <<gdt, gp, idtp, stubs>>

irq_install ==
  /\ step = "irq" /\ step' = "installed"
  /\ idt' = WithGates(32 .. 47)
  /\ UNCHANGED <<gdt, gp, idtp, stubs>>

TablesNext == gdt_install \/ idt_install \/ exceptions_install \/ irq_install
TablesSpec == TablesInit /\ [][TablesNext]_tables

-----------------------------------------------------------------------------
(* What the processor makes of an entry.                                   *)
Bit(x, power) == (x \div power) % 2
SegmentBase(e) == e.base_low + 65536 * e.base_middle + 16777216 * e.base_high
SegmentLimit(e) ==
  LET limit == e.limit_low + 65536 * (e.granularity % 16)
  IN IF Bit(e.granularity, 128) = 1 THEN 4096 * limit + 4095 ELSE limit
SegmentPresent(e) == Bit(e.access, 128) = 1
IsCode(e) == Bit(e.access, 16) = 1 /\ Bit(e.access, 8) = 1
IsWritableData(e) == Bit(e.access, 16) = 1 /\ Bit(e.access, 8) = 0 /\ Bit(e.access, 2) = 1
Is32Bit(e) == Bit(e.granularity, 64) = 1

GatePresent(e) == Bit(e.flags, 128) = 1
IsInterruptGate(e) == e.flags % 16 = 14
Offset(e) == e.base_low + 65536 * e.base_high

(* An entry of a table within the limit of its register.                   *)
Reached(index, limit) == 8 * index + 7 <= limit

(* Code and data are the whole address space once the tables are loaded:   *)
(* the addresses of C are linear addresses, before and after the reload.   *)
FlatMemory ==
  step # "gdt" =>
    /\ \A n \in {1, 2} :
         /\ Reached(n, gp) /\ SegmentPresent(gdt[n]) /\ Is32Bit(gdt[n])
         /\ SegmentBase(gdt[n]) = 0 /\ SegmentLimit(gdt[n]) = MaxWord
    /\ IsCode(gdt[1]) /\ IsWritableData(gdt[2])

(* When kmain has installed them, exactly the vectors 0 to 47 have a gate; *)
(* each leads to its own stub, wherever the linker put it, through a code  *)
(* segment, and clears the interrupt flag.                                 *)
GatesLeadToStubs ==
  step = "installed" =>
    \A v \in Byte :
      /\ Reached(v, idtp)
      /\ GatePresent(idt[v]) <=> v <= 47
      /\ v <= 47 => /\ Offset(idt[v]) = stubs[v] /\ IsInterruptGate(idt[v])
                    /\ idt[v].sel % 8 = 0 /\ Reached(idt[v].sel \div 8, gp)
                    /\ IsCode(gdt[idt[v].sel \div 8])

=============================================================================
