----------------------------- MODULE Interrupts -----------------------------
(***************************************************************************)
(* How a hardware interrupt reaches the kernel and leaves it: the two 8259 *)
(* PICs as irq_install programs them, the gates of the IDT, the stubs of   *)
(* irq.asm, irq_handler with its EOIs, and what the one thread does to the *)
(* interrupt flag: kmain's boot order, the critical sections of kmalloc    *)
(* and kfree, hlt.  The PICs, the processor and the devices are external;  *)
(* the PICs work in edge-triggered, fully nested mode.                     *)
(***************************************************************************)
EXTENDS Integers, Sequences

CONSTANTS
  Devices,   (* the IRQ lines that devices drive            *)
  TickMod    (* number of values of timer_ticks: 2^64       *)

ASSUME InterruptsAssumption == Devices \subseteq (0 .. 15) \ {2} /\ TickMod \in Nat \ {0, 1}

Master == 0 .. 7
Slave == 8 .. 15
Cascade == 2          \* the master's line to the slave

VARIABLES
  irr,          (* lines with a request the PICs have latched              *)
  isr,          (* lines in service                                        *)
  imr,          (* lines masked                                            *)
  offset,       (* the first vector of each PIC                            *)
  gates,        (* the vectors with a present gate in the IDT              *)
  irq_handlers, (* the lines with a C handler                              *)
  if_on,        (* the processor's interrupt flag, IF                      *)
  pc,           (* where the thread is                                     *)
  flags,        (* IF as save_and_cli found it                             *)
  frames,       (* the interrupt handlers in progress, innermost first     *)
  timer_ticks,  (* what on_irq0 counts, modulo TickMod                     *)
  acked         (* IRQ0s the processor has acknowledged, modulo TickMod    *)

pics == <<irr, isr, imr, offset>>
tables == <<gates, irq_handlers>>
vars == <<pics, tables, if_on, pc, flags, frames, timer_ticks, acked>>

(* As the boot sector leaves the machine: interrupts off, the PICs with    *)
(* the BIOS's vectors and masks, no IDT.                                   *)
Init ==
  /\ irr = {} /\ isr = {} /\ imr \in {{}, 0 .. 15}
  /\ offset = [master |-> 8, slave |-> 112]
  /\ gates = {} /\ irq_handlers = {}
  /\ if_on = FALSE /\ flags = FALSE
  /\ pc = "idt" /\ frames = << >>
  /\ timer_ticks = 0 /\ acked = 0

-----------------------------------------------------------------------------
(* The PICs, external.  A line gets through when it is not masked and no   *)
(* line of the same or a higher priority is in service on its PIC.         *)
Top(lines) == CHOOSE l \in lines : \A m \in lines : l <= m
Passes(l, pic) == l \notin imr /\ \A s \in isr \cap pic : l < s

SlaveRequests == {l \in irr \cap Slave : Passes(l, Slave)}
CascadeRequest == IF SlaveRequests = {} THEN {} ELSE {Cascade}
MasterRequests == {l \in (irr \cap Master) \cup CascadeRequest : Passes(l, Master)}

INTR == MasterRequests # {}
Requested == IF Top(MasterRequests) = Cascade THEN Top(SlaveRequests) ELSE Top(MasterRequests)
InService(l) == IF l \in Slave THEN {Cascade, l} ELSE {l}

(* The non-specific EOI ends the line of the highest priority in service.  *)
Eoi(pic) == IF isr \cap pic = {} THEN isr ELSE isr \ {Top(isr \cap pic)}

(* The processor enters a handler through an interrupt gate (flags 0x8E),  *)
(* which clears IF, as the cli of the stub does once more; a vector        *)
(* without a gate ends in a triple fault.                                  *)
\* Mutation: a trap gate (0x8F), which leaves IF alone, and no cli.
Enter_TrapGate(vector) ==
  IF vector \in gates
  THEN frames' = <<[at |-> "dispatch", int_no |-> vector]>> \o frames /\ UNCHANGED <<if_on, pc>>
  ELSE pc' = "dead" /\ UNCHANGED <<if_on, frames>>
Enter(vector) ==
  IF vector \in gates
  THEN /\ if_on' = FALSE /\ UNCHANGED pc
       /\ frames' = <<[at |-> "dispatch", int_no |-> vector]>> \o frames
  ELSE pc' = "dead" /\ UNCHANGED <<if_on, frames>>

Interrupt ==
  /\ if_on /\ INTR /\ pc # "dead"
  /\ irr' = irr \ {Requested}
  /\ isr' = isr \cup InService(Requested)
  /\ acked' = IF Requested = 0 THEN (acked + 1) % TickMod ELSE acked
  /\ Enter(IF Requested \in Master THEN offset.master + Requested
                                   ELSE offset.slave + Requested - 8)
  /\ UNCHANGED <<imr, offset, tables, flags, timer_ticks>>

(* A line drops its request before the processor asks for the vector: the  *)
(* PIC answers with its lowest line and has nothing of it in service.      *)
SpuriousMaster ==
  /\ if_on /\ ~INTR /\ pc # "dead"
  /\ \E l \in Master \ {Cascade} : Passes(l, Master)
  /\ Enter(offset.master + 7)
  /\ UNCHANGED <<pics, tables, flags, timer_ticks, acked>>

SpuriousSlave ==
  /\ if_on /\ ~INTR /\ pc # "dead"
  /\ Passes(Cascade, Master) /\ \E l \in Slave : Passes(l, Slave)
  /\ isr' = isr \cup {Cascade}
  /\ Enter(offset.slave + 7)
  /\ UNCHANGED <<irr, imr, offset, tables, flags, timer_ticks, acked>>

DeviceRaises ==
  /\ \E l \in Devices : irr' = irr \cup {l}
  /\ UNCHANGED <<isr, imr, offset, tables, if_on, pc, flags, frames, timer_ticks, acked>>

-----------------------------------------------------------------------------
(* The handler in progress: irq_common_stub and irq_handler.               *)
Handling(at) == frames # << >> /\ Head(frames).at = at /\ pc # "dead"
GoOn(at) == frames' = <<[Head(frames) EXCEPT !.at = at]>> \o Tail(frames)

(* Line 0 is the only one with a handler, on_irq0.                         *)
Dispatch ==
  /\ Handling("dispatch")
  /\ LET irq == Head(frames).int_no - 32
     IN timer_ticks' = IF irq \in irq_handlers THEN (timer_ticks + 1) % TickMod ELSE timer_ticks
  /\ GoOn(IF Head(frames).int_no >= 40 THEN "eoi_slave" ELSE "eoi_master")
  /\ UNCHANGED <<pics, tables, if_on, pc, flags, acked>>

EoiSlave ==
  /\ Handling("eoi_slave")
  /\ isr' = Eoi(Slave)
  /\ GoOn("eoi_master")
  /\ UNCHANGED <<irr, imr, offset, tables, if_on, pc, flags, timer_ticks, acked>>

\* Mutation: no EOI to the master for an interrupt of the slave.
EoiMaster_NotForSlave ==
  /\ Handling("eoi_master")
  /\ isr' = IF Head(frames).int_no >= 40 THEN isr ELSE Eoi(Master)
  /\ GoOn("iret")
  /\ UNCHANGED <<irr, imr, offset, tables, if_on, pc, flags, timer_ticks, acked>>
\* Mutation: no EOI to the master at all.
EoiMaster_Never ==
  /\ Handling("eoi_master")
  /\ GoOn("iret")
  /\ UNCHANGED <<pics, tables, if_on, pc, flags, timer_ticks, acked>>
EoiMaster ==
  /\ Handling("eoi_master")
  /\ isr' = Eoi(Master)
  /\ GoOn("iret")
  /\ UNCHANGED <<irr, imr, offset, tables, if_on, pc, flags, timer_ticks, acked>>

(* iret restores the IF the interrupt found set; a halted thread goes on   *)
(* after its hlt.                                                          *)
Iret ==
  /\ Handling("iret")
  /\ frames' = Tail(frames) /\ if_on' = TRUE
  /\ pc' = IF pc = "halted" THEN "run" ELSE pc
  /\ UNCHANGED <<pics, tables, flags, timer_ticks, acked>>

-----------------------------------------------------------------------------
(* The thread runs when no handler does.                                   *)
ThreadAt(at) == frames = << >> /\ pc = at
Goto(at) == pc' = at /\ UNCHANGED <<frames, timer_ticks, acked>>

IdtInstall ==
  /\ ThreadAt("idt") /\ Goto("exceptions")
  /\ gates' = {}
  /\ UNCHANGED <<pics, irq_handlers, if_on, flags>>

ExceptionsInstall ==
  /\ ThreadAt("exceptions") /\ Goto("irq")
  /\ gates' = gates \cup (0 .. 31)
  /\ UNCHANGED <<pics, irq_handlers, if_on, flags>>

(* ICW1 drops what the PICs have latched; the last two writes unmask all.  *)
\* Mutations: the vectors of the BIOS are kept; the PICs are swapped.
IrqInstall_NoRemap ==
  /\ ThreadAt("irq") /\ Goto("handler")
  /\ irr' = {} /\ isr' = {} /\ imr' = {} /\ UNCHANGED offset
  /\ gates' = gates \cup (32 .. 47)
  /\ UNCHANGED <<irq_handlers, if_on, flags>>
IrqInstall_Swapped ==
  /\ ThreadAt("irq") /\ Goto("handler")
  /\ irr' = {} /\ isr' = {} /\ imr' = {}
  /\ offset' = [master |-> 40, slave |-> 32]
  /\ gates' = gates \cup (32 .. 47)
  /\ UNCHANGED <<irq_handlers, if_on, flags>>
IrqInstall ==
  /\ ThreadAt("irq") /\ Goto("handler")
  /\ irr' = {} /\ isr' = {} /\ imr' = {}
  /\ offset' = [master |-> 32, slave |-> 40]
  /\ gates' = gates \cup (32 .. 47)
  /\ UNCHANGED <<irq_handlers, if_on, flags>>

(* install_irq_handler(0, on_irq0), with pic_enable_irq.                   *)
InstallIrqHandler ==
  /\ ThreadAt("handler") /\ Goto("sti")
  /\ irq_handlers' = irq_handlers \cup {0}
  /\ imr' = imr \ {0}
  /\ UNCHANGED <<irr, isr, offset, gates, if_on, flags>>

Sti ==
  /\ ThreadAt("sti") /\ Goto("run")
  /\ if_on' = TRUE
  /\ UNCHANGED <<pics, tables, flags>>

\* Mutation: cli is left out.
SaveAndCli_NoCli ==
  /\ ThreadAt("run") /\ Goto("critical")
  /\ flags' = if_on
  /\ UNCHANGED <<pics, tables, if_on>>
SaveAndCli ==
  /\ ThreadAt("run") /\ Goto("critical")
  /\ flags' = if_on /\ if_on' = FALSE
  /\ UNCHANGED <<pics, tables>>

RestoreFlags ==
  /\ ThreadAt("critical") /\ Goto("run")
  /\ if_on' = (if_on \/ flags)
  /\ UNCHANGED <<pics, tables, flags>>

Hlt ==
  /\ ThreadAt("run") /\ Goto("halted")
  /\ UNCHANGED <<pics, tables, if_on, flags>>

(* IRQ_set_mask, IRQ_clear_mask and pic_disable, of which the kernel makes *)
(* no use so far.                                                          *)
SetMasks ==
  /\ ThreadAt("run")
  /\ \/ \E l \in Devices \cup {Cascade} : imr' = imr \cup {l}
     \/ \E l \in Devices \cup {Cascade} : imr' = imr \ {l}
     \/ imr' = 0 .. 15
  /\ UNCHANGED <<irr, isr, offset, tables, if_on, pc, flags, frames, timer_ticks, acked>>

-----------------------------------------------------------------------------
Hardware == Interrupt \/ SpuriousMaster \/ SpuriousSlave \/ DeviceRaises
HandlerStep == Dispatch \/ EoiSlave \/ EoiMaster \/ Iret
Boot == IdtInstall \/ ExceptionsInstall \/ IrqInstall \/ InstallIrqHandler \/ Sti
Next == Hardware \/ HandlerStep \/ Boot \/ SaveAndCli \/ RestoreFlags \/ Hlt \/ SetMasks

(* Handlers and critical sections run to their end.  A pending interrupt   *)
(* is taken before the thread has turned interrupts off again and again:   *)
(* there is code between one critical section and the next.                *)
Fairness ==
  /\ WF_vars(HandlerStep) /\ WF_vars(Boot) /\ WF_vars(RestoreFlags)
  /\ SF_vars(Interrupt)
Spec == Init /\ [][Next]_vars /\ Fairness

-----------------------------------------------------------------------------
TypeOK ==
  /\ irr \subseteq Devices /\ isr \subseteq 0 .. 15 /\ imr \subseteq 0 .. 15
  /\ offset.master \in Nat /\ offset.slave \in Nat
  /\ gates \subseteq 0 .. 47 /\ irq_handlers \subseteq {0}
  /\ if_on \in BOOLEAN /\ flags \in BOOLEAN
  /\ pc \in {"idt", "exceptions", "irq", "handler", "sti", "run", "critical", "halted", "dead"}
  /\ Len(frames) <= 1
  /\ \A k \in 1 .. Len(frames) :
       frames[k].at \in {"dispatch", "eoi_slave", "eoi_master", "iret"} /\ frames[k].int_no \in 0 .. 255
  /\ timer_ticks \in 0 .. TickMod - 1 /\ acked \in 0 .. TickMod - 1

(* An interrupt of the PICs always finds a gate: kmain's order of           *)
(* idt_install, irq_install and sti, and the vectors irq_install gives the *)
(* PICs.  (Exceptions are not raised here.)                                *)
AlwaysGated == pc # "dead"

(* Whenever the thread runs with interrupts on nothing is left in service: *)
(* the EOIs of irq_handler end every interrupt, the cascade line of one    *)
(* from the slave and of a spurious one included.                          *)
ServiceEnded == frames = << >> /\ if_on => isr = {}

(* An EOI ends the interrupt being handled, never another one: that        *)
(* irq_handler sends EOIs for spurious interrupts too does no harm.        *)
LinesOf(int_no) == IF int_no >= 40 THEN {Cascade, int_no - 32} ELSE {int_no - 32}
EndsOnlyItsOwn ==
  [][pc # "irq" => \A l \in isr \ isr' : frames # << >> /\ l \in LinesOf(Head(frames).int_no)]_vars

(* timer_ticks counts the interrupts of line 0, each once, and no other:   *)
(* not keyboard or disk, not a spurious one.                               *)
NotYetCounted == {k \in 1 .. Len(frames) : frames[k] = [at |-> "dispatch", int_no |-> 32]}
TicksCounted == acked = (timer_ticks + (IF NotYetCounted = {} THEN 0 ELSE 1)) % TickMod

(* No handler runs while kmalloc or kfree has the free list in its hands,  *)
(* and interrupts are on again when they return (save_and_cli).            *)
CriticalUndisturbed ==
  /\ pc = "critical" => frames = << >> /\ ~if_on
  /\ pc \in {"run", "halted"} /\ frames = << >> => if_on

(* A tick is served, whatever the other lines do, unless it is masked.     *)
TickServed == 0 \in irr /\ pc \notin {"idt", "exceptions", "irq"} ~> 0 \notin irr \/ 0 \in imr

=============================================================================
