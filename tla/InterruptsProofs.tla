-------------------------- MODULE InterruptsProofs ---------------------------
(***************************************************************************)
(* The path of an interrupt, for every set of devices: what is in service  *)
(* at each point of irq_handler, and where the interrupt flag is on.       *)
(***************************************************************************)
EXTENDS Interrupts, WellFoundedInduction, TLAPS

Booting == pc \in {"idt", "exceptions", "irq", "handler", "sti"}
Unprogrammed == pc \in {"idt", "exceptions", "irq"}

PicsTyped == irr \subseteq Devices /\ isr \subseteq 0 .. 15 /\ imr \subseteq 0 .. 15

(* irq_install has come before any interrupt can.                          *)
TablesReady ==
  /\ gates \subseteq 0 .. 47
  /\ offset.master \in Nat /\ offset.slave \in Nat
  /\ ~Unprogrammed => offset = [master |-> 32, slave |-> 40] /\ 32 .. 47 \subseteq gates
  /\ irq_handlers = IF Unprogrammed \/ pc = "handler" THEN {} ELSE {0}

(* Interrupts are on exactly when the thread runs outside its critical     *)
(* sections; a handler has interrupted it there.                           *)
FlagInv ==
  /\ if_on \in BOOLEAN /\ flags \in BOOLEAN
  /\ Booting \/ pc \in {"run", "halted", "critical"}
  /\ Booting \/ pc = "critical" => ~if_on /\ frames = << >>
  /\ pc = "critical" => flags
  /\ pc \in {"run", "halted"} => (if_on <=> frames = << >>)

Frame == [at : {"dispatch", "eoi_slave", "eoi_master", "iret"}, int_no : 32 .. 47]

(* At most one handler is in progress: gates and stub keep IF off in it.   *)
OneFrame == frames = << >> \/ \E f \in Frame : frames = <<f>>

(* The lines a handler may still have to end.                              *)
Remaining(f) ==
  IF f.at = "iret" THEN {}
  ELSE IF f.at = "eoi_master" THEN LinesOf(f.int_no) \cap Master
  ELSE LinesOf(f.int_no)

ServiceInv ==
  /\ frames = << >> => isr = {}
  /\ \A f \in Frame : frames = <<f>> =>
       isr \subseteq Remaining(f) /\ (f.at = "eoi_slave" => f.int_no >= 40)

CountInv ==
  /\ timer_ticks \in 0 .. TickMod - 1 /\ acked \in 0 .. TickMod - 1
  /\ acked = IF frames = <<[at |-> "dispatch", int_no |-> 32]>>
             THEN (timer_ticks + 1) % TickMod ELSE timer_ticks

IInv == PicsTyped /\ TablesReady /\ FlagInv /\ OneFrame /\ ServiceInv /\ CountInv

-----------------------------------------------------------------------------
Below == {p \in Nat \X Nat : p[1] < p[2]}

LEMMA LeastExists ==
  ASSUME NEW lines \in SUBSET Nat, lines # {}
  PROVE  \E l \in lines : \A m \in lines : l <= m
<1>1. IsWellFoundedOn(Below, Nat)
  BY NatLessThanWellFounded DEF OpToRel, Below
<1>2. PICK l \in lines : \A m \in lines : <<m, l>> \notin Below
  BY <1>1, WFMin
<1>3. ASSUME NEW m \in lines PROVE l <= m
  <2>1. <<m, l>> \in Nat \X Nat /\ ~ (<<m, l>>[1] < <<m, l>>[2])
    BY <1>2 DEF Below
  <2>2. QED
    BY <2>1
<1>4. QED
  BY <1>3

LEMMA TopIs ==
  ASSUME NEW lines \in SUBSET Nat, lines # {}
  PROVE  Top(lines) \in lines /\ \A m \in lines : Top(lines) <= m
  BY LeastExists DEF Top

(* What the processor is given is the line of a device.                    *)
LEMMA RequestedIsDevice ==
  ASSUME irr \subseteq Devices, INTR
  PROVE  Requested \in irr /\ Requested \in (0 .. 15) \ {Cascade}
<1>1. irr \subseteq (0 .. 15) \ {Cascade}
  BY InterruptsAssumption DEF InterruptsAssumption, Cascade
<1>2. MasterRequests \in SUBSET Nat /\ MasterRequests # {}
  BY <1>1 DEF MasterRequests, CascadeRequest, INTR, Cascade, Master
<1>3. Top(MasterRequests) \in MasterRequests
  BY <1>2, TopIs
<1>4. CASE Top(MasterRequests) = Cascade
  <2>1. SlaveRequests # {}
    BY <1>1, <1>3, <1>4 DEF MasterRequests, CascadeRequest
  <2>2. Top(SlaveRequests) \in SlaveRequests
    BY <1>1, <2>1, TopIs DEF SlaveRequests
  <2>3. QED
    BY <1>1, <1>4, <2>2 DEF Requested, SlaveRequests
<1>5. CASE Top(MasterRequests) # Cascade
  BY <1>1, <1>3, <1>5 DEF Requested, MasterRequests, CascadeRequest
<1>6. QED
  BY <1>4, <1>5

(* The EOI to a PIC leaves nothing of it in service when one line was.     *)
LEMMA EoiEndsTheOnlyLine ==
  ASSUME isr \subseteq 0 .. 15, NEW pic \in {Master, Slave}, NEW l, isr \cap pic \subseteq {l}
  PROVE  Eoi(pic) = isr \ pic
<1>1. CASE isr \cap pic = {}
  BY <1>1 DEF Eoi
<1>2. CASE isr \cap pic # {}
  <2>1. \A m \in isr \cap pic : m \in Nat
    OBVIOUS
  <2>2. Top(isr \cap pic) \in isr \cap pic
    BY <1>2, <2>1, TopIs, isr \cap pic \in SUBSET Nat
  <2>3. isr \cap pic = {Top(isr \cap pic)}
    BY <2>2
  <2>4. QED
    BY <1>2, <2>3 DEF Eoi
<1>3. QED
  BY <1>1, <1>2

LEMMA InitEstablishesIInv == Init => IInv
<1> SUFFICES ASSUME Init PROVE IInv
  OBVIOUS
<1>1. PicsTyped
  BY DEF Init, PicsTyped
<1>2. TablesReady
  BY DEF Init, TablesReady, Unprogrammed
<1>3. FlagInv /\ OneFrame
  BY DEF Init, FlagInv, Booting, OneFrame
<1>4. ServiceInv
  BY DEF Init, ServiceInv
<1>5. CountInv
  BY InterruptsAssumption DEF InterruptsAssumption, Init, CountInv
<1>6. QED
  BY <1>1, <1>2, <1>3, <1>4, <1>5 DEF IInv

(* The processor enters a handler only while the thread runs, and finds a  *)
(* gate.                                                                   *)
LEMMA EnterFacts ==
  ASSUME IInv, if_on, NEW v \in 32 .. 47, Enter(v)
  PROVE  /\ pc \in {"run", "halted"} /\ frames = << >> /\ isr = {}
         /\ pc' = pc /\ if_on' = FALSE
         /\ frames' = <<[at |-> "dispatch", int_no |-> v]>>
<1>1. pc \in {"run", "halted"} /\ frames = << >> /\ isr = {}
  BY DEF IInv, FlagInv, ServiceInv
<1>2. v \in gates
  BY <1>1 DEF IInv, TablesReady, Unprogrammed
<1>3. QED
  BY <1>1, <1>2 DEF Enter

(* What holds once a handler has been entered for vector v.                *)
LEMMA EnteringKeepsIInv ==
  ASSUME IInv, if_on, NEW v \in 32 .. 47, Enter(v),
         UNCHANGED <<imr, offset, tables, flags, timer_ticks>>,
         irr' \subseteq irr, isr' \subseteq LinesOf(v), isr' \subseteq 0 .. 15,
         acked' = IF v = 32 THEN (acked + 1) % TickMod ELSE acked
  PROVE  IInv'
<1> DEFINE f == [at |-> "dispatch", int_no |-> v]
<1>1. /\ pc \in {"run", "halted"} /\ frames = << >> /\ isr = {}
      /\ pc' = pc /\ if_on' = FALSE /\ frames' = <<f>>
  BY EnterFacts
<1>2. f \in Frame
  BY DEF Frame
<1>3. PicsTyped'
  BY DEF IInv, PicsTyped
<1>4. TablesReady'
  BY <1>1 DEF IInv, TablesReady, Unprogrammed, tables
<1>5. FlagInv'
  BY <1>1 DEF IInv, FlagInv, Booting
<1>6. OneFrame'
  BY <1>1, <1>2 DEF OneFrame
<1>7. ServiceInv'
  BY <1>1, <1>2 DEF ServiceInv, Remaining
<1>8. CountInv'
  <2>1. timer_ticks \in 0 .. TickMod - 1 /\ acked = timer_ticks
    BY <1>1 DEF IInv, CountInv
  <2>2. (timer_ticks + 1) % TickMod \in 0 .. TickMod - 1
    BY <2>1, InterruptsAssumption DEF InterruptsAssumption
  <2>3. v = 32 <=> frames' = <<[at |-> "dispatch", int_no |-> 32]>>
    BY <1>1
  <2>4. QED
    BY <2>1, <2>2, <2>3 DEF CountInv
<1>9. QED
  BY <1>3, <1>4, <1>5, <1>6, <1>7, <1>8 DEF IInv

LEMMA HardwareKeepsIInv ==
  ASSUME IInv, Hardware
  PROVE  IInv'
<1>1. irr \subseteq Devices /\ isr \subseteq 0 .. 15
  BY DEF IInv, PicsTyped
<1>2. ASSUME if_on PROVE isr = {} /\ offset = [master |-> 32, slave |-> 40]
  BY <1>2 DEF IInv, FlagInv, ServiceInv, TablesReady, Unprogrammed
<1>3. CASE Interrupt
  <2> DEFINE v == 32 + Requested
  <2>1. Requested \in (0 .. 15) \ {Cascade} /\ if_on
    BY <1>1, <1>3, RequestedIsDevice DEF Interrupt
  <2>2. v \in 32 .. 47 /\ Enter(v)
    BY <1>2, <1>3, <2>1 DEF Interrupt, Master
  <2>3. InService(Requested) \subseteq LinesOf(v) /\ InService(Requested) \subseteq 0 .. 15
    BY <2>1 DEF InService, LinesOf, Slave, Cascade
  <2>4. QED
    BY <1>2, <1>3, <2>1, <2>2, <2>3, EnteringKeepsIInv DEF Interrupt
<1>4. CASE SpuriousMaster
  <2>1. if_on /\ Enter(39) /\ 39 \in 32 .. 47
    BY <1>2, <1>4 DEF SpuriousMaster
  <2>2. QED
    BY <1>2, <1>4, <2>1, EnteringKeepsIInv DEF SpuriousMaster, pics
<1>5. CASE SpuriousSlave
  <2>1. if_on /\ Enter(47) /\ 47 \in 32 .. 47
    BY <1>2, <1>5 DEF SpuriousSlave
  <2>2. {Cascade} \subseteq LinesOf(47) /\ {Cascade} \subseteq 0 .. 15
    BY DEF LinesOf, Cascade
  <2>3. QED
    BY <1>2, <1>5, <2>1, <2>2, EnteringKeepsIInv DEF SpuriousSlave
<1>6. CASE DeviceRaises
  <2>1. irr' \subseteq Devices
    BY <1>1, <1>6 DEF DeviceRaises
  <2>2. QED
    BY <1>6, <2>1 DEF DeviceRaises, tables, IInv, PicsTyped, TablesReady, Unprogrammed, FlagInv, Booting,
       OneFrame, ServiceInv, CountInv
<1>7. QED
  BY <1>3, <1>4, <1>5, <1>6 DEF Hardware

(* A step of the handler in progress, f, to the place "at" of irq_handler. *)
LEMMA OnGoing ==
  ASSUME IInv, NEW at, Handling(at)
  PROVE  \E f \in Frame : /\ frames = <<f>> /\ f.at = at /\ Head(frames) = f /\ Tail(frames) = << >>
                          /\ isr \subseteq Remaining(f) /\ (at = "eoi_slave" => f.int_no >= 40)
                          /\ pc \in {"run", "halted"} /\ ~if_on
<1>1. PICK f \in Frame : frames = <<f>>
  BY DEF IInv, OneFrame, Handling
<1>2. Head(frames) = f /\ Tail(frames) = << >> /\ frames # << >> /\ f.at = at
  BY <1>1 DEF Handling
<1>3. isr \subseteq Remaining(f) /\ (at = "eoi_slave" => f.int_no >= 40)
  BY <1>1, <1>2 DEF IInv, ServiceInv
<1>4. pc \in {"run", "halted"} /\ ~if_on
  BY <1>2 DEF IInv, FlagInv
<1>5. QED
  BY <1>1, <1>2, <1>3, <1>4

LEMMA GoingOnKeepsIInv ==
  ASSUME IInv, NEW f \in Frame, frames = <<f>>, pc \in {"run", "halted"}, ~if_on,
         NEW at \in {"eoi_slave", "eoi_master", "iret"}, GoOn(at),
         at = "eoi_slave" => f.int_no >= 40,
         isr' \subseteq isr, isr' \subseteq Remaining([f EXCEPT !.at = at]),
         UNCHANGED <<irr, imr, offset, tables, if_on, pc, flags, acked>>,
         timer_ticks' = IF f = [at |-> "dispatch", int_no |-> 32]
                        THEN (timer_ticks + 1) % TickMod ELSE timer_ticks
  PROVE  IInv'
<1> DEFINE g == [f EXCEPT !.at = at]
<1>1. g \in Frame /\ g.at = at /\ g.int_no = f.int_no
  BY DEF Frame
<1>2. frames' = <<g>> /\ frames # << >> /\ frames' # << >>
  BY DEF GoOn
<1>3. PicsTyped'
  BY DEF IInv, PicsTyped
<1>4. TablesReady'
  BY DEF IInv, TablesReady, Unprogrammed, tables
<1>5. FlagInv'
  BY <1>2 DEF IInv, FlagInv, Booting
<1>6. OneFrame'
  BY <1>1, <1>2 DEF OneFrame
<1>7. ServiceInv'
  BY <1>1, <1>2 DEF ServiceInv
<1>8. CountInv'
  <2>1. acked' = timer_ticks' /\ acked \in 0 .. TickMod - 1
    BY DEF IInv, CountInv
  <2>2. frames' # <<[at |-> "dispatch", int_no |-> 32]>>
    BY <1>1, <1>2
  <2>3. QED
    BY <2>1, <2>2 DEF CountInv
<1>9. QED
  BY <1>3, <1>4, <1>5, <1>6, <1>7, <1>8 DEF IInv

LEMMA HandlerKeepsIInv ==
  ASSUME IInv, HandlerStep
  PROVE  IInv' /\ (EoiSlave \/ EoiMaster => \A l \in isr : l \in LinesOf(Head(frames).int_no))
<1>1. isr \subseteq 0 .. 15
  BY DEF IInv, PicsTyped
<1>2. CASE Dispatch
  <2>1. PICK f \in Frame : /\ frames = <<f>> /\ f.at = "dispatch" /\ Head(frames) = f
                          /\ isr \subseteq Remaining(f) /\ pc \in {"run", "halted"} /\ ~if_on
    BY <1>2, OnGoing DEF Dispatch
  <2> DEFINE at == IF f.int_no >= 40 THEN "eoi_slave" ELSE "eoi_master"
  <2>2. GoOn(at) /\ at \in {"eoi_slave", "eoi_master", "iret"} /\ (at = "eoi_slave" => f.int_no >= 40)
    BY <1>2, <2>1 DEF Dispatch
  <2>3. f.int_no \in 32 .. 47 /\ f = [at |-> "dispatch", int_no |-> f.int_no]
    BY <2>1 DEF Frame
  <2>4. irq_handlers = {0}
    BY <2>1 DEF IInv, TablesReady, Unprogrammed
  <2>5. timer_ticks' = IF f.int_no - 32 \in irq_handlers THEN (timer_ticks + 1) % TickMod ELSE timer_ticks
    BY <1>2, <2>1 DEF Dispatch
  <2>6. timer_ticks' = IF f = [at |-> "dispatch", int_no |-> 32]
                       THEN (timer_ticks + 1) % TickMod ELSE timer_ticks
    BY <2>3, <2>4, <2>5
  <2>7. isr' = isr /\ UNCHANGED <<irr, imr, offset, tables, if_on, pc, flags, acked>>
    BY <1>2 DEF Dispatch, pics
  <2>8. isr' \subseteq Remaining([f EXCEPT !.at = at])
    BY <2>1, <2>3, <2>7 DEF Remaining, LinesOf, Master, Frame
  <2>9. IInv'
    BY <2>1, <2>2, <2>6, <2>7, <2>8, GoingOnKeepsIInv
  <2>10. QED
    BY <1>2, <2>1, <2>9 DEF Dispatch, EoiSlave, EoiMaster, Handling
<1>3. CASE EoiSlave
  <2>1. PICK f \in Frame : /\ frames = <<f>> /\ f.at = "eoi_slave" /\ Head(frames) = f
                          /\ isr \subseteq Remaining(f) /\ f.int_no >= 40
                          /\ pc \in {"run", "halted"} /\ ~if_on
    BY <1>3, OnGoing DEF EoiSlave
  <2>2. f.int_no \in 40 .. 47 /\ f.at = "eoi_slave" /\ [f EXCEPT !.at = "eoi_master"].int_no = f.int_no
        /\ [f EXCEPT !.at = "eoi_master"].at = "eoi_master"
    BY <2>1 DEF Frame
  <2>3. isr \subseteq LinesOf(f.int_no) /\ isr \cap Slave \subseteq {f.int_no - 32}
    BY <2>1, <2>2 DEF Remaining, LinesOf, Slave, Cascade
  <2>4. Eoi(Slave) = isr \ Slave
    BY <1>1, <2>3, EoiEndsTheOnlyLine
  <2>5. isr' \subseteq isr /\ isr' \subseteq Remaining([f EXCEPT !.at = "eoi_master"])
    BY <1>1, <1>3, <2>2, <2>3, <2>4 DEF EoiSlave, Remaining, Master, Slave
  <2>6. f # [at |-> "dispatch", int_no |-> 32]
    BY <2>1
  <2>7. IInv'
    BY <1>3, <2>1, <2>5, <2>6, GoingOnKeepsIInv DEF EoiSlave
  <2>8. QED
    BY <2>1, <2>3, <2>7
<1>4. CASE EoiMaster
  <2>1. PICK f \in Frame : /\ frames = <<f>> /\ f.at = "eoi_master" /\ Head(frames) = f
                          /\ isr \subseteq Remaining(f) /\ pc \in {"run", "halted"} /\ ~if_on
    BY <1>4, OnGoing DEF EoiMaster
  <2>2. f.int_no \in 32 .. 47 /\ [f EXCEPT !.at = "iret"].at = "iret"
    BY <2>1 DEF Frame
  <2>3. isr \subseteq LinesOf(f.int_no) \cap Master
    BY <2>1 DEF Remaining
  <2>4. \E l : isr \cap Master \subseteq {l}
    <3>1. CASE f.int_no >= 40
      BY <2>2, <2>3, <3>1 DEF LinesOf, Master, Cascade
    <3>2. CASE ~(f.int_no >= 40)
      BY <2>2, <2>3, <3>2 DEF LinesOf
    <3>3. QED
      BY <3>1, <3>2
  <2>5. Eoi(Master) = isr \ Master
    BY <1>1, <2>4, EoiEndsTheOnlyLine
  <2>6. isr' = {}
    BY <1>4, <2>3, <2>5 DEF EoiMaster
  <2>7. f # [at |-> "dispatch", int_no |-> 32]
    BY <2>1
  <2>8. IInv'
    BY <1>4, <2>1, <2>6, <2>7, GoingOnKeepsIInv DEF EoiMaster
  <2>9. QED
    BY <2>1, <2>3, <2>8
<1>5. CASE Iret
  <2>1. PICK f \in Frame : /\ frames = <<f>> /\ f.at = "iret" /\ Tail(frames) = << >>
                          /\ isr \subseteq Remaining(f) /\ pc \in {"run", "halted"} /\ ~if_on
    BY <1>5, OnGoing DEF Iret
  <2>2. frames' = << >> /\ if_on' /\ isr' = {} /\ pc' = "run"
    BY <1>5, <2>1 DEF Iret, pics, Remaining
  <2>3. frames # <<[at |-> "dispatch", int_no |-> 32]>>
    BY <2>1
  <2>4. UNCHANGED <<pics, tables, flags, timer_ticks, acked>>
    BY <1>5 DEF Iret
  <2>5. IInv'
    BY <2>1, <2>2, <2>3, <2>4 DEF pics, tables, IInv, PicsTyped, TablesReady, Unprogrammed, FlagInv, Booting,
       OneFrame, ServiceInv, CountInv
  <2>6. QED
    BY <2>1, <2>5, <1>5 DEF Iret, EoiSlave, EoiMaster, Handling
<1>6. QED
  BY <1>2, <1>3, <1>4, <1>5 DEF HandlerStep

(* The boot steps, in kmain's order: irq_install before sti.               *)
LEMMA BootKeepsIInv ==
  ASSUME IInv, Boot
  PROVE  IInv'
<1> USE DEF ThreadAt, Goto, pics, tables, IInv, PicsTyped, TablesReady, Unprogrammed, FlagInv, Booting,
            OneFrame, ServiceInv, CountInv
<1>1. CASE IdtInstall
  BY <1>1 DEF IdtInstall
<1>2. CASE ExceptionsInstall
  BY <1>2 DEF ExceptionsInstall
<1>3. CASE IrqInstall
  BY <1>3 DEF IrqInstall
<1>4. CASE InstallIrqHandler
  BY <1>4 DEF InstallIrqHandler
<1>5. CASE Sti
  BY <1>5 DEF Sti
<1>6. QED
  BY <1>1, <1>2, <1>3, <1>4, <1>5 DEF Boot

LEMMA ThreadKeepsIInv ==
  ASSUME IInv, SaveAndCli \/ RestoreFlags \/ Hlt \/ SetMasks
  PROVE  IInv'
<1> USE DEF ThreadAt, Goto, pics, tables, IInv, PicsTyped, TablesReady, Unprogrammed, FlagInv, Booting,
            OneFrame, ServiceInv, CountInv
<1>1. CASE SaveAndCli
  BY <1>1 DEF SaveAndCli
<1>2. CASE RestoreFlags
  BY <1>2 DEF RestoreFlags
<1>3. CASE Hlt
  BY <1>3 DEF Hlt
<1>4. CASE SetMasks
  <2>1. Devices \cup {Cascade} \subseteq 0 .. 15
    BY InterruptsAssumption DEF InterruptsAssumption, Cascade
  <2>2. \/ \E l \in Devices \cup {Cascade} : imr' = imr \cup {l}
        \/ \E l \in Devices \cup {Cascade} : imr' = imr \ {l}
        \/ imr' = 0 .. 15
    BY <1>4 DEF SetMasks
  <2>3. imr \subseteq 0 .. 15
    OBVIOUS
  <2>4. imr' \subseteq 0 .. 15
    BY ONLY <2>1, <2>2, <2>3
  <2>5. QED
    BY <1>4, <2>4 DEF SetMasks
<1>5. QED
  BY <1>1, <1>2, <1>3, <1>4

LEMMA NextKeepsIInv == IInv /\ [Next]_vars => IInv'
<1> SUFFICES ASSUME IInv, [Next]_vars PROVE IInv'
  OBVIOUS
<1>1. CASE UNCHANGED vars
  BY <1>1 DEF vars, pics, tables, IInv, PicsTyped, TablesReady, Unprogrammed, FlagInv, Booting,
     OneFrame, ServiceInv, CountInv
<1>2. QED
  BY <1>1, HardwareKeepsIInv, HandlerKeepsIInv, BootKeepsIInv, ThreadKeepsIInv DEF Next

(* The invariant of the whole path, whatever the devices do.               *)
THEOREM InterruptsInvariant == Spec => []IInv
<1>1. QED
  BY InitEstablishesIInv, NextKeepsIInv, PTL DEF Spec

-----------------------------------------------------------------------------
(* The state stays well formed; in particular handlers never nest.         *)
THEOREM InterruptsTypeOK == Spec => []TypeOK
<1>1. ASSUME IInv PROVE TypeOK
  <2>1. irq_handlers \subseteq {0}
    BY <1>1 DEF IInv, TablesReady
  <2>2. pc \in {"idt", "exceptions", "irq", "handler", "sti", "run", "critical", "halted", "dead"}
    BY <1>1 DEF IInv, FlagInv, Booting
  <2>3. /\ Len(frames) <= 1
        /\ \A k \in 1 .. Len(frames) : /\ frames[k].at \in {"dispatch", "eoi_slave", "eoi_master", "iret"}
                                       /\ frames[k].int_no \in 0 .. 255
    <3>1. CASE frames = << >>
      BY <3>1
    <3>2. ASSUME NEW f \in Frame, frames = <<f>> PROVE <2>3
      <4>1. Len(frames) = 1 /\ frames[1] = f
        BY <3>2
      <4>2. f.at \in {"dispatch", "eoi_slave", "eoi_master", "iret"} /\ f.int_no \in 0 .. 255
        BY DEF Frame
      <4>3. QED
        BY <4>1, <4>2
    <3>3. QED
      BY <1>1, <3>1, <3>2 DEF IInv, OneFrame
  <2>4. QED
    BY <1>1, <2>1, <2>2, <2>3 DEF IInv, PicsTyped, TablesReady, FlagInv, CountInv, TypeOK
<1>2. QED
  BY <1>1, InterruptsInvariant, PTL

(* An interrupt of the PICs always finds a gate (kmain's order of the      *)
(* install calls).                                                         *)
THEOREM InterruptsAlwaysGated == Spec => []AlwaysGated
<1>1. IInv => AlwaysGated
  BY DEF IInv, FlagInv, Booting, AlwaysGated
<1>2. QED
  BY <1>1, InterruptsInvariant, PTL

(* With interrupts on and no handler running, nothing is left in service.  *)
THEOREM InterruptsServiceEnded == Spec => []ServiceEnded
<1>1. IInv => ServiceEnded
  BY DEF IInv, ServiceInv, ServiceEnded
<1>2. QED
  BY <1>1, InterruptsInvariant, PTL

(* No EOI ends an interrupt other than the one being handled, not even the *)
(* EOI for a spurious one (irq_handler).                                   *)
THEOREM InterruptsEndsOnlyItsOwn == Spec => EndsOnlyItsOwn
<1> DEFINE EndsOwn == pc # "irq" => \A l \in isr \ isr' : frames # << >> /\ l \in LinesOf(Head(frames).int_no)
<1>1. ASSUME IInv, [Next]_vars PROVE [EndsOwn]_vars
  <2>1. CASE EoiSlave \/ EoiMaster
    <3>1. frames # << >> /\ HandlerStep
      BY <2>1 DEF EoiSlave, EoiMaster, Handling, HandlerStep
    <3>2. QED
      BY <1>1, <2>1, <3>1, HandlerKeepsIInv
  <2>2. CASE IrqInstall
    BY <2>2 DEF IrqInstall, ThreadAt
  <2>3. CASE isr \subseteq isr'
    BY <2>3
  <2>4. QED
    BY <1>1, <2>1, <2>2, <2>3 DEF Next, Hardware, HandlerStep, Boot, Interrupt, SpuriousMaster, SpuriousSlave,
       DeviceRaises, Dispatch, Iret, IdtInstall, ExceptionsInstall, InstallIrqHandler, Sti, SaveAndCli,
       RestoreFlags, Hlt, SetMasks, pics
<1>2. QED
  BY <1>1, InterruptsInvariant, PTL DEF Spec, EndsOnlyItsOwn

(* timer_ticks counts every acknowledged interrupt of line 0 once and      *)
(* nothing else (on_irq0).                                                 *)
THEOREM InterruptsTicksCounted == Spec => []TicksCounted
<1> DEFINE tick == [at |-> "dispatch", int_no |-> 32]
<1>1. ASSUME IInv PROVE TicksCounted
  <2>1. timer_ticks \in 0 .. TickMod - 1 /\ TickMod \in Nat \ {0}
    BY <1>1, InterruptsAssumption DEF IInv, CountInv, InterruptsAssumption
  <2>2. timer_ticks % TickMod = timer_ticks /\ (timer_ticks + 0) % TickMod = timer_ticks
    BY <2>1
  <2>3. CASE frames = << >>
    <3>1. NotYetCounted = {} /\ frames # <<tick>>
      BY <2>3 DEF NotYetCounted
    <3>2. QED
      BY <1>1, <2>2, <3>1 DEF IInv, CountInv, TicksCounted
  <2>4. ASSUME NEW f \in Frame, frames = <<f>> PROVE TicksCounted
    <3>1. Len(frames) = 1 /\ frames[1] = f
      BY <2>4
    <3>2. NotYetCounted = {} <=> f # tick
      BY <3>1 DEF NotYetCounted
    <3>3. frames = <<tick>> <=> f = tick
      BY <2>4
    <3>4. QED
      BY <1>1, <2>2, <3>2, <3>3 DEF IInv, CountInv, TicksCounted
  <2>5. QED
    BY <1>1, <2>3, <2>4 DEF IInv, OneFrame
<1>2. QED
  BY <1>1, InterruptsInvariant, PTL

(* kmalloc and kfree are never interrupted while they hold the free list,  *)
(* and leave interrupts on (save_and_cli, restore_flags).                  *)
THEOREM InterruptsCriticalUndisturbed == Spec => []CriticalUndisturbed
<1>1. IInv => CriticalUndisturbed
  BY DEF IInv, FlagInv, CriticalUndisturbed
<1>2. QED
  BY <1>1, InterruptsInvariant, PTL

=============================================================================
