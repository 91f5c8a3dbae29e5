-------------------------------- MODULE Timer --------------------------------
(***************************************************************************)
(* One wait of the kernel's thread (timer.c, timer.h) against the timer    *)
(* interrupt.  timer_ticks is a uint64_t that a 32-bit machine loads in    *)
(* two halves; on_irq0 runs with interrupts off and so counts in one step. *)
(* The interrupt may come between any two steps of the thread, between     *)
(* the test of the loop and its hlt too.                                   *)
(***************************************************************************)
EXTENDS Integers

CONSTANTS
  Word,      (* values of a 32-bit half: 2^32                                *)
  UintMod,   (* values of the uint32_t arguments: 2^32, chosen apart         *)
  Starts,    (* what timer_ticks may be when the wait begins                 *)
  Requests   (* the waits asked for: [unit, amount]                          *)

Units == {"ticks", "micros", "ms", "seconds"}

ASSUME TimerAssumption ==
  /\ Word \in Nat \ {0, 1} /\ UintMod \in Nat \ {0} /\ Starts \subseteq Nat
  /\ Requests \subseteq [unit : Units, amount : 0 .. (UintMod - 1)]

TICK_MICROS == 10000     \* init_timer: about 100 Hz

VARIABLES
  request,   (* the wait asked for                                           *)
  hi, lo,    (* the halves of timer_ticks                                    *)
  pc,        (* where timer_wait is                                          *)
  seen,      (* the halves the thread has loaded for the value it wants      *)
  start,     (* start_ticks                                                  *)
  recent,    (* a tick has come since the thread's last step                 *)
  elapsed,   (* ticks since the wait began                                   *)
  torn       (* the low half went through zero between two loads of a value  *)

vars == <<request, hi, lo, pc, seen, start, recent, elapsed, torn>>

(* timer_wait_micros rounds up, timer_wait_ms down; sums and products are  *)
(* those of uint32_t.                                                      *)
Ticks(r) ==
  IF r.unit = "micros" THEN ((r.amount + TICK_MICROS - 1) % UintMod) \div TICK_MICROS
  ELSE IF r.unit = "ms" THEN r.amount \div 10
  ELSE IF r.unit = "seconds" THEN (r.amount * 100) % UintMod
  ELSE r.amount

Init ==
  /\ request \in Requests
  /\ \E t \in Starts : hi = t \div Word /\ lo = t % Word
  /\ pc = "start" /\ seen = << >> /\ start = 0
  /\ recent = FALSE /\ elapsed = 0 /\ torn = FALSE

Halves == {"hi", "lo"}

(* The compiler is free to load either half first.                         *)
LoadHalf ==
  /\ pc \in {"start", "test"}
  /\ \E h \in Halves \ DOMAIN seen :
       seen' = [k \in DOMAIN seen \cup {h} |-> IF k # h THEN seen[k] ELSE IF h = "hi" THEN hi ELSE lo]
  /\ recent' = FALSE
  /\ UNCHANGED <<request, hi, lo, pc, start, elapsed, torn>>

Loaded == DOMAIN seen = Halves
Seen == seen["hi"] * Word + seen["lo"]

StartTicks ==
  /\ pc = "start" /\ Loaded
  /\ start' = Seen /\ seen' = << >> /\ pc' = "test"
  /\ recent' = FALSE
  /\ UNCHANGED <<request, hi, lo, elapsed, torn>>

(* timer_ticks < start_ticks + ticks; 64 bits do not overflow.             *)
\* Mutation: one tick too few.
Waiting_OffByOne == Seen + 1 < start + Ticks(request)
Waiting == Seen < start + Ticks(request)

Test ==
  /\ pc = "test" /\ Loaded
  /\ seen' = << >> /\ pc' = IF Waiting THEN "hlt" ELSE "done"
  /\ recent' = FALSE
  /\ UNCHANGED <<request, hi, lo, start, elapsed, torn>>

Hlt ==
  /\ pc = "hlt" /\ pc' = "halted"
  /\ recent' = FALSE
  /\ UNCHANGED <<request, hi, lo, seen, start, elapsed, torn>>

(* IRQ 0 and on_irq0.  The thread is much faster than the timer: at most   *)
(* one tick comes between two of its steps, unless it is halted.           *)
\* Mutation: the tick is not counted.
Tick_NotCounted ==
  /\ pc # "done" /\ (recent => pc = "halted")
  /\ recent' = TRUE
  /\ pc' = IF pc = "halted" THEN "test" ELSE pc
  /\ UNCHANGED <<request, hi, lo, seen, start, elapsed, torn>>
Tick ==
  /\ pc # "done" /\ (recent => pc = "halted")
  /\ lo' = (lo + 1) % Word /\ hi' = IF lo' = 0 THEN hi + 1 ELSE hi
  /\ elapsed' = elapsed + 1 /\ torn' = (torn \/ (lo' = 0 /\ DOMAIN seen \notin {{}, Halves}))
  /\ recent' = TRUE
  /\ pc' = IF pc = "halted" THEN "test" ELSE pc
  /\ UNCHANGED <<request, seen, start>>

(* Any other interrupt ends a hlt as well.                                 *)
OtherIrq ==
  /\ pc = "halted" /\ pc' = "test"
  /\ UNCHANGED <<request, hi, lo, seen, start, recent, elapsed, torn>>

Thread == LoadHalf \/ StartTicks \/ Test \/ Hlt
Next == Thread \/ Tick \/ OtherIrq

(* Nothing but handlers keeps the thread from running, and the timer goes  *)
(* on for ever.                                                            *)
Spec == Init /\ [][Next]_vars /\ WF_vars(Thread) /\ WF_vars(Tick)

-----------------------------------------------------------------------------
TypeOK ==
  /\ request \in Requests
  /\ hi \in Nat /\ lo \in 0 .. Word - 1
  /\ pc \in {"start", "test", "hlt", "halted", "done"}
  /\ DOMAIN seen \subseteq Halves /\ \A h \in DOMAIN seen : seen[h] \in Nat
  /\ start \in Nat /\ elapsed \in Nat
  /\ recent \in BOOLEAN /\ torn \in BOOLEAN

(* The arguments whose conversion to ticks does not wrap.                  *)
Convertible(r) ==
  /\ r.unit = "micros" => r.amount + TICK_MICROS <= UintMod
  /\ r.unit = "seconds" => r.amount * 100 < UintMod

Micros(r) ==
  IF r.unit = "micros" THEN r.amount
  ELSE IF r.unit = "ms" THEN r.amount * 1000
  ELSE IF r.unit = "seconds" THEN r.amount * 1000000
  ELSE r.amount * TICK_MICROS

(* What has passed for certain when elapsed ticks have come: the first may *)
(* have come at once.                                                      *)
Passed == IF elapsed = 0 THEN 0 ELSE (elapsed - 1) * TICK_MICROS

(* A wait is too short by at most one tick, the one it begins in, wherever *)
(* ticks fall between its loads; timer_wait_ms loses what is less than a   *)
(* tick on top of that.  Two cases are excepted and do end too early: a    *)
(* conversion that wraps, and a low half that wraps between two loads.     *)
ShortByAtMostATick ==
  pc = "done" /\ ~torn /\ Convertible(request) =>
    /\ request.unit # "ms" => Passed + TICK_MICROS >= Micros(request)
    /\ request.unit = "ms" => Passed + 2 * TICK_MICROS > Micros(request)

(* Every wait ends: a tick between the test and hlt is not the last one.   *)
WaitReturns == <>(pc = "done")

=============================================================================
