---------------------------- MODULE TimerProofs -----------------------------
(***************************************************************************)
(* A wait of timer.c is too short by at most one tick, for every request,  *)
(* every start of the tick counter and every interleaving with the timer.  *)
(***************************************************************************)
EXTENDS Timer, TLAPS

Typed ==
  /\ request \in Requests
  /\ hi \in Nat /\ lo \in 0 .. (Word - 1)
  /\ pc \in {"start", "test", "hlt", "halted", "done"}
  /\ DOMAIN seen \subseteq Halves
  /\ elapsed \in Nat /\ torn \in BOOLEAN

Now == hi * Word + lo
Span == (Now - elapsed) .. Now

(* Unless the low half went through zero between the loads of two halves,  *)
(* they are those of a single count taken between the beginning of the     *)
(* wait and now: start_ticks is no earlier than the beginning, no test is  *)
(* later than now.                                                         *)
Counted ==
  /\ DOMAIN seen = {"hi"} => seen["hi"] = hi
  /\ DOMAIN seen = {"lo"} => hi * Word + seen["lo"] \in Span
  /\ DOMAIN seen = Halves => Seen \in Span
  /\ pc # "start" => start \in Span
  /\ pc = "done" => elapsed >= Ticks(request)

TimerInv == Typed /\ (~torn => Counted)

-----------------------------------------------------------------------------
LEMMA SmallRemainder ==
  ASSUME NEW m \in Nat \ {0}, NEW x \in 0 .. (m - 1)
  PROVE  x % m = x
  OBVIOUS

LEMMA TicksIsNat ==
  ASSUME NEW r \in Requests
  PROVE  Ticks(r) \in Nat
<1>1. r.amount \in Nat /\ UintMod \in Nat \ {0}
  BY TimerAssumption DEF TimerAssumption
<1>2. \A x \in Nat : x % UintMod \in Nat /\ x \div 10000 \in Nat /\ x \div 10 \in Nat
  BY <1>1
<1>3. (r.amount + TICK_MICROS - 1) \in Nat /\ r.amount * 100 \in Nat
  BY <1>1 DEF TICK_MICROS
<1>4. QED
  BY <1>1, <1>2, <1>3 DEF Ticks, TICK_MICROS

(* The conversions of timer.h: as many ticks as last the time asked for,   *)
(* but for timer_wait_ms, which rounds down.                               *)
LEMMA TicksLongEnough ==
  ASSUME NEW r \in Requests, Convertible(r)
  PROVE  /\ r.unit # "ms" => Ticks(r) * TICK_MICROS >= Micros(r)
         /\ r.unit = "ms" => Ticks(r) * TICK_MICROS + TICK_MICROS > Micros(r)
<1>1. r.amount \in Nat /\ UintMod \in Nat \ {0} /\ r.unit \in Units
  BY TimerAssumption DEF TimerAssumption
<1>2. CASE r.unit = "ticks"
  BY <1>1, <1>2 DEF Ticks, Micros, TICK_MICROS
<1>3. CASE r.unit = "micros"
  <2>1. r.amount + 9999 \in 0 .. (UintMod - 1)
    BY <1>1, <1>3 DEF Convertible, TICK_MICROS
  <2>2. (r.amount + 9999) % UintMod = r.amount + 9999
    BY <1>1, <2>1, SmallRemainder
  <2>3. Ticks(r) = (r.amount + 9999) \div 10000
    <3>1. r.amount + 10000 - 1 = r.amount + 9999
      BY <1>1
    <3>2. QED
      BY <1>3, <2>2, <3>1 DEF Ticks, TICK_MICROS
  <2>4. ((r.amount + 9999) \div 10000) * 10000 >= r.amount
    BY <1>1
  <2>5. QED
    BY <1>3, <2>3, <2>4 DEF Micros, TICK_MICROS
<1>4. CASE r.unit = "ms"
  <2>1. (r.amount \div 10) * 10000 + 10000 > r.amount * 1000
    BY <1>1
  <2>2. QED
    BY <1>4, <2>1 DEF Ticks, Micros, TICK_MICROS
<1>5. CASE r.unit = "seconds"
  <2>1. (r.amount * 100) % UintMod = r.amount * 100
    <3>1. r.amount * 100 \in 0 .. (UintMod - 1)
      BY <1>1, <1>5 DEF Convertible
    <3>2. QED
      BY <1>1, <3>1, SmallRemainder
  <2>2. QED
    BY <1>1, <1>5, <2>1 DEF Ticks, Micros, TICK_MICROS
<1>6. QED
  BY <1>1, <1>2, <1>3, <1>4, <1>5 DEF Units

-----------------------------------------------------------------------------
LEMMA InitEstablishesTimerInv == Init => TimerInv
<1> SUFFICES ASSUME Init PROVE TimerInv
  OBVIOUS
<1>1. Word \in Nat \ {0, 1} /\ Starts \subseteq Nat
  BY TimerAssumption DEF TimerAssumption
<1>2. PICK t \in Starts : hi = t \div Word /\ lo = t % Word
  BY DEF Init
<1>3. hi \in Nat /\ lo \in 0 .. (Word - 1)
  BY <1>1, <1>2
<1>4. pc = "start" /\ DOMAIN seen = {} /\ elapsed = 0 /\ request \in Requests
  BY DEF Init
<1>5. torn \in BOOLEAN
  BY DEF Init
<1>6. Typed
  BY <1>3, <1>4, <1>5 DEF Typed
<1>7. Counted
  BY <1>3, <1>4 DEF Counted, Halves
<1>8. QED
  BY <1>6, <1>7 DEF TimerInv

(* What a step leaves alone it cannot falsify.                             *)
LEMMA LoadKeepsTimerInv ==
  ASSUME TimerInv, LoadHalf
  PROVE  TimerInv'
<1>1. PICK h \in Halves \ DOMAIN seen :
        seen' = [k \in DOMAIN seen \cup {h} |-> IF k # h THEN seen[k] ELSE IF h = "hi" THEN hi ELSE lo]
  BY DEF LoadHalf
<1>2. pc \in {"start", "test"} /\ UNCHANGED <<request, hi, lo, pc, start, elapsed, torn>>
  BY DEF LoadHalf
<1>3. Typed'
  BY <1>1, <1>2 DEF TimerInv, Typed
<1>4. ASSUME Counted PROVE Counted'
  <2>1. Span' = Span /\ Now \in Span
    <3>1. elapsed \in Nat /\ Now \in Int
      BY TimerAssumption DEF TimerInv, Typed, TimerAssumption, Now
    <3>2. QED
      BY <1>2, <3>1 DEF Span, Now
  <2>2. DOMAIN seen' = DOMAIN seen \cup {h} /\ DOMAIN seen \subseteq Halves \ {h} /\ h \in Halves
    BY <1>1 DEF TimerInv, Typed
  <2>3. CASE DOMAIN seen = {}
    <3>1. CASE h = "hi"
      <4>1. DOMAIN seen' = {"hi"} /\ seen'["hi"] = hi
        BY <1>1, <2>2, <2>3, <3>1
      <4>2. QED
        BY <1>2, <1>4, <2>1, <4>1 DEF Counted, Halves
    <3>2. CASE h = "lo"
      <4>1. DOMAIN seen' = {"lo"} /\ seen'["lo"] = lo
        BY <1>1, <2>2, <2>3, <3>2
      <4>2. QED
        BY <1>2, <1>4, <2>1, <4>1 DEF Counted, Halves, Now
    <3>3. QED
      BY <2>2, <3>1, <3>2 DEF Halves
  <2>4. CASE DOMAIN seen = {"hi"}
    <3>1. h = "lo" /\ DOMAIN seen' = Halves
      BY <2>2, <2>4 DEF Halves
    <3>2. seen'["hi"] = hi /\ seen'["lo"] = lo
      BY <1>1, <1>4, <2>4, <3>1 DEF Counted
    <3>3. Seen' \in Span
      BY <2>1, <3>2 DEF Seen, Now
    <3>4. QED
      BY <1>2, <1>4, <2>1, <3>1, <3>3 DEF Counted, Halves
  <2>5. CASE DOMAIN seen = {"lo"}
    <3>1. h = "hi" /\ DOMAIN seen' = Halves
      BY <2>2, <2>5 DEF Halves
    <3>2. seen'["hi"] = hi /\ seen'["lo"] = seen["lo"]
      BY <1>1, <2>5, <3>1
    <3>3. Seen' \in Span
      BY <1>4, <2>5, <3>2 DEF Counted, Seen
    <3>4. QED
      BY <1>2, <1>4, <2>1, <3>1, <3>3 DEF Counted, Halves
  <2>6. QED
    BY <2>2, <2>3, <2>4, <2>5 DEF Halves
<1>5. QED
  BY <1>2, <1>3, <1>4, Zenon DEF TimerInv

LEMMA StartKeepsTimerInv ==
  ASSUME TimerInv, StartTicks
  PROVE  TimerInv'
<1>1. /\ pc = "start" /\ pc' = "test" /\ Loaded /\ start' = Seen /\ DOMAIN seen' = {}
      /\ UNCHANGED <<request, hi, lo, elapsed, torn>>
  BY DEF StartTicks
<1>2. Typed'
  BY <1>1 DEF TimerInv, Typed
<1>3. ASSUME Counted PROVE Counted'
  <2>1. start' \in Span /\ Span' = Span
    BY <1>1, <1>3 DEF Counted, Loaded, Span, Now
  <2>2. QED
    BY <1>1, <1>3, <2>1 DEF Counted, Halves
<1>4. QED
  BY <1>1, <1>2, <1>3, Zenon DEF TimerInv

LEMMA TestKeepsTimerInv ==
  ASSUME TimerInv, Test
  PROVE  TimerInv'
<1>1. /\ pc = "test" /\ pc' = (IF Waiting THEN "hlt" ELSE "done") /\ Loaded /\ DOMAIN seen' = {}
      /\ UNCHANGED <<request, hi, lo, start, elapsed, torn>>
  BY DEF Test
<1>2. Typed'
  BY <1>1 DEF TimerInv, Typed
<1>3. ASSUME Counted PROVE Counted'
  <2>1. Seen \in Span /\ start \in Span /\ Span' = Span
    BY <1>1, <1>3 DEF Counted, Loaded, Span, Now
  <2>2. elapsed \in Nat /\ Now \in Int /\ Ticks(request) \in Nat
    BY TicksIsNat, TimerAssumption DEF TimerInv, Typed, TimerAssumption, Now
  <2>3. ASSUME ~Waiting PROVE elapsed >= Ticks(request)
    BY <2>1, <2>2, <2>3 DEF Waiting, Span
  <2>4. Ticks(request)' = Ticks(request)
    BY <1>1 DEF Ticks
  <2>5. QED
    BY <1>1, <1>3, <2>1, <2>3, <2>4 DEF Counted, Halves
<1>4. QED
  BY <1>1, <1>2, <1>3, Zenon DEF TimerInv

LEMMA TickKeepsTimerInv ==
  ASSUME TimerInv, Tick
  PROVE  TimerInv'
<1>1. /\ pc # "done" /\ pc' = (IF pc = "halted" THEN "test" ELSE pc)
      /\ lo' = (lo + 1) % Word /\ hi' = (IF lo' = 0 THEN hi + 1 ELSE hi) /\ elapsed' = elapsed + 1
      /\ UNCHANGED <<request, seen, start>>
  BY DEF Tick
<1>2. torn' = (torn \/ (lo' = 0 /\ DOMAIN seen \notin {{}, Halves}))
  BY DEF Tick
<1>3. Typed /\ Word \in Nat \ {0, 1}
  BY TimerAssumption DEF TimerInv, TimerAssumption
<1>4. lo' \in 0 .. (Word - 1) /\ hi' \in Nat /\ elapsed' \in Nat
  BY <1>1, <1>3 DEF Typed
<1>5. torn' \in BOOLEAN
  BY <1>2
<1>6. Typed'
  BY <1>1, <1>3, <1>4, <1>5 DEF Typed
<1>7. Now' = Now + 1 /\ (lo' # 0 => hi' = hi)
  <2>1. CASE lo + 1 = Word
    <3>1. lo' = 0 /\ hi' = hi + 1
      BY <1>1, <1>3, <2>1
    <3>2. (hi + 1) * Word = hi * Word + Word
      BY <1>3 DEF Typed
    <3>3. QED
      BY <1>3, <2>1, <3>1, <3>2 DEF Now, Typed
  <2>2. CASE lo + 1 # Word
    <3>1. lo + 1 \in 0 .. (Word - 1)
      BY <1>3, <2>2 DEF Typed
    <3>2. lo' = lo + 1
      BY <1>1, <1>3, <3>1, SmallRemainder
    <3>3. lo' # 0 /\ hi' = hi
      BY <1>1, <1>3, <3>2 DEF Typed
    <3>4. QED
      BY <1>3, <3>2, <3>3 DEF Now, Typed
  <2>3. QED
    BY <2>1, <2>2
<1>8. \A s \in Span : s \in Span'
  <2>1. Now \in Int /\ elapsed \in Nat
    BY <1>3 DEF Typed, Now
  <2>2. QED
    BY <1>1, <1>7, <2>1 DEF Span
<1>9. ASSUME Counted, lo' # 0 \/ DOMAIN seen \in {{}, Halves} PROVE Counted'
  <2>1. CASE lo' # 0
    <3>1. hi' = hi
      BY <1>7, <2>1
    <3>2. QED
      BY <1>1, <1>8, <1>9, <3>1 DEF Counted, Seen
  <2>2. CASE DOMAIN seen \in {{}, Halves}
    <3>1. DOMAIN seen # {"hi"} /\ DOMAIN seen # {"lo"}
      BY <2>2 DEF Halves
    <3>2. QED
      BY <1>1, <1>8, <1>9, <3>1 DEF Counted, Seen
  <2>3. QED
    BY <1>9, <2>1, <2>2
<1>10. ~torn' => ~torn /\ (lo' # 0 \/ DOMAIN seen \in {{}, Halves})
  BY <1>2
<1>11. QED
  BY <1>6, <1>9, <1>10, Zenon DEF TimerInv

LEMMA NextKeepsTimerInv == TimerInv /\ [Next]_vars => TimerInv'
<1> SUFFICES ASSUME TimerInv, [Next]_vars PROVE TimerInv'
  OBVIOUS
<1>1. ASSUME UNCHANGED <<request, hi, lo, seen, start, elapsed, torn>>,
             pc' = pc \/ (pc # "start" /\ pc' \in {"test", "halted"})
      PROVE  TimerInv'
  <2>1. Typed'
    BY <1>1 DEF TimerInv, Typed
  <2>2. Counted => Counted'
    BY <1>1 DEF Counted, Ticks, Seen, Span, Now
  <2>3. QED
    BY <1>1, <2>1, <2>2, Zenon DEF TimerInv
<1>2. CASE LoadHalf
  BY <1>2, LoadKeepsTimerInv
<1>3. CASE StartTicks
  BY <1>3, StartKeepsTimerInv
<1>4. CASE Test
  BY <1>4, TestKeepsTimerInv
<1>5. CASE Hlt
  BY <1>1, <1>5 DEF Hlt
<1>6. CASE Tick
  BY <1>6, TickKeepsTimerInv
<1>7. CASE OtherIrq
  BY <1>1, <1>7 DEF OtherIrq
<1>8. CASE UNCHANGED vars
  BY <1>1, <1>8 DEF vars
<1>9. QED
  BY <1>2, <1>3, <1>4, <1>5, <1>6, <1>7, <1>8 DEF Next, Thread

(* A wait is too short by at most the tick it begins in (timer_wait_ms by  *)
(* less than two), wherever ticks fall between the loads of the halves of  *)
(* timer_ticks (timer_wait, on_irq0); excepted are the conversions that    *)
(* wrap and a low half that wraps between two loads.                       *)
THEOREM TimerShortByAtMostATick == Spec => []ShortByAtMostATick
<1>1. TimerInv => ShortByAtMostATick
  <2> SUFFICES ASSUME TimerInv, pc = "done", ~torn, Convertible(request)
               PROVE  /\ request.unit # "ms" => Passed + TICK_MICROS >= Micros(request)
                      /\ request.unit = "ms" => Passed + 2 * TICK_MICROS > Micros(request)
    BY DEF ShortByAtMostATick
  <2>1. request \in Requests /\ elapsed \in Nat
    BY DEF TimerInv, Typed
  <2>2. elapsed >= Ticks(request)
    BY DEF TimerInv, Counted
  <2>3. Ticks(request) \in Nat
    BY <2>1, TicksIsNat
  <2>4. elapsed * 10000 >= Ticks(request) * 10000
    BY <2>1, <2>2, <2>3
  <2>5. Passed + 10000 >= elapsed * 10000 /\ Passed \in Int
    BY <2>1 DEF Passed, TICK_MICROS
  <2>6. Micros(request) \in Int
    <3>1. request.amount \in Nat
      BY <2>1, TimerAssumption DEF TimerAssumption
    <3>2. QED
      BY <3>1 DEF Micros, TICK_MICROS
  <2>7. CASE request.unit # "ms"
    <3>1. Ticks(request) * 10000 >= Micros(request)
      BY <2>1, <2>7, TicksLongEnough DEF TICK_MICROS
    <3>2. QED
      BY <2>1, <2>3, <2>4, <2>5, <2>6, <2>7, <3>1 DEF TICK_MICROS
  <2>8. CASE request.unit = "ms"
    <3>1. Ticks(request) * 10000 + 10000 > Micros(request)
      BY <2>1, <2>8, TicksLongEnough DEF TICK_MICROS
    <3>2. QED
      BY <2>1, <2>3, <2>4, <2>5, <2>6, <2>8, <3>1 DEF TICK_MICROS
  <2>9. QED
    BY <2>7, <2>8
<1>2. QED
  BY <1>1, InitEstablishesTimerInv, NextKeepsTimerInv, PTL DEF Spec

=============================================================================
