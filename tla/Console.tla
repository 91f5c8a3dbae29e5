------------------------------ MODULE Console -------------------------------
(***************************************************************************)
(* printf (vga.c) on the text screen and serial_printf (serial.c) on COM1: *)
(* the conversions, the cursor, wrapping and scrolling, and the polled     *)
(* UART, which sends while the program goes on.  A call is one format      *)
(* directive with its argument, or a text; its characters are then written *)
(* one by one.  "BS" stands for '\b'.                                      *)
(***************************************************************************)
EXTENDS Integers, FiniteSets, SequencesExt, TLC

CONSTANTS
  VGA_WIDTH, VGA_HEIGHT,
  Texts,       (* sequences of characters: format texts, %s and %c         *)
  Numbers,     (* arguments of the numeric directives: int and unsigned    *)
  FifoSize,    (* bytes the UART's transmit FIFO holds                     *)
  MaxCalls     (* bound: number of calls                                   *)

(* The cursor registers of the CRT controller have 16 bits together.       *)
ASSUME ConsoleAssumption ==
  /\ VGA_WIDTH \in Nat \ {0} /\ VGA_HEIGHT \in Nat \ {0} /\ VGA_WIDTH * VGA_HEIGHT <= 65536
  /\ FifoSize \in Nat \ {0}
  /\ \A t \in Texts : t \in Seq(STRING) /\ t # << >>
  /\ \A n \in Numbers : n \in Int /\ n \div 65536 >= -32768 /\ n \div 65536 <= 65535

VARIABLES
  screen,  (* [vga, row, col]: VGA memory, cursor_row and cursor_col       *)
  hw,      (* the position in the CRT controller's cursor registers        *)
  paper,   (* what has been printed, on paper without end                  *)
  said,    (* the last call: device, directive, argument and characters    *)
  todo,    (* the characters the call has yet to write                     *)
  uart,    (* [ready, dlab, fifo]: COM1                                    *)
  line,    (* what it has sent since serial_init                           *)
  owed,    (* what serial_printf was given since then                      *)
  calls    (* number of calls                                              *)

console_vars == <<screen, hw, paper, said, todo, uart, line, owed, calls>>

Cells == 0 .. (VGA_WIDTH * VGA_HEIGHT - 1)
Ground == "."     \* left by the BIOS
Blank == " "

INT_MIN == -2147483647 - 1
Unset == -1

ConsoleInit ==
  /\ screen = [vga |-> [i \in Cells |-> Ground], row |-> 0, col |-> 0]
  /\ hw = Unset
  /\ paper = [ground |-> Ground, row |-> 0, col |-> 0, ink |-> << >>]
  /\ said = [on |-> "screen", how |-> "text", arg |-> << >>, text |-> << >>]
  /\ todo = << >> /\ line = << >> /\ owed = << >> /\ calls = 0
  /\ uart \in [ready : {FALSE}, dlab : BOOLEAN, fifo : {<< >>}]

-----------------------------------------------------------------------------
(* put_char: the character, then the wrap, then the scroll.                *)
NewLine(s) == [vga |-> s.vga, row |-> s.row + 1, col |-> 0]

Placed(s, c) ==
  CASE c = "\n" -> NewLine(s)
    [] c = "\r" -> [s EXCEPT !.col = 0]
    [] c = "\t" -> [s EXCEPT !.col = ((@ + 4) \div 4) * 4]
    [] c = "BS" -> [s EXCEPT !.col = IF @ > 0 THEN @ - 1 ELSE @]
    [] OTHER -> [s EXCEPT !.vga[s.row * VGA_WIDTH + s.col] = c, !.col = @ + 1]

Wrapped(s) == IF s.col >= VGA_WIDTH THEN NewLine(s) ELSE s

\* Mutation: the last line is not cleared.
Scrolled_LastLineStays(s) ==
  IF s.row < VGA_HEIGHT THEN s
  ELSE [vga |-> [i \in Cells |-> IF i + VGA_WIDTH \in Cells THEN s.vga[i + VGA_WIDTH] ELSE s.vga[i]],
        row |-> VGA_HEIGHT - 1, col |-> 0]
Scrolled(s) ==
  IF s.row < VGA_HEIGHT THEN s
  ELSE [vga |-> [i \in Cells |-> IF i + VGA_WIDTH \in Cells THEN s.vga[i + VGA_WIDTH] ELSE Blank],
        row |-> VGA_HEIGHT - 1, col |-> 0]

put_char(s, c) == Scrolled(Wrapped(Placed(s, c)))

set_cursor(row, col) == hw' = (row * VGA_WIDTH + col) % 65536

-----------------------------------------------------------------------------
(* The conversions.  The loops over num % base fill a buffer from the last *)
(* digit on, which is then written backwards; 0 is a case of its own.      *)
(* Numbers of 32 bits are used up in 13 rounds, one more than print_int's  *)
(* buffer has room for.                                                    *)
Lower == <<"0", "1", "2", "3", "4", "5", "6", "7", "8", "9", "a", "b", "c", "d", "e", "f">>
Upper == <<"0", "1", "2", "3", "4", "5", "6", "7", "8", "9", "A", "B", "C", "D", "E", "F">>

Digits(num, base, digits) ==
  LET rest[k \in 0 .. 12] == IF k = 0 THEN num ELSE rest[k - 1] \div base
      length == Cardinality({k \in 0 .. 12 : rest[k] > 0})
  IN [k \in 1 .. length |-> digits[(rest[length - k] % base) + 1]]

\* Mutation: the buffer is written as it was filled.
Unsigned_Forwards(num, base, digits) ==
  IF num = 0 THEN <<"0">> ELSE Reverse(Digits(num, base, digits))
Unsigned(num, base, digits) == IF num = 0 THEN <<"0">> ELSE Digits(num, base, digits)

Signed(num) == IF num < 0 THEN <<"-">> \o Unsigned(-num, 10, Lower) ELSE Unsigned(num, 10, Lower)

(* -INT_MIN is not an int: what print_int does with it is undefined.  The  *)
(* program is compiled to negate and then either finds num > 0 false or,   *)
(* as it knows that num is not negative, converts one digit: '0' - 8.      *)
print_int(num) == IF num = INT_MIN THEN {<<"-">>, <<"-", "(">>} ELSE {Signed(num)}

(* serial_putnum_signed negates it as a signed number, too, and converts   *)
(* only the result.  Its ten digits are right if the divisions that follow *)
(* are unsigned, as written; with signed ones, which a compiler that takes *)
(* -num for positive may use, they come from before the table of digits.   *)
Unknown == "?"
serial_putnum_signed(num) ==
  IF num = INT_MIN
  THEN {<<"-">> \o Digits(214748364, 10, Lower) \o <<"8">>, <<"-">> \o [k \in 1 .. 10 |-> Unknown]}
  ELSE {Signed(num)}

(* print_ptr: always eight digits.                                         *)
print_ptr(num) ==
  LET rest[k \in 0 .. 7] == IF k = 0 THEN num ELSE rest[k - 1] \div 16
  IN <<"0", "x">> \o [k \in 1 .. 8 |-> Lower[(rest[8 - k] % 16) + 1]]

Null == <<"(", "n", "u", "l", "l", ")">>

(* What does not depend on the device: a text, %s, %c and %%, an unknown   *)
(* directive written as it stands, a null string.                          *)
Plain ==
  [how : {"text"}, arg : Texts] \cup [how : {"s"}, arg : Texts \cup {Null}]
  \cup {[how |-> "c", arg |-> <<t[1]>>] : t \in Texts}
  \cup {[how |-> "%", arg |-> <<"%">>], [how |-> "other", arg |-> <<"%", "q">>]}

(* %d takes an int, the others an unsigned one.                            *)
Numeric ==
  [how : {"d"}, arg : {n \in Numbers : n \div 65536 < 32768}]
  \cup [how : {"u", "x", "X", "p"}, arg : Numbers \cap Nat]

OnScreen(call) ==
  CASE call.how = "d" -> print_int(call.arg)
    [] call.how = "u" -> {Unsigned(call.arg, 10, Lower)}
    [] call.how = "x" -> {Unsigned(call.arg, 16, Lower)}
    [] call.how = "X" -> {Unsigned(call.arg, 16, Upper)}
    [] call.how = "p" -> {print_ptr(call.arg)}
    [] OTHER -> {call.arg}

OnSerial(call) ==
  CASE call.how = "d" -> serial_putnum_signed(call.arg)
    [] call.how = "u" -> {Unsigned(call.arg, 10, Lower)}
    [] call.how = "x" -> {Unsigned(call.arg, 16, Lower)}
    [] call.how = "X" -> {Unsigned(call.arg, 16, Upper)}
    [] call.how = "p" -> {<<"0", "x">> \o Unsigned(call.arg, 16, Lower)}
    [] OTHER -> {call.arg}

-----------------------------------------------------------------------------
(* The paper: the same characters, but every row is kept.                  *)
Stop(col) == CHOOSE t \in (col + 1) .. (col + 4) : t % 4 = 0
NextRow(p) == [ground |-> p.ground, row |-> p.row + 1, col |-> 0, ink |-> p.ink]
Written(p, c) ==
  [x \in DOMAIN p.ink \cup {<<p.row, p.col>>} |-> IF x = <<p.row, p.col>> THEN c ELSE p.ink[x]]
Moved(p, c) ==
  CASE c = "\r" -> [p EXCEPT !.col = 0]
    [] c = "\t" -> [p EXCEPT !.col = Stop(@)]
    [] c = "BS" -> [p EXCEPT !.col = IF @ = 0 THEN 0 ELSE @ - 1]
    [] OTHER -> [p EXCEPT !.ink = Written(p, c), !.col = @ + 1]
Typed(p, c) ==
  IF c = "\n" \/ Moved(p, c).col >= VGA_WIDTH THEN NextRow(IF c = "\n" THEN p ELSE Moved(p, c))
  ELSE Moved(p, c)

Call == calls < MaxCalls /\ todo = << >> /\ calls' = calls + 1

Say(device, call, text) ==
  /\ Call /\ todo' = text
  /\ said' = [on |-> device, how |-> call.how, arg |-> call.arg, text |-> text]

(* printf and print.                                                       *)
printf(call) ==
  /\ \E text \in OnScreen(call) : Say("screen", call, text)
  /\ UNCHANGED <<screen, hw, paper, uart, line, owed>>

(* The next character; set_cursor after the last one.                      *)
Put ==
  /\ said.on = "screen" /\ todo # << >>
  /\ screen' = put_char(screen, Head(todo)) /\ todo' = Tail(todo)
  /\ paper' = Typed(paper, Head(todo))
  /\ IF todo' = << >> THEN set_cursor(screen'.row, screen'.col) ELSE hw' = hw
  /\ UNCHANGED <<said, uart, line, owed, calls>>

clear_screen ==
  /\ Call
  /\ screen' = [vga |-> [i \in Cells |-> Blank], row |-> 0, col |-> 0]
  /\ paper' = [ground |-> Blank, row |-> 0, col |-> 0, ink |-> << >>]
  /\ set_cursor(0, 0)
  /\ UNCHANGED <<said, todo, uart, line, owed>>

(* The divisor is written with DLAB set, which the next write to the line  *)
(* control register clears; 0xC7 empties the FIFO.                         *)
serial_init ==
  /\ Call
  /\ uart' = [ready |-> TRUE, dlab |-> FALSE, fifo |-> << >>]
  /\ line' = << >> /\ owed' = << >>
  /\ UNCHANGED <<screen, hw, paper, said, todo>>

(* Callers initialise the port first.                                      *)
serial_printf(call) ==
  /\ uart.ready /\ \E text \in OnSerial(call) : Say("serial", call, text)
  /\ owed' = owed \o todo'
  /\ UNCHANGED <<screen, hw, paper, uart, line>>

(* The UART takes a byte to the FIFO, if there is room, or to the divisor. *)
Received(c) == IF uart.dlab \/ Len(uart.fifo) = FifoSize THEN uart.fifo ELSE Append(uart.fifo, c)

(* The transmitter holding register is empty.                              *)
\* Mutation: the line status is not looked at.
serial_write_NoPoll ==
  /\ said.on = "serial" /\ todo # << >>
  /\ uart' = [uart EXCEPT !.fifo = Received(Head(todo))]
  /\ todo' = Tail(todo)
  /\ UNCHANGED <<screen, hw, paper, said, line, owed, calls>>
serial_write ==
  /\ said.on = "serial" /\ todo # << >> /\ uart.fifo = << >>
  /\ uart' = [uart EXCEPT !.fifo = Received(Head(todo))]
  /\ todo' = Tail(todo)
  /\ UNCHANGED <<screen, hw, paper, said, line, owed, calls>>

UartSends ==
  /\ uart.fifo # << >>
  /\ line' = Append(line, Head(uart.fifo))
  /\ uart' = [uart EXCEPT !.fifo = Tail(@)]
  /\ UNCHANGED <<screen, hw, paper, said, todo, owed, calls>>

ConsoleNext ==
  \/ \E call \in Plain \cup Numeric : printf(call) \/ serial_printf(call)
  \/ Put \/ clear_screen \/ serial_init \/ serial_write \/ UartSends

ConsoleSpec == ConsoleInit /\ [][ConsoleNext]_console_vars

-----------------------------------------------------------------------------
(* The screen shows the last rows of everything printed since it was       *)
(* cleared, after every character, and both cursors, printf's and, between *)
(* calls, the controller's, are where the next character goes: through any *)
(* mixture of tabs, backspaces, carriage returns, wraps and scrolls        *)
(* (put_char writes vga[position] before it brings the cursor back into    *)
(* range).                                                                 *)
Top(p) == IF p.row < VGA_HEIGHT THEN 0 ELSE p.row - VGA_HEIGHT + 1
Inked(p, r, c) ==
  IF <<r, c>> \in DOMAIN p.ink THEN p.ink[<<r, c>>]
  ELSE IF r < VGA_HEIGHT THEN p.ground ELSE Blank
ScreenShowsTail ==
  /\ screen.vga = [i \in Cells |-> Inked(paper, Top(paper) + i \div VGA_WIDTH, i % VGA_WIDTH)]
  /\ screen.row = paper.row - Top(paper) /\ screen.col = paper.col
  /\ said.on = "serial" \/ todo = << >> =>
       hw \in {Unset, screen.row * VGA_WIDTH + screen.col}

(* A number printed by any directive on either device reads back as that   *)
(* number, and its digits fit the buffers of vga.c (12 decimal, 9 hex).    *)
(* INT_MIN, which both negate, is the exception.                           *)
ValueOf(c) == (CHOOSE k \in 1 .. 16 : Lower[k] = c \/ Upper[k] = c) - 1
ReadBack(text, base) ==
  LET value[k \in 0 .. Len(text)] == IF k = 0 THEN 0 ELSE value[k - 1] * base - ValueOf(text[k])
  IN value[Len(text)]
NumbersRight ==
  LET t == said.text
      n == said.arg
  IN said.how \in {"d", "u", "x", "X", "p"} =>
       \/ n = INT_MIN
       \/ said.how = "d" /\ n < 0 /\ t[1] = "-" /\ ReadBack(Tail(t), 10) = n /\ Len(t) <= 13
       \/ said.how \in {"d", "u"} /\ n >= 0 /\ ReadBack(t, 10) = -n /\ Len(t) <= 12
       \/ said.how \in {"x", "X"} /\ ReadBack(t, 16) = -n /\ Len(t) <= 9
       \/ said.how = "p" /\ SubSeq(t, 1, 2) = <<"0", "x">> /\ ReadBack(SubSeq(t, 3, Len(t)), 16) = -n

(* No character is lost, doubled or overtaken between serial_printf and    *)
(* the line, however slowly the UART sends.                                *)
SerialInOrder ==
  uart.ready => line \o uart.fifo \o (IF said.on = "serial" THEN todo ELSE << >>) = owed

=============================================================================
