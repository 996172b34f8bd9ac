------------------------------ MODULE Console -------------------------------
(***************************************************************************)
(* The text console of stage 2 (print.c): one character per step of        *)
(* boot_print, with the wrap at the end of a line and the scroll at the    *)
(* end of the screen.  row, column and the video memory are globals that   *)
(* nothing initializes before init_print_stage2 clears the screen (.bss is *)
(* not part of the binary), so they start with any value.                  *)
(*                                                                         *)
(* A character is a digit (0 to 15) or a model value.  Colours are left    *)
(* out, as is the hardware cursor, which is only moved when the screen is  *)
(* cleared.                                                                *)
(*                                                                         *)
(* boot_print is not alone: the assembly part writes whole lines straight  *)
(* into the same memory (print32.inc), and moves neither row nor column.   *)
(* over is a history variable, the cells that hold such text.              *)
(***************************************************************************)
EXTENDS Integers, Sequences, SequencesExt

CONSTANTS SCREEN_WIDTH, SCREEN_HEIGHT,
          HexDigits,     \* digits of boot_print_hex, 8 in the code
          IntDigits,     \* room for digits in boot_print_int, 10 in the code
          NewLine, Blank, Dot

ASSUME ConsoleAssumption == /\ SCREEN_WIDTH \in Nat \ {0}
                            /\ SCREEN_HEIGHT \in Nat \ {0}
                            /\ HexDigits \in Nat /\ IntDigits \in Nat
                            /\ NewLine # Blank

VARIABLES videoMem,      \* rows of characters
          row, column,
          str,           \* what is still to be printed
          meant,         \* how its callers mean it to be read
          lines,         \* what should be on the screen: the last lines
          over           \* in each row, the columns written past boot_print

consoleVars == <<videoMem, row, column, str, meant, lines, over>>

Rows    == 0..(SCREEN_HEIGHT - 1)
Columns == 0..(SCREEN_WIDTH - 1)

BlankLine == [c \in Columns |-> Blank]
Nowhere   == [r \in Rows |-> {}]

-----------------------------------------------------------------------------
(* Numbers.                                                                *)

\* The last n digits; both routines fill their buffer from the back.
Digits(value, n, base) == [i \in 1..n |-> (value \div base^(n - i)) % base]

\* The loop of boot_print_int stops when nothing is left of the value, or when
\* the buffer is full.
DigitCount(value) == Min({n \in 1..IntDigits : value < 10^n} \cup {IntDigits})

\* Faulty variant: the digits of a number come out in the wrong order.
IntStringReversed(value) == Reverse(Digits(value, DigitCount(value), 10))

IntString(value) == IF value = 0 THEN <<0>> ELSE Digits(value, DigitCount(value), 10)

HexString(value) == Digits(value, HexDigits, 16)

-----------------------------------------------------------------------------
(* boot_print.                                                             *)

\* Faulty variants: scrolled one line late, row kept by the clear.
FullLate(r) == r > SCREEN_HEIGHT

ClearRowKept == /\ videoMem' = [r \in Rows |-> BlankLine]
                /\ column' = 0
                /\ row' = row
                /\ over' = Nowhere

boot_clear_screen == /\ videoMem' = [r \in Rows |-> BlankLine]
                     /\ row' = 0
                     /\ column' = 0
                     /\ over' = Nowhere

\* boot_scroll: every row is the one below it, the last one is new.
Up(rows, last) == [r \in Rows |-> IF r + 1 \in Rows THEN rows[r + 1] ELSE last]
Scrolled(mem)  == Up(mem, BlankLine)

Full(r) == r >= SCREEN_HEIGHT

\* The cursor goes to row r; the screen is scrolled if that is below it.
MoveTo(r, c, mem, marks) ==
  /\ column' = c
  /\ IF Full(r) THEN /\ videoMem' = Scrolled(mem) /\ over' = Up(marks, {})
                     /\ row' = SCREEN_HEIGHT - 1
                ELSE videoMem' = mem /\ over' = marks /\ row' = r

PutNewLine == Head(str) = NewLine /\ MoveTo(row + 1, 0, videoMem, over)

PutCharacter ==
  /\ Head(str) # NewLine
  /\ LET mem   == [videoMem EXCEPT ![row][column] = Head(str)]
         marks == [over EXCEPT ![row] = @ \ {column}] IN
       IF column + 1 >= SCREEN_WIDTH THEN MoveTo(row + 1, 0, mem, marks)
                                     ELSE MoveTo(row, column + 1, mem, marks)

(* A line of text ends with a newline or when it is full; of the lines the *)
(* screen keeps the last ones.                                             *)
Extended(line, ch) ==
  IF ch = NewLine THEN <<line, <<>>>>
  ELSE IF Len(line) + 1 = SCREEN_WIDTH THEN <<Append(line, ch), <<>>>>
  ELSE <<Append(line, ch)>>

Tailing(ls) == SubSeq(ls, 1 + Max({0, Len(ls) - SCREEN_HEIGHT}), Len(ls))

boot_print == /\ str # <<>>
              /\ PutNewLine \/ PutCharacter
              /\ str' = Tail(str)
              /\ meant' = Tail(meant)
              /\ lines' = Tailing(Front(lines) \o Extended(Last(lines), Head(meant)))

\* A caller asks for string, and means it to be read as reading.
Say(string, reading) == /\ str = <<>>
                        /\ str' = string /\ meant' = reading
                        /\ UNCHANGED <<videoMem, row, column, lines, over>>

\* print_fixed_size_string and PrintString32: size characters from the left
\* border of a row.
WriteOver(r, size) ==
  LET written == {c \in Columns : c < size} IN
    /\ videoMem' = [videoMem EXCEPT
                      ![r] = [c \in Columns |-> IF c \in written THEN Dot ELSE @[c]]]
    /\ over' = [over EXCEPT ![r] = @ \cup written]
    /\ UNCHANGED <<row, column, str, meant, lines>>

-----------------------------------------------------------------------------
(* What a number should look like: the digits that denote it in the base,  *)
(* without a leading zero or padded to a length.                           *)

Value(digits, base) ==
  FoldLeft(LAMBDA sum, digit : base * sum + digit, 0, digits)

Numeral(value, lengths, base) ==
  CHOOSE digits \in UNION {[1..n -> 0..(base - 1)] : n \in lengths} :
    /\ Value(digits, base) = value
    /\ Len(digits) > 1 /\ digits[1] = 0 => Cardinality(lengths) = 1

Decimal(value) == Numeral(value, 1..3, 10)
Hex(value)     == Numeral(value, {HexDigits}, 16)

Padded(line) ==
  [c \in Columns |-> IF c < Len(line) THEN line[c + 1] ELSE Blank]

\* Where nothing was written over them the screen shows the lines, and the
\* next character goes behind the last.
Expected(ls, r) == IF r < Len(ls) THEN Padded(ls[r + 1]) ELSE BlankLine

Shown(mem, marks, ls) ==
  \A r \in Rows : \A c \in Columns \ marks[r] : mem[r][c] = Expected(ls, r)[c]

ShowsLines == /\ Shown(videoMem, over, lines)
              /\ row = Len(lines) - 1
              /\ column = Len(Last(lines))
=============================================================================
