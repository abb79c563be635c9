------------------------------- MODULE Screen -------------------------------
(***************************************************************************)
(* Terminal output, kernel/dev/tty.c: tty_writechar() and the calls around *)
(* the cursor, with the echo that kbd_irq() writes by the same function.   *)
(*                                                                         *)
(* The cursor lives in two byte registers of the VGA, reached through an   *)
(* index port and a data port.  The thread can be interrupted between any  *)
(* two port accesses and any two cells it stores; the handler runs as one  *)
(* step and leaves the index port where its own last access put it.        *)
(* A cell is its character; colours are left out.                          *)
(***************************************************************************)
EXTENDS Integers, Sequences

CONSTANTS
  W, H,      \* VGA_WIDTH and VGA_HEIGHT: 80, 25
  TabStop,   \* 8
  Byte,      \* 256: values of a register
  Letters,   \* what printing keys produce
  Output,    \* the printing characters the kernel writes
  MaxLine,   \* bound: letters of a line
  MaxKeys,   \* bound: keys of the impatient user
  MaxCalls   \* bound: calls of the thread

Blank == " "
LF    == "LF"
CR    == "CR"
TAB   == "TAB"
BS    == "BS"

ASSUME SizeAssumption ==
  /\ W \in Nat \ {0} /\ H \in Nat \ {0}
  /\ Byte \in Nat \ {0} /\ W * H < Byte * Byte
ASSUME TabAssumption == TabStop \in Nat \ {0}
ASSUME LineAssumption ==      \* 511 letters, 24 rows of 80
  MaxLine \in Nat /\ MaxLine <= (H - 1) * W
ASSUME GlyphAssumption ==     \* nor the names of the other requests
  (Letters \cup Output) \cap {LF, CR, TAB, BS, "clear", "move", "read", "none"} = {}
ASSUME ScreenBoundAssumption == MaxKeys \in Nat /\ MaxCalls \in Nat

Cells == W * H
Cell  == 0 .. (Cells - 1)
Word  == Byte * Byte           \* values of a uint16_t
Regs  == {"hi", "lo"}          \* 0xE and 0xF

VARIABLES
  mem,       \* the cells from VGA_BASE
  index,     \* what was last written to VGA_CMD
  reg,       \* the two registers behind VGA_DATA
  pc,        \* where the thread is: "out", "read" in tty_read(), or writing
  ch,        \* the character it writes, or "clear" or "move"
  cur, off,  \* tty_writechar()'s current, tty_update_cursor()'s offset
  k,         \* the cell its loop has come to
  line,      \* the letters kbd_irq() has put into its buffer
  ahead,     \* 1: keys may come at any time; 0: only in tty_read()
  old,       \* the text and cursor when the call began
  hit,       \* 1: an echo fell into this call
  mixed,     \* 1: into an earlier one, and the screen was not cleared since
  stray,     \* 1: something was stored outside the screen
  keys, calls

Locals == <<ch, cur, off, k, old, hit>>
vars == <<mem, index, reg, pc, Locals, line, ahead, mixed, stray, keys, calls>>

NoText == [mem |-> [n \in Cell |-> Blank], cursor |-> 0]

Cursor == reg["hi"] * Byte + reg["lo"]

(* The registers that hold an offset.                                      *)
Divided(at) == [r \in Regs |-> IF r = "hi" THEN at \div Byte ELSE at % Byte]

(***************************************************************************)
(* tty_writechar() as a function: what it stores, and where it goes.       *)
(***************************************************************************)

(* A bug for the properties: a backspace erases and does not go back.      *)
SwitchedStays(c, at) ==
  CASE c = LF -> <<0, at \div W + 1>>
    [] c = CR -> <<0, at \div W>>
    [] c = TAB -> <<((at % W) \div TabStop + 1) * TabStop, at \div W>>
    [] c = BS -> <<at % W, at \div W>>
    [] OTHER    -> <<(at % W) + 1, at \div W>>

(* A bug for the properties: a tab adds to the column and aligns nothing.  *)
SwitchedTab(c, at) ==
  CASE c = LF -> <<0, at \div W + 1>>
    [] c = CR -> <<0, at \div W>>
    [] c = TAB -> <<(at % W) + TabStop, at \div W>>
    [] c = BS -> <<(at % W) - 1, at \div W>>
    [] OTHER    -> <<(at % W) + 1, at \div W>>

(* x and y after the switch, and after the two tests behind it.            *)
Switched(c, at) ==
  CASE c = LF -> <<0, at \div W + 1>>
    [] c = CR -> <<0, at \div W>>
    [] c = TAB -> <<((at % W) \div TabStop + 1) * TabStop, at \div W>>
    [] c = BS -> <<(at % W) - 1, at \div W>>
    [] OTHER    -> <<(at % W) + 1, at \div W>>

Moved(c, at) ==
  LET s == Switched(c, at)
  IN  CASE s[1] >= W -> <<0, s[2] + 1>>
        [] s[1] < 0  -> <<s[1] + W, s[2] - 1>>
        [] OTHER     -> s

Scrolls(c, at) == Moved(c, at)[2] >= H

(* A bug for the properties: y is left behind the last row.                *)
CoordUnclamped(c, at) == (Moved(c, at)[2] * W + Moved(c, at)[1]) % Word

(* VGA_COORD(x,y) as the uint16_t it is passed as.                         *)
Coord(c, at) ==
  LET m == Moved(c, at)
  IN  ((IF m[2] >= H THEN H - 1 ELSE m[2]) * W + m[1]) % Word

(* The cell that is stored to, -1 if there is none to be stored.           *)
Stores(c)     == c \notin {LF, CR, TAB}
Target(c, at) == IF c = BS THEN at - 1 ELSE at

Drawn(m, c, at) ==
  IF Stores(c) /\ Target(c, at) \in Cell
  THEN [m EXCEPT ![Target(c, at)] = IF c = BS THEN Blank ELSE c]
  ELSE m

Strays(c, at) == Stores(c) /\ Target(c, at) \notin Cell

(* Cell n of the scrolled screen: rows move up by memcpy(), the last one   *)
(* is filled with blanks.                                                  *)
Shifted(m, n) == IF n + W \in Cell THEN m[n + W] ELSE Blank
Scrolled(m)   == [n \in Cell |-> Shifted(m, n)]

(***************************************************************************)
(* The thread, one step per access                                         *)
(***************************************************************************)

Goto(here, there) == pc = here /\ pc' = there

(* The thread makes a call; what the screen shows is noted.                *)
Begin(c, there) ==
  /\ Goto("out", there) /\ calls < MaxCalls
  /\ calls' = calls + 1
  /\ ch' = c /\ old' = [mem |-> mem, cursor |-> Cursor] /\ hit' = 0
  /\ UNCHANGED <<mem, index, reg, cur, line, ahead, mixed, stray, keys>>

(* tty_writechar(ptty,c), as tty_write() calls it for each of its          *)
(* characters; the kernel's strings hold no backspace.                     *)
tty_writechar ==
  /\ \E c \in Output \cup {LF, CR, TAB} : Begin(c, "get1")
  /\ UNCHANGED <<off, k>>

(* TTY_CLEAR.                                                              *)
tty_clear == Begin("clear", "clear") /\ k' = Cells /\ off' = 0

(* TTY_SETCSR, for a place on the screen.                                  *)
tty_setcsr == Begin("move", "put1") /\ off' \in Cell /\ UNCHANGED k

(* An access to a port, an index register or the data behind it.           *)
Select(r) == index' = r /\ UNCHANGED <<mem, reg, cur>>

Port ==
  UNCHANGED <<ch, off, k, old, line, ahead, hit, mixed, stray, keys, calls>>

(* tty_get_cursor(): VGA_CMD and VGA_DATA in turn.                         *)
Get1 == Goto("get1", "get2") /\ Select("hi") /\ Port
Get2 == Goto("get2", "get3") /\ cur' = (reg[index] * Byte) % Word /\ UNCHANGED <<mem, index, reg>> /\ Port
Get3 == Goto("get3", "get4") /\ Select("lo") /\ Port
Get4 == Goto("get4", "draw") /\ cur' = (cur + reg[index]) % Word /\ UNCHANGED <<mem, index, reg>> /\ Port

(* The switch, the wrapping of rows, and the test for scrolling.           *)
Draw ==
  /\ pc = "draw"
  /\ pc' = IF Scrolls(ch, cur) THEN "scroll" ELSE "put1"
  /\ mem' = Drawn(mem, ch, cur)
  /\ stray' = IF Strays(ch, cur) THEN 1 ELSE stray
  /\ off' = Coord(ch, cur) /\ k' = 0
  /\ UNCHANGED <<index, reg, ch, cur, line, ahead, old, hit, mixed, keys, calls>>

(* One cell of the scrolling loops.                                        *)
Scroll ==
  /\ pc = "scroll"
  /\ mem' = [mem EXCEPT ![k] = Shifted(mem, k)]
  /\ k' = k + 1
  /\ pc' = IF k' = Cells THEN "put1" ELSE "scroll"
  /\ UNCHANGED <<index, reg, ch, cur, off, line, ahead, old, hit, mixed, stray, keys, calls>>

(* One cell of tty_clear()'s loop, from the last one down.                 *)
ClearCell ==
  /\ pc = "clear"
  /\ mem' = [mem EXCEPT ![k - 1] = Blank]
  /\ k' = k - 1
  /\ pc' = IF k' = 0 THEN "put1" ELSE "clear"
  /\ UNCHANGED <<index, reg, ch, cur, off, line, ahead, old, hit, mixed, stray, keys, calls>>

(* tty_update_cursor(): the low byte, then the high one, and back to the   *)
(* caller.  Clearing takes back what earlier echoes have done.             *)
SetReg(b) == reg' = [reg EXCEPT ![index] = b] /\ UNCHANGED <<mem, index, cur>>

Put1 == Goto("put1", "put2") /\ Select("lo") /\ Port
Put2 == Goto("put2", "put3") /\ SetReg(off % Byte) /\ Port
Put3 == Goto("put3", "put4") /\ Select("hi") /\ Port
Put4 ==
  /\ Goto("put4", "out")
  /\ reg' = [reg EXCEPT ![index] = (off \div Byte) % Byte]
  /\ mixed' = IF hit = 1 \/ (mixed = 1 /\ ch # "clear") THEN 1 ELSE 0
  /\ ch' = LF /\ cur' = 0 /\ off' = 0 /\ k' = 0 /\ old' = NoText /\ hit' = 0
  /\ UNCHANGED <<mem, index, line, ahead, stray, keys, calls>>

(* tty_read() resets the buffer and waits; Enter lets it return.           *)
tty_read ==
  /\ Goto("out", "read")
  /\ line' = <<>>
  /\ UNCHANGED <<mem, index, reg, ch, cur, off, k, ahead, old, hit, mixed, stray, keys, calls>>

(***************************************************************************)
(* kbd_irq() and its echo, in one step                                     *)
(***************************************************************************)

Writing == pc \notin {"out", "read"}

(* An echo of c: all of tty_writechar().                                   *)
Echo(c) ==
  /\ ahead = 1 \/ pc = "read"
  /\ ahead = 1 => keys < MaxKeys
  /\ keys' = keys + ahead
  /\ LET m == Drawn(mem, c, Cursor)
     IN  mem' = IF Scrolls(c, Cursor) THEN Scrolled(m) ELSE m
  /\ reg' = Divided(Coord(c, Cursor))
  /\ index' = "hi"
  /\ stray' = IF Strays(c, Cursor) THEN 1 ELSE stray
  /\ hit' = IF Writing THEN 1 ELSE hit
  /\ mixed' = IF ~ Writing /\ Strays(c, Cursor) THEN 1 ELSE mixed
  /\ UNCHANGED <<ch, cur, off, k, old, ahead, calls>>

Letter ==
  /\ Len(line) < MaxLine
  /\ \E c \in Letters : Echo(c) /\ line' = Append(line, c)
  /\ UNCHANGED pc

(* A bug for the properties: the key is echoed on an empty line, too.      *)
BackspaceAlways ==
  /\ Echo(BS)
  /\ line' = IF line = <<>> THEN <<>> ELSE SubSeq(line, 1, Len(line) - 1)
  /\ UNCHANGED pc

(* Nothing is echoed when there is nothing to take back.                   *)
Backspace ==
  /\ line # <<>>
  /\ Echo(BS)
  /\ line' = SubSeq(line, 1, Len(line) - 1)
  /\ UNCHANGED pc

Enter ==
  /\ Echo(LF)
  /\ line' = <<>>
  /\ pc' = IF pc = "read" THEN "out" ELSE pc

kbd_irq == Letter \/ Backspace \/ Enter

(***************************************************************************)
(* The specification                                                       *)
(***************************************************************************)

(* The BIOS leaves the cursor anywhere; tty_create() has selected lo last. *)
Init ==
  /\ mem = [n \in Cell |-> Blank]
  /\ index = "lo"
  /\ \E at \in Cell : reg = Divided(at)
  /\ pc = "out" /\ ch = LF /\ cur = 0 /\ off = 0 /\ k = 0 /\ old = NoText /\ hit = 0
  /\ line = <<>> /\ ahead \in {0, 1}
  /\ mixed = 0 /\ stray = 0 /\ keys = 0 /\ calls = 0

Thread ==
  \/ tty_writechar \/ tty_clear \/ tty_setcsr \/ tty_read
  \/ Get1 \/ Get2 \/ Get3 \/ Get4
  \/ Draw \/ Scroll \/ ClearCell
  \/ Put1 \/ Put2 \/ Put3 \/ Put4

Next == Thread \/ kbd_irq

Spec == Init /\ [][Next]_vars

(***************************************************************************)
(* Properties                                                              *)
(***************************************************************************)

(* What others see of the screen: a call takes effect when it returns.     *)
Text  == IF Writing THEN old.mem ELSE mem
Place == IF Writing THEN old.cursor ELSE Cursor

(* The request the thread has made.                                        *)
Request ==
  IF Writing THEN [what |-> ch, at |-> IF ch = "move" THEN off ELSE 0]
  ELSE [what |-> IF pc = "read" THEN "read" ELSE "none", at |-> 0]

Promise == INSTANCE Terminal WITH
  Glyph <- Letters \cup Output,
  rows <- [r \in 1 .. H |-> [c \in 1 .. W |-> Text[(r - 1) * W + c - 1]]],
  x <- Place % W,
  y <- Place \div W,
  ask <- Request,
  intact <- (mixed = 0 /\ hit = 0)

(* tty_writechar() is a terminal: byte registers, 16-bit offsets and loops *)
(* over cells add up to rows and columns where the character asked for, or *)
(* typed, and no other wraps, scrolls, returns, tabulates or is taken back *)
(* across the end of a row, TTY_SETCSR leads where it was told and nowhere *)
(* else, and the keys pressed are those in the line - as long as no echo   *)
(* falls into a write; and tty_clear() makes it one again after one did.   *)
RefinesTerminal == Promise!Spec

(* With a patient user nothing is stored outside the screen and the cursor *)
(* never leaves it: tty_writechar() tests neither where it stores nor what *)
(* it makes of a backspace in the first cell.                              *)
StoresOnScreen == ahead = 0 => stray = 0 /\ Place \in Cell

(* While tty_read() waits for a patient user, the cells before the cursor  *)
(* show the line in the buffer, through wraps, scrolls and corrections: a  *)
(* backspace only ever erases what the user typed.                         *)
LineOnScreen ==
  ahead = 0 /\ pc = "read" =>
    \A n \in 1 .. Len(line) :
      /\ Cursor - Len(line) + n - 1 \in Cell
      /\ mem[Cursor - Len(line) + n - 1] = line[n]

(* Whatever echoes have done to the cursor before, a character printed     *)
(* without one brings it back to the screen.                               *)
CursorHeals ==
  [][ pc = "put4" /\ pc' = "out" /\ hit = 0 => Cursor' \in Cell ]_vars

=============================================================================
