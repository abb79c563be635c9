---------------------------- MODULE ScreenProofs ----------------------------
(***************************************************************************)
(* Proofs about the screen, for every width and height, every size of the  *)
(* cursor's registers and every sequence of characters, calls and keys.    *)
(***************************************************************************)
EXTENDS Screen, SequenceTheorems, TLAPS

(***************************************************************************)
(* Rows, columns and registers                                             *)
(***************************************************************************)

LEMMA DivMod ==
  ASSUME NEW v \in Nat, NEW n \in Nat \ {0}
  PROVE  /\ v \div n \in Nat /\ v % n \in 0 .. (n - 1)
         /\ v = n * (v \div n) + (v % n)
  OBVIOUS

(* The quotient of a number below a product is below the other factor.     *)
LEMMA DivBelow ==
  ASSUME NEW n \in Nat \ {0}, NEW b \in Nat, NEW v \in Nat, v < n * b
  PROVE  v \div n < b
<1>1. v \div n \in Nat /\ v % n \in 0 .. (n - 1) /\ v = n * (v \div n) + (v % n)
  BY DivMod
<1> SUFFICES ASSUME v \div n >= b PROVE FALSE
  BY <1>1
<1>2. n * (v \div n) >= n * b
  BY <1>1
<1> QED BY <1>1, <1>2

LEMMA Sizes ==
  /\ W \in Nat \ {0} /\ H \in Nat \ {0} /\ Byte \in Nat \ {0}
  /\ Cells \in Nat \ {0} /\ Word \in Nat \ {0} /\ Cells < Word
  /\ Cells = W * H /\ Word = Byte * Byte
<1>1. W * H \in Nat /\ Byte * Byte \in Nat /\ W * H > 0
  BY SizeAssumption
<1> QED BY <1>1, SizeAssumption DEF Cells, Word

(* A row and a column of the screen make a cell.                           *)
LEMMA RowColumn ==
  ASSUME NEW x \in 0 .. (W - 1), NEW y \in 0 .. (H - 1)
  PROVE  y * W + x \in Cell
<1>1. y * W <= (H - 1) * W /\ y * W \in Nat
  BY Sizes
<1>2. (H - 1) * W = Cells - W
  BY Sizes
<1> QED BY <1>1, <1>2, Sizes DEF Cell

(* The registers give back the offset that was divided between them.       *)
LEMMA Registers ==
  ASSUME NEW v \in Nat, v < Word
  PROVE  /\ v \div Byte \in 0 .. (Byte - 1) /\ v % Byte \in 0 .. (Byte - 1)
         /\ (v \div Byte) % Byte = v \div Byte
         /\ (v \div Byte) * Byte + (v % Byte) = v
<1>1. v \div Byte \in Nat /\ v % Byte \in 0 .. (Byte - 1)
      /\ v = Byte * (v \div Byte) + (v % Byte)
  BY DivMod, Sizes
<1>2. v \div Byte < Byte
  BY DivBelow, Sizes
<1>3. ASSUME NEW q \in 0 .. (Byte - 1) PROVE q % Byte = q
  BY <1>3, Sizes
<1> QED BY <1>1, <1>2, <1>3, Sizes

(* A value of two registers is an offset.                                  *)
LEMMA Combined ==
  ASSUME NEW a \in 0 .. (Byte - 1), NEW b \in 0 .. (Byte - 1)
  PROVE  /\ a * Byte \in 0 .. (Word - 1) /\ a * Byte + b \in 0 .. (Word - 1)
<1>1. a * Byte <= (Byte - 1) * Byte /\ a * Byte \in Nat
  BY Sizes
<1>2. (Byte - 1) * Byte = Word - Byte
  BY Sizes
<1> QED BY <1>1, <1>2, Sizes

LEMMA SmallMod ==
  ASSUME NEW v \in Nat, v < Word
  PROVE  (v % Word) = v
  BY Sizes

(***************************************************************************)
(* Where a character moves the cursor                                      *)
(***************************************************************************)

(* Anything but a backspace: to a column of the screen.                    *)
LEMMA MovedRange ==
  ASSUME NEW c, c # BS, NEW at \in Nat
  PROVE  Moved(c, at)[1] \in 0 .. (W - 1) /\ Moved(c, at)[2] \in Nat
<1>1. at \div W \in Nat /\ at % W \in 0 .. (W - 1)
  BY DivMod, Sizes
<1>2. PICK x \in Nat, y \in Nat : Switched(c, at) = <<x, y>>
  <2>1. CASE c = LF
    <3>1. Switched(c, at) = <<0, at \div W + 1>>
      BY <2>1 DEF Switched, LF, CR, TAB, BS
    <3> QED BY <1>1, <3>1
  <2>2. CASE c = CR
    <3>1. Switched(c, at) = <<0, at \div W>>
      BY <2>2 DEF Switched, LF, CR, TAB, BS
    <3> QED BY <1>1, <3>1
  <2>3. CASE c = TAB
    <3>1. Switched(c, at) = <<((at % W) \div TabStop + 1) * TabStop, at \div W>>
      BY <2>3 DEF Switched, LF, CR, TAB, BS
    <3>2. (at % W) \div TabStop \in Nat
      <4>1. (at % W) \in Nat
        BY <1>1, Sizes
      <4> QED BY ONLY <4>1, DivMod, TabAssumption, Zenon
    <3>3. ((at % W) \div TabStop + 1) * TabStop \in Nat
      BY <3>2, TabAssumption
    <3> QED BY <1>1, <3>1, <3>3
  <2>4. CASE c \notin {LF, CR, TAB}
    <3>1. c # LF /\ c # CR /\ c # TAB /\ c # BS
      BY <2>4
    <3>2. Switched(c, at) = <<(at % W) + 1, at \div W>>
      BY <3>1, Zenon DEF Switched
    <3> QED BY <1>1, <3>2, Sizes
  <2> QED BY <2>1, <2>2, <2>3, <2>4
<1>3. Moved(c, at) = IF x >= W THEN <<0, y + 1>> ELSE <<x, y>>
  BY <1>2, Sizes DEF Moved
<1> QED BY <1>3, Sizes

(* It stays on the screen, from wherever it was.                           *)
LEMMA CoordInCell ==
  ASSUME NEW c, c # BS, NEW at \in Nat
  PROVE  Coord(c, at) \in Cell
<1> DEFINE m == Moved(c, at)
           row == IF m[2] >= H THEN H - 1 ELSE m[2]
<1>1. m[1] \in 0 .. (W - 1) /\ m[2] \in Nat
  BY MovedRange
<1>2. row \in 0 .. (H - 1)
  BY <1>1, Sizes
<1>3. row * W + m[1] \in Cell
  <2> HIDE DEF m, row
  <2> QED BY <1>1, <1>2, RowColumn
<1>4. Coord(c, at) = (row * W + m[1]) % Word
  BY DEF Coord
<1> HIDE DEF m, row
<1>5. row * W + m[1] \in Nat /\ row * W + m[1] < Word
  BY <1>3, Sizes DEF Cell
<1> QED BY <1>3, <1>4, <1>5, SmallMod

(* A letter moves it on by one cell, or to the beginning of the last row.  *)
LEMMA CoordLetter ==
  ASSUME NEW c, c \notin {LF, CR, TAB, BS}, NEW at \in Cell
  PROVE  /\ Scrolls(c, at) <=> at + 1 = Cells
         /\ Coord(c, at) = IF at + 1 = Cells THEN Cells - W ELSE at + 1
<1> DEFINE x == at % W
           y == at \div W
<1>1. at \in Nat /\ at < W * H
  BY Sizes DEF Cell
<1>2. y \in Nat /\ x \in 0 .. (W - 1) /\ at = W * y + x /\ y < H
  BY <1>1, DivMod, DivBelow, Sizes
<1>3. Switched(c, at) = <<x + 1, y>>
  BY DEF Switched, LF, CR, TAB, BS
<1>4. Moved(c, at) = IF x + 1 >= W THEN <<0, y + 1>> ELSE <<x + 1, y>>
  BY <1>2, <1>3, Sizes DEF Moved
<1>5. Coord(c, at) = ((IF Moved(c, at)[2] >= H THEN H - 1 ELSE Moved(c, at)[2]) * W
                       + Moved(c, at)[1]) % Word
  BY DEF Coord
<1>6. Scrolls(c, at) <=> Moved(c, at)[2] >= H
  BY DEF Scrolls
<1> HIDE DEF x, y
<1>7. CASE x + 1 < W
  <2>1. Moved(c, at) = <<x + 1, y>>
    BY <1>2, <1>4, <1>7, Sizes
  <2>2. y * W + (x + 1) = at + 1
    BY <1>2, Sizes
  <2>3. at + 1 < Cells
    <3>1. y * W + (x + 1) \in Cell
      <4>1. x + 1 \in 0 .. (W - 1) /\ y \in 0 .. (H - 1)
        BY <1>2, <1>7, Sizes
      <4> QED BY ONLY <4>1, RowColumn, Zenon
    <3> QED BY <1>1, <2>2, <3>1, Sizes DEF Cell
  <2>4. ~ Scrolls(c, at) /\ Coord(c, at) = (y * W + (x + 1)) % Word
    BY <1>2, <1>5, <1>6, <2>1, Sizes
  <2> QED BY <1>1, <2>2, <2>3, <2>4, SmallMod, Sizes
<1>8. CASE x + 1 = W
  <2>1. Moved(c, at) = <<0, y + 1>>
    BY <1>2, <1>4, <1>8, Sizes
  <2>2. at + 1 = W * (y + 1)
    BY <1>2, <1>8, Sizes
  <2>3. CASE y + 1 < H
    <3>1. (y + 1) * W + 0 \in Cell
      <4>1. 0 \in 0 .. (W - 1) /\ y + 1 \in 0 .. (H - 1)
        BY <1>2, <2>3, Sizes
      <4> QED BY ONLY <4>1, RowColumn, Zenon
    <3>2. (y + 1) * W + 0 = at + 1
      BY <1>2, <2>2, Sizes
    <3>3. ~ Scrolls(c, at) /\ Coord(c, at) = ((y + 1) * W + 0) % Word
      BY <1>2, <1>5, <1>6, <2>1, <2>3, Sizes
    <3> QED BY <1>1, <3>1, <3>2, <3>3, SmallMod, Sizes DEF Cell
  <2>4. CASE y + 1 = H
    <3>1. at + 1 = Cells
      BY <2>2, <2>4, Sizes
    <3>2. (H - 1) * W + 0 = Cells - W /\ Cells - W \in Nat
      BY <1>2, <2>4, Sizes
    <3>3. Scrolls(c, at) /\ Coord(c, at) = ((H - 1) * W + 0) % Word
      BY <1>2, <1>5, <1>6, <2>1, <2>4, Sizes
    <3> QED BY <3>1, <3>2, <3>3, SmallMod, Sizes
  <2> QED BY <1>2, <2>3, <2>4, Sizes
<1> QED BY <1>2, <1>7, <1>8, Sizes

(* A backspace moves it back by one cell.                                  *)
LEMMA CoordBackspace ==
  ASSUME NEW at \in Cell, at > 0
  PROVE  ~ Scrolls(BS, at) /\ Coord(BS, at) = at - 1
<1> DEFINE x == at % W
           y == at \div W
<1>1. at \in Nat /\ at < W * H
  BY Sizes DEF Cell
<1>2. y \in Nat /\ x \in 0 .. (W - 1) /\ at = W * y + x /\ y < H
  BY <1>1, DivMod, DivBelow, Sizes
<1>3. Switched(BS, at) = <<x - 1, y>>
  BY DEF Switched, LF, CR, TAB, BS
<1>4. Moved(BS, at) = IF x - 1 < 0 THEN <<x - 1 + W, y - 1>> ELSE <<x - 1, y>>
  BY <1>2, <1>3, Sizes DEF Moved
<1>5. Coord(BS, at) = ((IF Moved(BS, at)[2] >= H THEN H - 1 ELSE Moved(BS, at)[2]) * W
                        + Moved(BS, at)[1]) % Word
  BY DEF Coord
<1>6. Scrolls(BS, at) <=> Moved(BS, at)[2] >= H
  BY DEF Scrolls
<1> HIDE DEF x, y
<1>7. CASE x > 0
  <2>1. Moved(BS, at) = <<x - 1, y>>
    BY <1>2, <1>4, <1>7, Sizes
  <2>2. y * W + (x - 1) = at - 1
    BY <1>2, Sizes
  <2>3. ~ Scrolls(BS, at) /\ Coord(BS, at) = (y * W + (x - 1)) % Word
    BY <1>2, <1>5, <1>6, <2>1, Sizes
  <2> QED BY <1>1, <2>2, <2>3, SmallMod, Sizes
<1>8. CASE x = 0
  <2>1. Moved(BS, at) = <<W - 1, y - 1>>
    BY <1>2, <1>4, <1>8, Sizes
  <2>2. (y - 1) * W + (W - 1) = at - 1
    BY <1>2, <1>8, Sizes
  <2>3. ~ Scrolls(BS, at) /\ Coord(BS, at) = ((y - 1) * W + (W - 1)) % Word
    BY <1>2, <1>5, <1>6, <2>1, Sizes
  <2> QED BY <1>1, <2>2, <2>3, SmallMod, Sizes
<1> QED BY <1>2, <1>7, <1>8, Sizes

(* Whatever it is, it fits the registers.                                  *)
LEMMA CoordWord ==
  ASSUME NEW c, NEW at \in Nat
  PROVE  Coord(c, at) \in 0 .. (Word - 1)
<1>1. CASE c # BS
  BY <1>1, CoordInCell, Sizes DEF Cell
<1>2. CASE c = BS
  <2> DEFINE x == at % W
             y == at \div W
             m == Moved(BS, at)
             row == IF m[2] >= H THEN H - 1 ELSE m[2]
  <2>1. y \in Nat /\ x \in 0 .. (W - 1)
    BY DivMod, Sizes
  <2>2. Switched(BS, at) = <<x - 1, y>>
    BY DEF Switched, LF, CR, TAB, BS
  <2>3. m = IF x - 1 < 0 THEN <<x - 1 + W, y - 1>> ELSE <<x - 1, y>>
    BY <2>1, <2>2, Sizes DEF Moved
  <2>4. Coord(c, at) = (row * W + m[1]) % Word
    BY <1>2 DEF Coord
  <2> HIDE DEF x, y
  <2>5. m[1] \in Int /\ m[2] \in Int
    BY <2>1, <2>3, Sizes
  <2> HIDE DEF m
  <2>6. row \in Int
    BY <2>5, Sizes
  <2> HIDE DEF row
  <2>7. row * W + m[1] \in Int
    BY <2>5, <2>6, Sizes
  <2> QED BY <2>4, <2>7, Sizes
<1> QED BY <1>1, <1>2

(***************************************************************************)
(* The inductive invariant                                                 *)
(***************************************************************************)

Values == 0 .. (Byte - 1)
Points == {"out", "read", "get1", "get2", "get3", "get4", "draw", "scroll",
           "clear", "put1", "put2", "put3", "put4"}
Calls  == Output \cup {LF, CR, TAB, "clear", "move"}

(* Where an offset goes is on the screen at all times, echo or not.        *)
Types ==
  /\ mem \in [Cell -> Letters \cup Output \cup {Blank, "clear", "move"}]
  /\ index \in Regs /\ reg \in [Regs -> Values]
  /\ pc \in Points /\ ch \in Calls
  /\ cur \in 0 .. (Word - 1) /\ off \in Cell
  /\ line \in Seq(Letters) /\ Len(line) <= MaxLine
  /\ ahead \in {0, 1} /\ hit \in {0, 1} /\ stray \in {0, 1}

(* The registers while tty_update_cursor() fills them, if no echo fell     *)
(* into the call.                                                          *)
Filled ==
  hit = 0 => /\ pc = "put2" => index = "lo"
             /\ pc = "put3" => reg["lo"] = off % Byte
             /\ pc = "put4" => index = "hi" /\ reg["lo"] = off % Byte

(* The cursor while tty_get_cursor() reads it, for a patient user.         *)
Reading ==
  ahead = 0 =>
    /\ pc \in {"out", "read", "get1", "get2", "get3", "get4"} => Cursor \in Cell
    /\ pc = "get2" => index = "hi"
    /\ pc = "get3" => cur = reg["hi"] * Byte
    /\ pc = "get4" => index = "lo" /\ cur = reg["hi"] * Byte
    /\ pc = "draw" => cur \in Cell

Patient ==
  ahead = 0 => /\ hit = 0 /\ stray = 0
               /\ Writing => old.cursor \in Cell
               /\ pc = "read" => Len(line) <= Cursor

IInv == Types /\ Filled /\ Reading /\ Patient

(***************************************************************************)
(* What the steps do to the cursor                                         *)
(***************************************************************************)

LEMMA CursorRange ==
  ASSUME Types
  PROVE  Cursor \in 0 .. (Word - 1)
<1>1. reg["hi"] \in Values /\ reg["lo"] \in Values
  BY DEF Types, Regs
<1> QED BY <1>1, Combined DEF Values, Cursor

(* The registers after an offset was divided between them.                 *)
LEMMA DividedCursor ==
  ASSUME NEW v \in 0 .. (Word - 1)
  PROVE  /\ Divided(v) \in [Regs -> Values]
         /\ Divided(v)["hi"] * Byte + Divided(v)["lo"] = v
<1>1. v \in Nat /\ v < Word
  BY Sizes
<1>2. v \div Byte \in Values /\ v % Byte \in Values
      /\ (v \div Byte) * Byte + (v % Byte) = v
  BY <1>1, Registers DEF Values
<1>3. Divided(v)["hi"] = v \div Byte /\ Divided(v)["lo"] = v % Byte
  BY DEF Divided, Regs
<1>4. Divided(v) \in [Regs -> Values]
  BY <1>2 DEF Divided
<1> QED BY <1>2, <1>3, <1>4

(* An echo moves the cursor and keeps the types of all it touches.         *)
LEMMA EchoMoves ==
  ASSUME Types, NEW c \in Letters \cup {LF, BS}, Echo(c)
  PROVE  /\ mem' \in [Cell -> Letters \cup Output \cup {Blank, "clear", "move"}]
         /\ reg' \in [Regs -> Values] /\ index' = "hi"
         /\ Cursor' = Coord(c, Cursor)
         /\ hit' \in {0, 1} /\ stray' \in {0, 1}
         /\ UNCHANGED <<ch, cur, off, old, ahead>>
<1>1. Cursor \in Nat /\ Coord(c, Cursor) \in 0 .. (Word - 1)
  BY CursorRange, CoordWord, Sizes
<1>2. reg' \in [Regs -> Values] /\ Cursor' = Coord(c, Cursor)
  BY <1>1, DividedCursor DEF Echo, Cursor
<1>3. mem' \in [Cell -> Letters \cup Output \cup {Blank, "clear", "move"}]
  <2> DEFINE Glyphs == Letters \cup Output \cup {Blank, "clear", "move"}
             m == Drawn(mem, c, Cursor)
  <2>1. mem \in [Cell -> Glyphs]
    BY DEF Types
  <2>2. m \in [Cell -> Glyphs]
    <3>1. CASE Stores(c) /\ Target(c, Cursor) \in Cell
      <4>1. (IF c = BS THEN Blank ELSE c) \in Glyphs
        BY <3>1 DEF Stores
      <4>2. m = [mem EXCEPT ![Target(c, Cursor)] = IF c = BS THEN Blank ELSE c]
        BY <3>1 DEF Drawn
      <4> QED BY <2>1, <4>1, <4>2
    <3>2. CASE ~ (Stores(c) /\ Target(c, Cursor) \in Cell)
      BY <2>1, <3>2 DEF Drawn
    <3> QED BY <3>1, <3>2
  <2>3. mem' = IF Scrolls(c, Cursor) THEN Scrolled(m) ELSE m
    BY DEF Echo
  <2> HIDE DEF m
  <2>4. Scrolled(m) \in [Cell -> Glyphs]
    BY <2>2 DEF Scrolled, Shifted
  <2> QED BY <2>2, <2>3, <2>4
<1> QED BY <1>2, <1>3 DEF Echo, Types

(* A store to one cell keeps the type of the screen.                       *)
LEMMA StoreCell ==
  ASSUME NEW G, NEW m \in [Cell -> G], NEW n, NEW v \in G
  PROVE  [m EXCEPT ![n] = v] \in [Cell -> G]
  OBVIOUS

(***************************************************************************)
(* The invariant holds                                                     *)
(***************************************************************************)

LEMMA InitInv == Init => IInv
<1> SUFFICES ASSUME Init PROVE IInv
  OBVIOUS
<1>1. 0 \in Cell /\ 0 \in 0 .. (Word - 1)
  BY Sizes DEF Cell
<1>2. PICK at \in Cell : reg = Divided(at)
  BY DEF Init
<1>3. at \in 0 .. (Word - 1)
  BY Sizes DEF Cell
<1>4. reg \in [Regs -> Values] /\ Cursor = at
  BY <1>2, <1>3, DividedCursor DEF Cursor
<1>5. Types
  BY <1>1, <1>4, LineAssumption DEF Init, Types, Regs, Points, Calls
<1>6. Filled /\ Reading /\ Patient
  BY <1>4 DEF Init, Filled, Reading, Patient, Writing
<1> QED BY <1>5, <1>6 DEF IInv

LEMMA CallsInv == IInv /\ (tty_writechar \/ tty_clear \/ tty_setcsr) => IInv'
<1> SUFFICES ASSUME IInv, tty_writechar \/ tty_clear \/ tty_setcsr
             PROVE  IInv'
  OBVIOUS
<1>1. PICK c \in Calls, p \in {"get1", "clear", "put1"} : Begin(c, p)
  BY DEF tty_writechar, tty_clear, tty_setcsr, Calls
<1>2. off' \in Cell
  BY Sizes DEF IInv, Types, tty_writechar, tty_clear, tty_setcsr, Cell
<1>3. Types'
  BY <1>1, <1>2 DEF IInv, Types, Begin, Goto, Points
<1>4. Cursor' = Cursor /\ old'.cursor = Cursor
  BY <1>1 DEF Begin, Cursor
<1>5. Filled' /\ Reading'
  BY <1>1, <1>4 DEF IInv, Filled, Reading, Begin, Goto
<1>6. Patient'
  BY <1>1, <1>4 DEF IInv, Patient, Reading, Begin, Goto, Writing
<1> QED BY <1>3, <1>5, <1>6 DEF IInv

LEMMA ReadInv == IInv /\ tty_read => IInv'
<1> SUFFICES ASSUME IInv, tty_read PROVE IInv'
  OBVIOUS
<1>1. Types'
  BY LineAssumption DEF IInv, Types, tty_read, Goto, Points
<1>2. Cursor' = Cursor /\ Len(line') = 0
  BY DEF tty_read, Cursor
<1>3. Filled' /\ Reading'
  BY <1>2 DEF IInv, Filled, Reading, tty_read, Goto
<1>4. Patient'
  BY <1>2, CursorRange DEF IInv, Patient, tty_read, Goto, Writing
<1> QED BY <1>1, <1>3, <1>4 DEF IInv

(* tty_get_cursor() reads the cursor, unless an echo falls into it.        *)
LEMMA GetInv == IInv /\ (Get1 \/ Get2 \/ Get3 \/ Get4) => IInv'
<1> SUFFICES ASSUME IInv, Get1 \/ Get2 \/ Get3 \/ Get4 PROVE IInv'
  OBVIOUS
<1>1. reg["hi"] \in Values /\ reg["lo"] \in Values /\ reg[index] \in Values
  BY DEF IInv, Types, Regs
<1>2. reg["hi"] * Byte \in 0 .. (Word - 1)
  BY <1>1, Combined DEF Values
<1>3. (reg["hi"] * Byte) % Word = reg["hi"] * Byte
  BY <1>2, SmallMod, Sizes
<1>4. Cursor \in 0 .. (Word - 1) /\ Cursor % Word = Cursor
  BY CursorRange, SmallMod, Sizes DEF IInv
<1>5. Cursor' = Cursor /\ Writing /\ Writing'
  BY DEF Get1, Get2, Get3, Get4, Select, Goto, Cursor, Writing
<1>6. cur' \in 0 .. (Word - 1)
  <2>1. reg[index] * Byte \in Nat /\ cur + reg[index] \in Nat /\ cur \in 0 .. (Word - 1)
    BY <1>1, Sizes DEF IInv, Types, Values
  <2>2. ASSUME NEW v \in Nat PROVE (v % Word) \in 0 .. (Word - 1)
    BY Sizes
  <2>3. (reg[index] * Byte) % Word \in 0 .. (Word - 1)
        /\ (cur + reg[index]) % Word \in 0 .. (Word - 1)
    BY <2>1, <2>2
  <2>4. cur' \in {cur, (reg[index] * Byte) % Word, (cur + reg[index]) % Word}
    BY DEF Get1, Get2, Get3, Get4, Select
  <2> QED BY <2>1, <2>3, <2>4
<1>7. Types'
  BY <1>6 DEF IInv, Types, Get1, Get2, Get3, Get4, Select, Goto, Port, Points, Regs
<1>8. Filled'
  BY DEF IInv, Filled, Get1, Get2, Get3, Get4, Goto
<1>9. Reading'
  <2> SUFFICES ASSUME ahead = 0 PROVE Reading'
    BY DEF Reading, Get1, Get2, Get3, Get4, Port
  <2>1. Cursor \in Cell
    BY DEF IInv, Reading, Get1, Get2, Get3, Get4, Goto
  <2>2. CASE Get1
    BY <1>5, <2>1, <2>2 DEF Reading, Get1, Select, Goto
  <2>3. CASE Get2
    <3>1. index = "hi"
      BY <2>3 DEF IInv, Reading, Get2, Goto
    <3> QED BY <1>3, <1>5, <2>1, <2>3, <3>1 DEF Reading, Get2, Goto
  <2>4. CASE Get3
    <3>1. cur = reg["hi"] * Byte
      BY <2>4 DEF IInv, Reading, Get3, Goto
    <3> QED BY <1>5, <2>1, <2>4, <3>1 DEF Reading, Get3, Select, Goto
  <2>5. CASE Get4
    <3>1. index = "lo" /\ cur = reg["hi"] * Byte
      BY <2>5 DEF IInv, Reading, Get4, Goto
    <3>2. cur' = Cursor
      BY <1>4, <2>5, <3>1 DEF Get4, Cursor
    <3> QED BY <1>5, <2>1, <2>5, <3>2 DEF Reading, Get4, Goto
  <2> QED BY <2>2, <2>3, <2>4, <2>5
<1>10. Patient'
  BY <1>5 DEF IInv, Patient, Writing, Get1, Get2, Get3, Get4, Goto, Port
<1> QED BY <1>7, <1>8, <1>9, <1>10 DEF IInv

(* A character is drawn where the cursor was read, and never a backspace.  *)
LEMMA DrawInv == IInv /\ Draw => IInv'
<1> SUFFICES ASSUME IInv, Draw PROVE IInv'
  OBVIOUS
<1> DEFINE G == Letters \cup Output \cup {Blank, "clear", "move"}
<1>1. ch # BS /\ (Stores(ch) => ch \in G)
  BY GlyphAssumption DEF IInv, Types, Calls, Stores, LF, CR, TAB, BS
<1>2. cur \in Nat
  BY Sizes DEF IInv, Types
<1>3. off' \in Cell
  BY <1>1, <1>2, CoordInCell DEF Draw
<1>4. mem' \in [Cell -> G]
  <2>1. mem \in [Cell -> G]
    BY DEF IInv, Types
  <2>2. CASE Stores(ch) /\ Target(ch, cur) \in Cell
    <3>1. mem' = [mem EXCEPT ![Target(ch, cur)] = ch]
      BY <1>1, <2>2 DEF Draw, Drawn
    <3> QED BY <1>1, <2>1, <2>2, <3>1, StoreCell
  <2>3. CASE ~ (Stores(ch) /\ Target(ch, cur) \in Cell)
    BY <2>1, <2>3 DEF Draw, Drawn
  <2> QED BY <2>2, <2>3
<1>5. Types'
  BY <1>3, <1>4 DEF IInv, Types, Draw, Points
<1>6. Filled' /\ Reading'
  BY DEF IInv, Filled, Reading, Draw
<1>7. ahead = 0 => ~ Strays(ch, cur)
  BY <1>1 DEF IInv, Reading, Draw, Strays, Target
<1>8. Patient'
  BY <1>7 DEF IInv, Patient, Draw, Writing
<1> QED BY <1>5, <1>6, <1>8 DEF IInv

LEMMA LoopInv == IInv /\ (Scroll \/ ClearCell) => IInv'
<1> SUFFICES ASSUME IInv, Scroll \/ ClearCell PROVE IInv'
  OBVIOUS
<1> DEFINE G == Letters \cup Output \cup {Blank, "clear", "move"}
<1>1. mem \in [Cell -> G] /\ Blank \in G /\ Shifted(mem, k) \in G
  BY DEF IInv, Types, Shifted
<1>2. mem' \in [Cell -> G]
  <2> HIDE DEF G
  <2>1. CASE Scroll
    BY <1>1, <2>1, StoreCell DEF Scroll
  <2>2. CASE ClearCell
    BY <1>1, <2>2, StoreCell DEF ClearCell
  <2> QED BY <2>1, <2>2
<1>3. Types'
  BY <1>2 DEF IInv, Types, Scroll, ClearCell, Points
<1>4. Filled' /\ Reading' /\ Patient'
  BY DEF IInv, Filled, Reading, Patient, Writing, Scroll, ClearCell
<1> QED BY <1>3, <1>4 DEF IInv

(* tty_update_cursor() puts off into the registers, unless an echo falls   *)
(* into it.                                                                *)
LEMMA PutCursor ==
  ASSUME IInv, Put4, hit = 0
  PROVE  Cursor' = off
<1>1. index = "hi" /\ reg["lo"] = off % Byte
  BY DEF IInv, Filled, Put4, Goto
<1>2. off \in Nat /\ off < Word
  BY Sizes DEF IInv, Types, Cell
<1>3. (off \div Byte) % Byte = off \div Byte
      /\ (off \div Byte) * Byte + (off % Byte) = off
  BY <1>2, Registers
<1>4. reg'["hi"] = (off \div Byte) % Byte /\ reg'["lo"] = reg["lo"]
  BY <1>1 DEF Put4, IInv, Types, Regs
<1> QED BY <1>1, <1>3, <1>4 DEF Cursor

LEMMA PutInv == IInv /\ (Put1 \/ Put2 \/ Put3 \/ Put4) => IInv'
<1> SUFFICES ASSUME IInv, Put1 \/ Put2 \/ Put3 \/ Put4 PROVE IInv'
  OBVIOUS
<1>1. off \in Nat /\ off < Word /\ 0 \in Cell /\ 0 \in 0 .. (Word - 1)
  BY Sizes DEF IInv, Types, Cell
<1>2. (off % Byte) \in Values /\ ((off \div Byte) % Byte) \in Values
  BY <1>1, Registers DEF Values
<1>3. CASE Put1
  <2>1. Types'
    BY <1>3 DEF IInv, Types, Put1, Goto, Select, Port, Points, Regs
  <2>2. Filled' /\ Reading' /\ Patient'
    BY <1>3 DEF IInv, Filled, Reading, Patient, Put1, Goto, Select, Port, Writing
  <2> QED BY <2>1, <2>2 DEF IInv
<1>4. CASE Put2
  <2>1. reg' \in [Regs -> Values]
    BY <1>2, <1>4 DEF IInv, Types, Put2, SetReg
  <2>2. Types'
    BY <1>4, <2>1 DEF IInv, Types, Put2, Goto, SetReg, Port, Points
  <2>3. Filled'
    BY <1>4 DEF IInv, Types, Filled, Put2, Goto, SetReg, Port
  <2>4. Reading' /\ Patient'
    BY <1>4 DEF IInv, Reading, Patient, Put2, Goto, SetReg, Port, Writing
  <2> QED BY <2>2, <2>3, <2>4 DEF IInv
<1>5. CASE Put3
  <2>1. Types'
    BY <1>5 DEF IInv, Types, Put3, Goto, Select, Port, Points, Regs
  <2>2. Filled' /\ Reading' /\ Patient'
    BY <1>5 DEF IInv, Filled, Reading, Patient, Put3, Goto, Select, Port, Writing
  <2> QED BY <2>1, <2>2 DEF IInv
<1>6. CASE Put4
  <2>1. reg' \in [Regs -> Values]
    BY <1>2, <1>6 DEF IInv, Types, Put4
  <2>2. Types'
    BY <1>1, <1>6, <2>1 DEF IInv, Types, Put4, Goto, Points, Calls
  <2>3. hit = 0 => Cursor' \in Cell
    BY <1>6, PutCursor DEF IInv, Types
  <2>4. Filled' /\ Reading' /\ Patient'
    BY <1>6, <2>3 DEF IInv, Filled, Reading, Patient, Put4, Goto, Writing
  <2> QED BY <2>2, <2>4 DEF IInv
<1> QED BY <1>3, <1>4, <1>5, <1>6

(***************************************************************************)
(* The keys                                                                *)
(***************************************************************************)

(* What every key keeps: a patient user types in tty_read() only.          *)
LEMMA KeyKeeps ==
  ASSUME IInv, NEW c \in Letters \cup {LF, BS}, Echo(c),
         pc' \in Points, pc' = pc \/ (pc = "read" /\ pc' = "out"),
         line' \in Seq(Letters), Len(line') <= MaxLine
  PROVE  /\ Types' /\ Filled'
         /\ ahead = 0 => pc = "read" /\ hit' = 0 /\ Cursor \in Cell
<1>1. Types'
  BY EchoMoves DEF IInv, Types, Regs
<1>2. Filled'
  <2>1. CASE Writing
    BY <2>1 DEF Filled, Echo
  <2>2. CASE ~ Writing
    BY <2>2 DEF Filled, Writing
  <2> QED BY <2>1, <2>2
<1>3. ahead = 0 => pc = "read" /\ hit' = 0 /\ Cursor \in Cell
  BY DEF IInv, Patient, Reading, Echo, Writing
<1> QED BY <1>1, <1>2, <1>3

LEMMA LetterInv == IInv /\ Letter => IInv'
<1> SUFFICES ASSUME IInv, Letter PROVE IInv'
  OBVIOUS
<1>1. PICK c \in Letters : Echo(c) /\ line' = Append(line, c)
  BY DEF Letter
<1>2. line' \in Seq(Letters) /\ Len(line') = Len(line) + 1 /\ Len(line') <= MaxLine
      /\ Len(line) \in Nat
  BY <1>1, LineAssumption DEF IInv, Types, Letter
<1>3. pc' = pc /\ pc' \in Points /\ ahead' = ahead
  BY <1>1 DEF IInv, Types, Letter, Echo
<1>4. Types' /\ Filled' /\ (ahead = 0 => pc = "read" /\ hit' = 0 /\ Cursor \in Cell)
  BY <1>1, <1>2, <1>3, KeyKeeps
<1>5. c \notin {LF, CR, TAB, BS}
  BY GlyphAssumption
<1>6. Cursor' = Coord(c, Cursor)
  BY <1>1, EchoMoves DEF IInv
<1>7. ASSUME ahead = 0 PROVE Reading' /\ Patient'
  <2>1. Cursor \in Cell /\ Cursor \in Nat /\ pc = "read" /\ Len(line) <= Cursor
    BY <1>4, <1>7, Sizes DEF IInv, Patient, Cell
  <2>2. Cursor' \in Cell /\ Cursor' = IF Cursor + 1 = Cells THEN Cells - W ELSE Cursor + 1
    <3>1. Cursor' \in Cell
      BY <1>5, <1>6, <2>1, CoordInCell
    <3>2. Cursor' = IF Cursor + 1 = Cells THEN Cells - W ELSE Cursor + 1
      BY <1>5, <1>6, <2>1, CoordLetter
    <3> QED BY <3>1, <3>2
  <2>3. MaxLine <= Cells - W
    <3>1. (H - 1) * W = Cells - W
      BY Sizes
    <3> QED BY <3>1, LineAssumption
  <2>4. Len(line') <= Cursor'
    BY <1>2, <2>1, <2>2, <2>3, LineAssumption, Sizes
  <2>5. ~ Strays(c, Cursor)
    BY <1>5, <2>1 DEF Strays, Target
  <2>6. stray' = 0
    BY <1>1, <1>7, <2>5 DEF IInv, Patient, Echo
  <2> QED BY <1>3, <1>4, <1>7, <2>1, <2>2, <2>4, <2>6 DEF Reading, Patient, Writing
<1>8. CASE ahead # 0
  BY <1>3, <1>4, <1>8 DEF IInv, Reading, Patient
<1> QED BY <1>4, <1>7, <1>8 DEF IInv

(* What is left of a line when its last letter is taken back.              *)
LEMMA Dropped ==
  ASSUME NEW s \in Seq(Letters), s # <<>>
  PROVE  LET d == SubSeq(s, 1, Len(s) - 1)
         IN  /\ d \in Seq(Letters) /\ Len(d) = Len(s) - 1
             /\ \A n \in 1 .. Len(d) : d[n] = s[n]
<1> DEFINE d == SubSeq(s, 1, Len(s) - 1)
           j == Len(s) - 1
<1>1. j \in Nat
  OBVIOUS
<1>2. d \in Seq(Letters) /\ d = [n \in 1 .. j |-> s[n]]
  BY <1>1
<1>3. ASSUME NEW t \in Seq(Letters), NEW i \in Nat, DOMAIN t = 1 .. i
      PROVE  Len(t) = i
  BY <1>3, LenProperties
<1> HIDE DEF d, j
<1>4. Len(d) = j
  BY <1>1, <1>2, <1>3
<1>5. \A n \in 1 .. Len(d) : d[n] = s[n]
  BY <1>2, <1>4
<1> QED BY <1>2, <1>4, <1>5 DEF d, j

LEMMA BackspaceInv == IInv /\ Backspace => IInv'
<1> SUFFICES ASSUME IInv, Backspace PROVE IInv'
  OBVIOUS
<1>1. Echo(BS) /\ line # <<>> /\ line' = SubSeq(line, 1, Len(line) - 1)
  BY DEF Backspace
<1>2. Len(line) \in Nat \ {0} /\ Len(line) <= MaxLine /\ line \in Seq(Letters)
  BY <1>1 DEF IInv, Types
<1>3. line' \in Seq(Letters) /\ Len(line') = Len(line) - 1 /\ Len(line') <= MaxLine
  <2>1. line' \in Seq(Letters) /\ Len(line') = Len(line) - 1
    BY <1>1, <1>2, Dropped
  <2> QED BY <1>2, <2>1, LineAssumption
<1>4. pc' = pc /\ pc' \in Points /\ ahead' = ahead
  BY <1>1 DEF IInv, Types, Backspace, Echo
<1>5. Types' /\ Filled' /\ (ahead = 0 => pc = "read" /\ hit' = 0 /\ Cursor \in Cell)
  BY <1>1, <1>3, <1>4, KeyKeeps
<1>6. Cursor' = Coord(BS, Cursor)
  BY <1>1, EchoMoves DEF IInv
<1>7. ASSUME ahead = 0 PROVE Reading' /\ Patient'
  <2>1. Cursor \in Cell /\ Cursor \in Nat /\ pc = "read" /\ Len(line) <= Cursor
    BY <1>5, <1>7, Sizes DEF IInv, Patient, Cell
  <2>2. Cursor' = Cursor - 1 /\ Cursor - 1 \in Cell
    <3>1. Cursor > 0
      BY <1>2, <2>1
    <3>2. Cursor' = Cursor - 1
      BY <1>6, <2>1, <3>1, CoordBackspace
    <3> QED BY <2>1, <3>1, <3>2, Sizes DEF Cell
  <2>3. ~ Strays(BS, Cursor)
    BY <2>2 DEF Strays, Target
  <2>4. stray' = 0
    BY <1>1, <1>7, <2>3 DEF IInv, Patient, Echo
  <2>5. Len(line') <= Cursor'
    BY <1>2, <1>3, <2>1, <2>2
  <2> QED BY <1>4, <1>5, <1>7, <2>1, <2>2, <2>4, <2>5 DEF Reading, Patient, Writing
<1>8. CASE ahead # 0
  BY <1>4, <1>5, <1>8 DEF IInv, Reading, Patient
<1> QED BY <1>5, <1>7, <1>8 DEF IInv

LEMMA EnterInv == IInv /\ Enter => IInv'
<1> SUFFICES ASSUME IInv, Enter PROVE IInv'
  OBVIOUS
<1>1. Echo(LF) /\ line' = <<>>
  BY DEF Enter
<1>2. line' \in Seq(Letters) /\ Len(line') <= MaxLine
  BY <1>1, LineAssumption
<1>3. pc' = (IF pc = "read" THEN "out" ELSE pc) /\ pc' \in Points /\ ahead' = ahead
  BY <1>1 DEF IInv, Types, Enter, Echo, Points
<1>4. Types' /\ Filled' /\ (ahead = 0 => pc = "read" /\ hit' = 0 /\ Cursor \in Cell)
  BY <1>1, <1>2, <1>3, KeyKeeps
<1>5. Cursor' = Coord(LF, Cursor)
  BY <1>1, EchoMoves DEF IInv
<1>6. ASSUME ahead = 0 PROVE Reading' /\ Patient'
  <2>1. Cursor \in Nat /\ LF # BS
    BY CursorRange, Sizes DEF IInv, LF, BS
  <2>2. Cursor' \in Cell
    BY <1>5, <2>1, CoordInCell
  <2>3. ~ Strays(LF, Cursor)
    BY DEF Strays, Stores
  <2>4. stray' = 0
    BY <1>1, <1>6, <2>3 DEF IInv, Patient, Echo
  <2> QED BY <1>3, <1>4, <1>6, <2>2, <2>4 DEF Reading, Patient, Writing
<1>7. CASE ahead # 0
  BY <1>3, <1>4, <1>7 DEF IInv, Reading, Patient
<1> QED BY <1>4, <1>6, <1>7 DEF IInv

LEMMA StepInv == IInv /\ [Next]_vars => IInv'
<1> SUFFICES ASSUME IInv, [Next]_vars PROVE IInv'
  OBVIOUS
<1>1. CASE Thread
  BY <1>1, CallsInv, ReadInv, GetInv, DrawInv, LoopInv, PutInv DEF Thread
<1>2. CASE kbd_irq
  BY <1>2, LetterInv, BackspaceInv, EnterInv DEF kbd_irq
<1>3. CASE UNCHANGED vars
  BY <1>3 DEF vars, Locals, IInv, Types, Filled, Reading, Patient, Writing, Cursor
<1> QED BY <1>1, <1>2, <1>3 DEF Next

LEMMA Invariance == Spec => []IInv
<1>1. Init => IInv
  BY InitInv
<1>2. IInv /\ [Next]_vars => IInv'
  BY StepInv
<1> QED BY <1>1, <1>2, PTL DEF Spec

(***************************************************************************)
(* The theorems                                                            *)
(***************************************************************************)

(* For every screen, every register size and every sequence of calls and   *)
(* keys of a patient user, tty_writechar() stores into cells of the screen *)
(* only and leaves the cursor on it, backspaces included.                  *)
THEOREM ScreenStoresOnScreen == Spec => []StoresOnScreen
<1>1. IInv => StoresOnScreen
  BY DEF IInv, Types, Reading, Patient, StoresOnScreen, Place, Writing, Points
<1> QED BY <1>1, Invariance, PTL

(* However often echoes have torn the two registers apart before, a call   *)
(* that no echo falls into leaves the cursor on the screen: for every      *)
(* screen and register size, and for keys at any time.                     *)
THEOREM ScreenCursorHeals == Spec => CursorHeals
<1>1. IInv /\ [Next]_vars
      => [pc = "put4" /\ pc' = "out" /\ hit = 0 => Cursor' \in Cell]_vars
  <2> SUFFICES ASSUME IInv, Next, pc = "put4", pc' = "out", hit = 0
               PROVE  Cursor' \in Cell
    OBVIOUS
  <2>1. Put4
    BY DEF Next, Thread, kbd_irq, tty_writechar, tty_clear, tty_setcsr, Begin, tty_read,
           Get1, Get2, Get3, Get4, Draw, Scroll, ClearCell, Put1, Put2, Put3, Goto,
           Letter, Backspace, Enter
  <2> QED BY <2>1, PutCursor DEF IInv, Types
<1> QED BY <1>1, Invariance, PTL DEF Spec, CursorHeals

(* A typed letter appears behind the line, and a scroll takes the whole    *)
(* line up with it.                                                        *)
LEMMA LetterShown ==
  ASSUME IInv, LineOnScreen, ahead = 0, pc = "read", Letter
  PROVE  \A n \in 1 .. Len(line') :
           /\ Cursor' - Len(line') + n - 1 \in Cell
           /\ mem'[Cursor' - Len(line') + n - 1] = line'[n]
<1>1. PICK c \in Letters : Echo(c) /\ line' = Append(line, c)
  BY DEF Letter
<1>2. c \notin {LF, CR, TAB, BS} /\ Cursor \in Cell /\ Cursor \in Nat /\ Len(line) <= Cursor
  BY GlyphAssumption, Sizes DEF IInv, Reading, Patient, Cell
<1>3. Len(line) \in Nat /\ Len(line') = Len(line) + 1 /\ Len(line') <= MaxLine
      /\ line \in Seq(Letters)
  BY <1>1, LineAssumption DEF IInv, Types, Letter
<1>4. /\ Scrolls(c, Cursor) <=> Cursor + 1 = Cells
      /\ Cursor' = IF Cursor + 1 = Cells THEN Cells - W ELSE Cursor + 1
  BY <1>1, <1>2, CoordLetter, EchoMoves DEF IInv
<1> DEFINE m == [mem EXCEPT ![Cursor] = c]
           at(n) == Cursor - Len(line) + n - 1
<1>5. mem' = IF Cursor + 1 = Cells THEN Scrolled(m) ELSE m
  BY <1>1, <1>2, <1>4 DEF Echo, Drawn, Stores, Target
<1>6. ASSUME NEW n \in 1 .. Len(line')
      PROVE  at(n) \in Cell /\ m[at(n)] = line'[n]
  <2>1. CASE n = Len(line')
    BY <1>1, <1>2, <1>3, <2>1 DEF IInv, Types
  <2>2. CASE n # Len(line')
    <3>1. n \in 1 .. Len(line) /\ line'[n] = line[n]
      BY <1>1, <1>3, <2>2
    <3>2. at(n) \in Cell /\ mem[at(n)] = line[n]
      BY <3>1 DEF LineOnScreen
    <3>3. at(n) # Cursor
      BY <1>2, <1>3, <3>1
    <3> QED BY <3>1, <3>2, <3>3 DEF IInv, Types
  <2> QED BY <2>1, <2>2
<1>7. MaxLine <= Cells - W /\ Cells - W \in Nat
  <2>1. (H - 1) * W = Cells - W /\ (H - 1) * W \in Nat
    BY Sizes
  <2> QED BY <2>1, LineAssumption
<1> SUFFICES ASSUME NEW n \in 1 .. Len(line')
             PROVE  /\ Cursor' - Len(line') + n - 1 \in Cell
                    /\ mem'[Cursor' - Len(line') + n - 1] = line'[n]
  OBVIOUS
<1>8. at(n) \in Cell /\ m[at(n)] = line'[n]
  BY <1>6
<1>9. CASE Cursor + 1 # Cells
  <2>1. Cursor' - Len(line') + n - 1 = at(n)
    BY <1>2, <1>3, <1>4, <1>9
  <2> QED BY <1>5, <1>8, <1>9, <2>1
<1>10. CASE Cursor + 1 = Cells
  <2> DEFINE b == Cursor' - Len(line') + n - 1
  <2>1. b + W = at(n) /\ b \in Cell
    BY <1>2, <1>3, <1>4, <1>7, <1>10, LineAssumption, Sizes DEF Cell
  <2>2. mem'[b] = Shifted(m, b)
    BY <1>5, <1>10, <2>1 DEF Scrolled
  <2>3. Shifted(m, b) = m[at(n)]
    BY <1>8, <2>1 DEF Shifted
  <2> QED BY <1>8, <2>1, <2>2, <2>3
<1> QED BY <1>9, <1>10

(* A backspace erases the last letter of the line and nothing else.        *)
LEMMA BackspaceShown ==
  ASSUME IInv, LineOnScreen, ahead = 0, pc = "read", Backspace
  PROVE  \A n \in 1 .. Len(line') :
           /\ Cursor' - Len(line') + n - 1 \in Cell
           /\ mem'[Cursor' - Len(line') + n - 1] = line'[n]
<1>1. Echo(BS) /\ line # <<>> /\ line' = SubSeq(line, 1, Len(line) - 1)
  BY DEF Backspace
<1>2. Len(line) \in Nat \ {0} /\ line \in Seq(Letters)
  BY <1>1 DEF IInv, Types
<1>3. Len(line') = Len(line) - 1 /\ \A n \in 1 .. Len(line') : line'[n] = line[n]
  BY <1>1, <1>2, Dropped
<1>4. Cursor \in Cell /\ Cursor \in Nat /\ Len(line) <= Cursor /\ Cursor > 0
  BY <1>2, Sizes DEF IInv, Reading, Patient, Cell
<1>5. ~ Scrolls(BS, Cursor) /\ Cursor' = Cursor - 1
  BY <1>1, <1>4, CoordBackspace, EchoMoves DEF IInv
<1>6. mem' = Drawn(mem, BS, Cursor)
  BY <1>1, <1>5 DEF Echo
<1>7. \A b \in Cell : b # Cursor - 1 => mem'[b] = mem[b]
  BY <1>6 DEF Drawn, Target, IInv, Types
<1> SUFFICES ASSUME NEW n \in 1 .. Len(line')
             PROVE  /\ Cursor' - Len(line') + n - 1 \in Cell
                    /\ mem'[Cursor' - Len(line') + n - 1] = line'[n]
  OBVIOUS
<1> DEFINE b == Cursor - Len(line) + n - 1
<1>8. n \in 1 .. Len(line) /\ Cursor' - Len(line') + n - 1 = b /\ b # Cursor - 1
  BY <1>2, <1>3, <1>4, <1>5
<1>9. b \in Cell /\ mem[b] = line[n]
  BY <1>8 DEF LineOnScreen
<1> QED BY <1>3, <1>7, <1>8, <1>9

(* For every screen and every line that fits above its last row, what a    *)
(* patient user sees before the cursor is the line in kbd_irq()'s buffer.  *)
THEOREM ScreenLineOnScreen == Spec => []LineOnScreen
<1>1. Init => LineOnScreen
  BY DEF Init, LineOnScreen
<1>2. IInv /\ LineOnScreen /\ [Next]_vars => LineOnScreen'
  <2> SUFFICES ASSUME IInv, LineOnScreen, [Next]_vars PROVE LineOnScreen'
    OBVIOUS
  <2>1. CASE Thread
    <3>1. CASE tty_read
      BY <3>1 DEF tty_read, LineOnScreen
    <3>2. CASE ~ tty_read
      BY <2>1, <3>2 DEF LineOnScreen, Thread, tty_writechar, tty_clear, tty_setcsr, Begin,
            Get1, Get2, Get3, Get4, Draw, Scroll, ClearCell, Put1, Put2, Put3, Put4, Goto
    <3> QED BY <3>1, <3>2
  <2>2. CASE kbd_irq
    <3> SUFFICES ASSUME ahead' = 0, pc' = "read" PROVE LineOnScreen'
      BY DEF LineOnScreen
    <3>1. ahead = 0 /\ pc = "read" /\ ~ Enter
      BY <2>2 DEF kbd_irq, Letter, Backspace, Enter, Echo
    <3>2. CASE Letter
      BY <3>1, <3>2, LetterShown DEF LineOnScreen
    <3>3. CASE Backspace
      BY <3>1, <3>3, BackspaceShown DEF LineOnScreen
    <3> QED BY <2>2, <3>1, <3>2, <3>3 DEF kbd_irq
  <2>3. CASE UNCHANGED vars
    BY <2>3 DEF vars, Locals, LineOnScreen, Cursor
  <2> QED BY <2>1, <2>2, <2>3 DEF Next
<1> QED BY <1>1, <1>2, Invariance, PTL DEF Spec

(***************************************************************************)
(* The screen implements Terminal.                                         *)
(***************************************************************************)

(* The cells m cut into rows, and what a character c at a place makes of   *)
(* them.                                                                   *)
Rows(m) == [r \in 1 .. H |-> [c \in 1 .. W |-> m[(r - 1) * W + c - 1]]]

Result(m, c, at) ==
  IF Scrolls(c, at) THEN Scrolled(Drawn(m, c, at)) ELSE Drawn(m, c, at)

Symbols == Letters \cup Output \cup {Blank, "clear", "move"}

(* The place others see is on the screen until two characters have met;    *)
(* what a call noted when it began has its type.                           *)
Noted ==
  /\ mixed \in {0, 1}
  /\ mixed = 0 => Place \in Cell
  /\ Writing => old.mem \in [Cell -> Symbols] /\ old.cursor \in 0 .. (Word - 1)
  /\ pc \in {"get1", "get2", "get3", "get4", "draw", "scroll"} =>
       ch \in Output \cup {LF, CR, TAB}
  /\ pc = "clear" => ch = "clear"
  /\ ~ Writing => hit = 0

(* How far a call without an echo has come from the text that it noted, in *)
(* tty_get_cursor(), ...                                                   *)
Got ==
  /\ pc \in {"get1", "get2", "get3", "get4"} =>
       mem = old.mem /\ Cursor = old.cursor
  /\ pc = "get2" => index = "hi"
  /\ pc = "get3" => cur = reg["hi"] * Byte
  /\ pc = "get4" => index = "lo" /\ cur = reg["hi"] * Byte
  /\ pc = "draw" => mem = old.mem /\ cur = old.cursor

(* ... in the loops over the cells, ...                                    *)
Looping ==
  LET drawn == Drawn(old.mem, ch, old.cursor)
  IN  /\ pc = "scroll" =>
           /\ Scrolls(ch, old.cursor) /\ off = Coord(ch, old.cursor)
           /\ k \in Cell
           /\ \A n \in Cell : mem[n] = IF n < k THEN Shifted(drawn, n) ELSE drawn[n]
      /\ pc = "clear" =>
           /\ off = 0 /\ k \in 1 .. Cells
           /\ \A n \in Cell : n >= k => mem[n] = Blank

(* ... and in tty_update_cursor().                                         *)
Done ==
  pc \in {"put1", "put2", "put3", "put4"} =>
    IF ch = "clear" THEN off = 0 /\ \A n \in Cell : mem[n] = Blank
    ELSE IF ch = "move" THEN mem = old.mem
    ELSE /\ off = Coord(ch, old.cursor)
         /\ mem = Result(old.mem, ch, old.cursor)

Progress == hit = 0 => Got /\ Looping /\ Done

RInv == IInv /\ Noted /\ Progress

LEMMA RowOf ==
  ASSUME NEW q \in Nat, NEW x \in 0 .. (W - 1)
  PROVE  (q * W + x) \div W = q /\ (q * W + x) % W = x
<1> DEFINE v == q * W + x
           d == v \div W
           m == v % W
<1>1. W \in Nat \ {0} /\ v \in Nat /\ q * W \in Nat
  BY Sizes
<1>2. d \in Nat /\ m \in 0 .. (W - 1) /\ v = W * d + m
  BY <1>1, DivMod
<1>3. q * W + x = W * d + m
  BY <1>2
<1> HIDE DEF d, m
<1>4. ~ (q < d)
  <2> SUFFICES ASSUME q < d PROVE FALSE
    OBVIOUS
  <2>1. PICK e \in Nat : d = q + 1 + e
    <3>1. d - q - 1 \in Nat /\ d = q + 1 + (d - q - 1)
      BY <1>2
    <3> QED BY <3>1
  <2>2. W * d = q * W + W + W * e /\ W * e \in Nat
    BY <1>1, <2>1
  <2> QED BY <1>1, <1>2, <1>3, <2>2
<1>5. ~ (d < q)
  <2> SUFFICES ASSUME d < q PROVE FALSE
    OBVIOUS
  <2>1. PICK e \in Nat : q = d + 1 + e
    <3>1. q - d - 1 \in Nat /\ q = d + 1 + (q - d - 1)
      BY <1>2
    <3> QED BY <3>1
  <2>2. q * W = W * d + W + W * e /\ W * e \in Nat
    BY <1>1, <1>2, <2>1
  <2>3. W * d \in Nat
    BY <1>1, <1>2
  <2> QED BY <1>1, <1>2, <1>3, <2>2, <2>3
<1>6. d = q
  BY <1>2, <1>4, <1>5
<1>7. m = x
  BY <1>1, <1>2, <1>3, <1>6
<1> QED BY <1>6, <1>7 DEF d, m

(* The cell at row r and column c.                                         *)
LEMMA CellOf ==
  ASSUME NEW r \in 1 .. H, NEW c \in 1 .. W
  PROVE  /\ (r - 1) * W + c - 1 \in Cell
         /\ ((r - 1) * W + c - 1) \div W = r - 1
         /\ ((r - 1) * W + c - 1) % W = c - 1
<1>1. r - 1 \in 0 .. (H - 1) /\ c - 1 \in 0 .. (W - 1) /\ r - 1 \in Nat
  BY Sizes
<1>2. (r - 1) * W + c - 1 = (r - 1) * W + (c - 1)
  BY <1>1, Sizes
<1>3. (r - 1) * W + (c - 1) \in Cell
  BY ONLY <1>1, RowColumn, Zenon
<1>4. /\ ((r - 1) * W + (c - 1)) \div W = r - 1
      /\ ((r - 1) * W + (c - 1)) % W = c - 1
  BY ONLY <1>1, RowOf, Zenon
<1> QED BY <1>2, <1>3, <1>4

(* Row and column of a cell.                                               *)
LEMMA PlaceOf ==
  ASSUME NEW at \in Cell
  PROVE  /\ at \div W \in 0 .. (H - 1) /\ at % W \in 0 .. (W - 1)
         /\ at = (at \div W) * W + (at % W)
         /\ at \div W + 1 \in 1 .. H /\ (at % W) + 1 \in 1 .. W
<1>1. at \in Nat /\ at < W * H
  BY Sizes DEF Cell
<1>2. /\ at \div W \in Nat /\ at % W \in 0 .. (W - 1)
      /\ at = W * (at \div W) + (at % W) /\ at \div W < H
  BY <1>1, DivMod, DivBelow, Sizes
<1> QED BY <1>2, Sizes

LEMMA SameCell ==
  ASSUME NEW at \in Cell, NEW r \in 1 .. H, NEW c \in 1 .. W
  PROVE  (r - 1) * W + c - 1 = at <=> r = at \div W + 1 /\ c = (at % W) + 1
<1>1. /\ at \div W \in 0 .. (H - 1) /\ at % W \in 0 .. (W - 1)
      /\ at = (at \div W) * W + (at % W)
  BY PlaceOf
<1>2. ASSUME (r - 1) * W + c - 1 = at
      PROVE  r = at \div W + 1 /\ c = (at % W) + 1
  <2>1. at \div W = r - 1 /\ at % W = c - 1
    BY <1>2, CellOf
  <2> QED BY <2>1
<1>3. ASSUME r = at \div W + 1, c = (at % W) + 1
      PROVE  (r - 1) * W + c - 1 = at
  <2>1. r - 1 = at \div W /\ c - 1 = at % W
    BY <1>1, <1>3
  <2>2. (r - 1) * W + (c - 1) = at
    BY <1>1, <2>1
  <2>3. (r - 1) * W \in Int
    BY Sizes
  <2> QED BY <2>2, <2>3
<1> QED BY <1>2, <1>3

(* A stored cell is a changed column of a row.                             *)
Stored(m, at, v) == [m EXCEPT ![at] = v]
Placed(t, i, j, v) == [t EXCEPT ![j + 1] = [t[j + 1] EXCEPT ![i + 1] = v]]

LEMMA RowsStore ==
  ASSUME NEW m \in [Cell -> Symbols], NEW at \in Cell, NEW v
  PROVE  Rows(Stored(m, at, v)) = Placed(Rows(m), at % W, at \div W, v)
<1> DEFINE x == at % W
           y == at \div W
           m2 == [m EXCEPT ![at] = v]
           new == [Rows(m) EXCEPT ![y + 1] = [Rows(m)[y + 1] EXCEPT ![x + 1] = v]]
<1>1. y + 1 \in 1 .. H /\ x + 1 \in 1 .. W
  BY PlaceOf
<1>2. ASSUME NEW r \in 1 .. H, NEW c \in 1 .. W
      PROVE  m2[(r - 1) * W + c - 1]
               = IF r = y + 1 /\ c = x + 1 THEN v ELSE m[(r - 1) * W + c - 1]
  <2>1. (r - 1) * W + c - 1 \in Cell
    BY CellOf
  <2>2. (r - 1) * W + c - 1 = at <=> r = y + 1 /\ c = x + 1
    BY SameCell
  <2> HIDE DEF x, y
  <2> QED BY <2>1, <2>2
<1> HIDE DEF x, y
<1>3. /\ DOMAIN Rows(m) = 1 .. H /\ DOMAIN Rows(m2) = 1 .. H
      /\ \A r \in 1 .. H : /\ Rows(m)[r] = [c \in 1 .. W |-> m[(r - 1) * W + c - 1]]
                           /\ Rows(m2)[r] = [c \in 1 .. W |-> m2[(r - 1) * W + c - 1]]
  BY DEF Rows
<1>4. /\ new = [Rows(m) EXCEPT ![y + 1] = [Rows(m)[y + 1] EXCEPT ![x + 1] = v]]
      /\ DOMAIN new = 1 .. H
  BY <1>3
<1> HIDE DEF m2, new
<1>5. ASSUME NEW r \in 1 .. H PROVE Rows(m2)[r] = new[r]
  <2>1. CASE r = y + 1
    <3>1. new[r] = [Rows(m)[r] EXCEPT ![x + 1] = v]
      BY <1>1, <1>3, <1>4, <2>1
    <3>2. new[r] = [c \in 1 .. W |-> IF c = x + 1 THEN v ELSE m[(r - 1) * W + c - 1]]
      <4>1. Rows(m)[r] = [c \in 1 .. W |-> m[(r - 1) * W + c - 1]]
        BY <1>3
      <4>2. [Rows(m)[r] EXCEPT ![x + 1] = v]
              = [c \in 1 .. W |-> IF c = x + 1 THEN v ELSE Rows(m)[r][c]]
        BY <4>1
      <4>3. \A c \in 1 .. W : Rows(m)[r][c] = m[(r - 1) * W + c - 1]
        BY <4>1
      <4> QED BY <3>1, <4>2, <4>3
    <3>3. \A c \in 1 .. W : m2[(r - 1) * W + c - 1]
                              = IF c = x + 1 THEN v ELSE m[(r - 1) * W + c - 1]
      BY <1>2, <2>1
    <3> QED BY <1>3, <3>2, <3>3
  <2>2. CASE r # y + 1
    <3>1. new[r] = Rows(m)[r]
      BY <1>3, <1>4, <2>2
    <3>2. \A c \in 1 .. W : m2[(r - 1) * W + c - 1] = m[(r - 1) * W + c - 1]
      BY <1>2, <2>2
    <3>3. new[r] = [c \in 1 .. W |-> m[(r - 1) * W + c - 1]]
      BY <1>3, <3>1
    <3>4. Rows(m2)[r] = [c \in 1 .. W |-> m2[(r - 1) * W + c - 1]]
      BY <1>3
    <3> QED BY <3>2, <3>3, <3>4
  <2> QED BY <2>1, <2>2
<1>6. Rows(m2) = new
  <2>1. Rows(m2) = [r \in 1 .. H |-> Rows(m2)[r]]
    BY <1>3 DEF Rows
  <2>2. new = [r \in 1 .. H |-> new[r]]
    BY <1>4
  <2> QED BY <1>5, <2>1, <2>2
<1> QED BY <1>6 DEF m2, new, x, y, Stored, Placed

LEMMA RowsAreASequence ==
  ASSUME NEW m \in [Cell -> Symbols]
  PROVE  /\ Rows(m) \in Seq([1 .. W -> Symbols])
         /\ Len(Rows(m)) = H
         /\ \A r \in 1 .. H : Rows(m)[r] = [c \in 1 .. W |-> m[(r - 1) * W + c - 1]]
<1>1. \A r \in 1 .. H, c \in 1 .. W : (r - 1) * W + c - 1 \in Cell
  BY CellOf
<1>2. Rows(m) \in [1 .. H -> [1 .. W -> Symbols]]
  BY <1>1 DEF Rows
<1>3. H \in Nat
  BY Sizes
<1>4. Rows(m) \in Seq([1 .. W -> Symbols]) /\ Len(Rows(m)) = H
  BY <1>2, <1>3
<1> QED BY <1>4 DEF Rows

(* Scrolling drops the first row and adds a blank one.                     *)
LEMMA RowsScroll ==
  ASSUME NEW m \in [Cell -> Symbols]
  PROVE  Rows(Scrolled(m)) = Append(Tail(Rows(m)), [c \in 1 .. W |-> Blank])
<1> DEFINE b == [c \in 1 .. W |-> Blank]
           R == [1 .. W -> Symbols]
           u == Tail(Rows(m))
           s == Rows(Scrolled(m))
           t == Append(u, b)
<1>1. H \in Nat \ {0} /\ W \in Nat \ {0}
  BY Sizes
<1>2. Scrolled(m) \in [Cell -> Symbols] /\ b \in R
  BY DEF Scrolled, Shifted, Symbols
<1>3. /\ Rows(m) \in Seq(R) /\ Len(Rows(m)) = H
      /\ s \in Seq(R) /\ Len(s) = H
      /\ \A r \in 1 .. H : /\ Rows(m)[r] = [c \in 1 .. W |-> m[(r - 1) * W + c - 1]]
                           /\ s[r] = [c \in 1 .. W |-> Scrolled(m)[(r - 1) * W + c - 1]]
  BY <1>2, RowsAreASequence
<1>4. /\ u \in Seq(R) /\ Len(u) = H - 1
      /\ \A r \in 1 .. (H - 1) : u[r] = Rows(m)[r + 1]
  <2>1. Rows(m) # <<>>
    BY <1>1, <1>3
  <2> QED BY <1>1, <1>3, <2>1, HeadTailProperties
<1>5. /\ t \in Seq(R) /\ Len(t) = H
      /\ \A r \in 1 .. (H - 1) : t[r] = Rows(m)[r + 1]
      /\ t[H] = b
  <2> HIDE DEF u, b, R
  <2>1. /\ t \in Seq(R) /\ Len(t) = Len(u) + 1
        /\ \A r \in 1 .. Len(u) : t[r] = u[r]
        /\ t[Len(u) + 1] = b
    BY <1>2, <1>4, AppendProperties
  <2> QED BY <1>1, <1>4, <2>1
<1> HIDE DEF s, t, R
<1>6. ASSUME NEW r \in 1 .. H PROVE s[r] = t[r]
  <2>1. \A c \in 1 .. W : (r - 1) * W + c - 1 \in Cell
    BY CellOf
  <2>2. s[r] = [c \in 1 .. W |-> Shifted(m, (r - 1) * W + c - 1)]
    <3>1. \A n \in Cell : Scrolled(m)[n] = Shifted(m, n)
      BY DEF Scrolled
    <3>2. s[r] = [c \in 1 .. W |-> Scrolled(m)[(r - 1) * W + c - 1]]
      BY <1>3
    <3>3. \A c \in 1 .. W : Scrolled(m)[(r - 1) * W + c - 1]
                              = Shifted(m, (r - 1) * W + c - 1)
      BY <2>1, <3>1
    <3> QED BY <3>2, <3>3
  <2>3. CASE r < H
    <3>1. r + 1 \in 1 .. H /\ r \in 1 .. (H - 1)
      BY <1>1, <2>3
    <3>2. ASSUME NEW c \in 1 .. W
          PROVE  Shifted(m, (r - 1) * W + c - 1) = m[(r + 1 - 1) * W + c - 1]
      <4>1. (r + 1 - 1) * W + c - 1 \in Cell
        BY <3>1, CellOf
      <4>2. (r - 1) * W + c - 1 + W = (r + 1 - 1) * W + c - 1
        BY <1>1
      <4> QED BY <4>1, <4>2 DEF Shifted
    <3>3. t[r] = [c \in 1 .. W |-> m[(r + 1 - 1) * W + c - 1]]
      <4>1. t[r] = Rows(m)[r + 1]
        BY <1>5, <3>1
      <4>2. Rows(m)[r + 1] = [c \in 1 .. W |-> m[(r + 1 - 1) * W + c - 1]]
        BY <3>1 DEF Rows
      <4> QED BY <4>1, <4>2
    <3> QED BY <2>2, <3>2, <3>3
  <2>4. CASE r = H
    <3>1. ASSUME NEW c \in 1 .. W
          PROVE  Shifted(m, (r - 1) * W + c - 1) = Blank
      <4>1. (H - 1) * W + c - 1 + W = W * H + (c - 1) /\ W * H \in Nat
        BY <1>1
      <4>2. (H - 1) * W + c - 1 + W \notin Cell
        BY <4>1, <1>1, Sizes DEF Cell
      <4> QED BY <4>2, <2>4 DEF Shifted
    <3>2. t[r] = [c \in 1 .. W |-> Blank]
      BY <1>5, <2>4
    <3> QED BY <2>2, <3>1, <3>2
  <2> QED BY <1>1, <2>3, <2>4
<1>7. s = t
  BY <1>3, <1>5, <1>6, SeqEqual
<1> QED BY <1>7 DEF s, t

(* Where a character leads, in rows and columns.                           *)
LEMMA CoordIs ==
  ASSUME NEW c, NEW at, NEW x \in 0 .. (W - 1), NEW y \in 0 .. H,
         Moved(c, at) = <<x, y>>
  PROVE  /\ Scrolls(c, at) <=> y = H
         /\ Coord(c, at) % W = x
         /\ Coord(c, at) \div W = IF y = H THEN H - 1 ELSE y
         /\ Coord(c, at) \in Cell
<1> DEFINE row == IF y >= H THEN H - 1 ELSE y
<1>1. row \in 0 .. (H - 1) /\ row \in Nat /\ row = IF y = H THEN H - 1 ELSE y
  BY Sizes
<1>2. Scrolls(c, at) <=> y = H
  BY Sizes DEF Scrolls
<1>3. Coord(c, at) = (row * W + x) % Word
  BY DEF Coord
<1> HIDE DEF row
<1>4. row * W + x \in Cell
  BY <1>1, RowColumn
<1>5. Coord(c, at) = row * W + x
  BY <1>3, <1>4, SmallMod, Sizes DEF Cell
<1>6. (row * W + x) \div W = row /\ (row * W + x) % W = x
  BY <1>1, RowOf
<1> QED BY <1>1, <1>2, <1>4, <1>5, <1>6

LEMMA NewLineIs ==
  ASSUME NEW c, NEW at \in Cell, Moved(c, at) = <<0, at \div W + 1>>
  PROVE  /\ Coord(c, at) % W = 0
         /\ Coord(c, at) \in Cell
         /\ at \div W + 1 < H =>
              ~ Scrolls(c, at) /\ Coord(c, at) \div W = at \div W + 1
         /\ ~ (at \div W + 1 < H) =>
              Scrolls(c, at) /\ Coord(c, at) \div W = at \div W
<1> DEFINE y == at \div W
<1>1. y \in 0 .. (H - 1) /\ y + 1 \in 0 .. H /\ 0 \in 0 .. (W - 1)
  BY PlaceOf, Sizes
<1>2. /\ Scrolls(c, at) <=> y + 1 = H
      /\ Coord(c, at) % W = 0
      /\ Coord(c, at) \div W = IF y + 1 = H THEN H - 1 ELSE y + 1
      /\ Coord(c, at) \in Cell
  BY <1>1, CoordIs
<1> HIDE DEF y
<1>3. y + 1 < H => ~ Scrolls(c, at) /\ Coord(c, at) \div W = y + 1
  BY <1>1, <1>2
<1>4. ~ (y + 1 < H) => Scrolls(c, at) /\ Coord(c, at) \div W = y
  BY <1>1, <1>2, Sizes
<1> QED BY <1>2, <1>3, <1>4 DEF y

LEMMA MovedIs ==
  ASSUME NEW at \in Cell, NEW c
  PROVE  LET x == at % W
             y == at \div W
             stop == (x \div TabStop + 1) * TabStop
         IN  /\ c = LF => Moved(c, at) = <<0, y + 1>>
             /\ c = CR => Moved(c, at) = <<0, y>>
             /\ c = TAB => Moved(c, at) = IF stop < W THEN <<stop, y>> ELSE <<0, y + 1>>
             /\ c = BS => Moved(c, at) = IF x > 0 THEN <<x - 1, y>> ELSE <<W - 1, y - 1>>
             /\ c \notin {LF, CR, TAB, BS} =>
                  Moved(c, at) = IF x + 1 < W THEN <<x + 1, y>> ELSE <<0, y + 1>>
<1> DEFINE x == at % W
           y == at \div W
<1>1. /\ x \in 0 .. (W - 1) /\ y \in 0 .. (H - 1) /\ W \in Nat \ {0}
      /\ (x \div TabStop + 1) * TabStop \in Nat
  <2>1. x \in 0 .. (W - 1) /\ y \in 0 .. (H - 1) /\ W \in Nat \ {0} /\ x \in Nat
    BY PlaceOf, Sizes
  <2>2. x \div TabStop \in Nat /\ TabStop \in Nat
    BY <2>1, DivMod, TabAssumption
  <2>3. (x \div TabStop + 1) * TabStop \in Nat
    BY <2>2
  <2> QED BY <2>1, <2>3
<1> DEFINE stop == (x \div TabStop + 1) * TabStop
<1>2. c = LF => Moved(c, at) = <<0, y + 1>>
  <2> HAVE c = LF
  <2>1. Switched(c, at) = <<0, y + 1>>
    BY DEF Switched, LF, CR, TAB, BS
  <2> QED BY <1>1, <2>1 DEF Moved
<1>3. c = CR => Moved(c, at) = <<0, y>>
  <2> HAVE c = CR
  <2>1. Switched(c, at) = <<0, y>>
    BY DEF Switched, LF, CR, TAB, BS
  <2> QED BY <1>1, <2>1 DEF Moved
<1>4. c = TAB => Moved(c, at) = IF stop < W THEN <<stop, y>> ELSE <<0, y + 1>>
  <2> HAVE c = TAB
  <2>1. Switched(c, at) = <<stop, y>>
    BY DEF Switched, LF, CR, TAB, BS
  <2> HIDE DEF stop
  <2>2. stop \in Nat
    BY <1>1 DEF stop
  <2> QED BY <1>1, <2>1, <2>2 DEF Moved
<1>5. c = BS => Moved(c, at) = IF x > 0 THEN <<x - 1, y>> ELSE <<W - 1, y - 1>>
  <2> HAVE c = BS
  <2>1. Switched(c, at) = <<x - 1, y>>
    BY DEF Switched, LF, CR, TAB, BS
  <2>2. CASE x > 0
    BY <1>1, <2>1, <2>2 DEF Moved
  <2>3. CASE x = 0
    <3>1. x - 1 + W = W - 1 /\ x - 1 < 0 /\ ~ (x - 1 >= W) /\ ~ (x > 0)
      BY <1>1, <2>3
    <3> QED BY <1>1, <2>1, <3>1 DEF Moved
  <2> QED BY <1>1, <2>2, <2>3
<1>6. c \notin {LF, CR, TAB, BS} =>
        Moved(c, at) = IF x + 1 < W THEN <<x + 1, y>> ELSE <<0, y + 1>>
  <2> HAVE c \notin {LF, CR, TAB, BS}
  <2>1. Switched(c, at) = <<x + 1, y>>
    BY DEF Switched, LF, CR, TAB, BS
  <2> QED BY <1>1, <2>1 DEF Moved
<1> QED BY <1>2, <1>3, <1>4, <1>5, <1>6

(* What others see goes from one text and place to the next by c.          *)
Written(c) == Text' = Result(Text, c, Place) /\ Place' = Coord(c, Place)

(* What tty_writechar() does for a character is what the terminal does for *)
(* the same character.                                                     *)
LEMMA CharacterStep ==
  ASSUME Text \in [Cell -> Symbols], Place \in Cell,
         NEW c \in Letters \cup Output \cup {LF, CR, TAB, BS},
         ~ Strays(c, Place), Written(c)
  PROVE  Promise!Wrote(c) /\ Place' \in Cell
<1> DEFINE x == Place % W
           y == Place \div W
           x2 == Place' % W
           y2 == Place' \div W
           t == Rows(Text)
           t2 == Rows(Text')
           d == Drawn(Text, c, Place)
           blank == [j \in 1 .. W |-> Blank]
           Line(u) == /\ x2 = 0
                      /\ IF y + 1 < H THEN t2 = u /\ y2 = y + 1
                         ELSE t2 = Append(Tail(u), blank) /\ y2 = y
<1>1. /\ x \in 0 .. (W - 1) /\ y \in 0 .. (H - 1)
      /\ Place = y * W + x /\ y + 1 \in 0 .. H
  BY PlaceOf, Sizes
<1>2. /\ Place' = Coord(c, Place)
      /\ Text' = IF Scrolls(c, Place) THEN Scrolled(d) ELSE d
  BY DEF Written, Result
<1>3. d \in [Cell -> Symbols]
  <2>1. Blank \in Symbols /\ (Stores(c) /\ c # BS => c \in Symbols)
    BY DEF Symbols, Stores
  <2> QED BY <2>1, StoreCell DEF Drawn
<1>4. ASSUME Moved(c, Place) = <<0, y + 1>>
      PROVE  Line(Rows(d)) /\ Place' \in Cell
  <2> HIDE DEF d
  <2>1. /\ Coord(c, Place) % W = 0
        /\ Coord(c, Place) \in Cell
        /\ y + 1 < H => ~ Scrolls(c, Place) /\ Coord(c, Place) \div W = y + 1
        /\ ~ (y + 1 < H) => Scrolls(c, Place) /\ Coord(c, Place) \div W = y
    BY <1>4, NewLineIs
  <2>2. Rows(Scrolled(d)) = Append(Tail(Rows(d)), blank)
    BY <1>3, RowsScroll
  <2>3. CASE y + 1 < H
    BY <1>2, <2>1, <2>3
  <2>4. CASE ~ (y + 1 < H)
    BY <1>2, <2>1, <2>2, <2>4
  <2> QED BY <2>3, <2>4
<1>5. ASSUME NEW mx \in 0 .. (W - 1), NEW my \in 0 .. (H - 1),
             Moved(c, Place) = <<mx, my>>
      PROVE  t2 = Rows(d) /\ x2 = mx /\ y2 = my /\ Place' \in Cell
  <2>1. my \in 0 .. H /\ my # H
    BY Sizes
  <2>2. /\ ~ Scrolls(c, Place) /\ Coord(c, Place) % W = mx
        /\ Coord(c, Place) \div W = my /\ Coord(c, Place) \in Cell
    BY <1>5, <2>1, CoordIs
  <2> QED BY <1>2, <2>2
<1>6. \A u : Line(u) => (u = t => Promise!NewLine(t))
  BY DEF Promise!NewLine, Promise!BlankRow, Rows
<1>7. CASE c \in {LF, CR, TAB}
  <2>1. d = Text
    BY <1>7 DEF Drawn, Stores
  <2>2. CASE c = LF
    <3>1. Line(t) /\ Place' \in Cell
      BY <1>4, <2>1, <2>2, MovedIs
    <3>2. Promise!NewLine(t)
      BY <3>1, <1>6
    <3> QED BY <2>2, <3>1, <3>2 DEF Promise!Wrote, Rows, LF
  <2>3. CASE c = CR
    <3>1. Moved(c, Place) = <<0, y>> /\ 0 \in 0 .. (W - 1)
      BY <2>3, MovedIs, Sizes
    <3>2. t2 = t /\ x2 = 0 /\ y2 = y /\ Place' \in Cell
      BY <1>1, <1>5, <2>1, <3>1
    <3> QED BY <2>3, <3>2 DEF Promise!Wrote, Promise!Return, Rows, CR
  <2>4. CASE c = TAB
    <3> DEFINE stop == (x \div TabStop + 1) * TabStop
    <3>1. Moved(c, Place) = IF stop < W THEN <<stop, y>> ELSE <<0, y + 1>>
      BY <2>4, MovedIs
    <3>2. stop \in Nat
      <4>1. x \in Nat /\ TabStop \in Nat \ {0}
        BY <1>1, TabAssumption, Sizes
      <4>2. x \div TabStop \in Nat
        BY <4>1, DivMod
      <4> QED BY <4>1, <4>2
    <3>3. CASE stop < W
      <4>1. stop \in 0 .. (W - 1)
        BY <3>2, <3>3, Sizes
      <4>2. t2 = t /\ x2 = stop /\ y2 = y /\ Place' \in Cell
        BY <1>1, <1>5, <2>1, <3>1, <3>3, <4>1
      <4>3. Promise!Tab
        BY <3>3, <4>2 DEF Promise!Tab, Rows
      <4> QED BY <2>4, <4>2, <4>3 DEF Promise!Wrote, TAB
    <3>4. CASE ~ (stop < W)
      <4>1. Line(t) /\ Place' \in Cell
        BY <1>4, <2>1, <3>1, <3>4
      <4>2. Promise!NewLine(t)
        BY <4>1, <1>6
      <4>3. Promise!Tab
        BY <3>4, <4>2 DEF Promise!Tab, Rows
      <4> QED BY <2>4, <4>1, <4>3 DEF Promise!Wrote, TAB
    <3> QED BY <3>3, <3>4
  <2> QED BY <1>7, <2>2, <2>3, <2>4
<1>8. CASE c = BS
  <2>1. Place > 0 /\ Place - 1 \in Cell
    BY <1>8 DEF Strays, Stores, Target, LF, CR, TAB, BS, Cell
  <2>2. d = Stored(Text, Place - 1, Blank)
    BY <1>8, <2>1 DEF Drawn, Stores, Target, LF, CR, TAB, BS, Stored
  <2> DEFINE erased(i, j) == Placed(t, i, j, Blank)
  <2>3. Rows(d) = erased((Place - 1) % W, (Place - 1) \div W)
    BY <2>1, <2>2, RowsStore
  <2>4. Coord(c, Place) = Place - 1 /\ ~ Scrolls(c, Place)
    BY <1>8, <2>1, CoordBackspace
  <2>5. t2 = erased(x2, y2) /\ Place' \in Cell
    BY <1>2, <2>1, <2>3, <2>4
  <2>6. CASE x > 0
    <3>1. Moved(c, Place) = <<x - 1, y>> /\ x - 1 \in 0 .. (W - 1)
      <4>1. Moved(c, Place) = IF x > 0 THEN <<x - 1, y>> ELSE <<W - 1, y - 1>>
        BY <1>8, MovedIs
      <4> HIDE DEF x, y
      <4> QED BY <1>1, <2>6, <4>1, Sizes
    <3>2. x2 = x - 1 /\ y2 = y
      BY <1>1, <1>5, <3>1
    <3>3. Promise!Backspace
      BY <2>5, <2>6, <3>2 DEF Promise!Backspace, Rows, Placed
    <3> QED BY <1>8, <2>5, <3>3 DEF Promise!Wrote, BS
  <2>7. CASE x = 0
    <3>1. y > 0
      BY <1>1, <2>1, <2>7, Sizes
    <3>2. /\ Moved(c, Place) = <<W - 1, y - 1>>
          /\ W - 1 \in 0 .. (W - 1) /\ y - 1 \in 0 .. (H - 1) /\ ~ (x > 0)
      BY <1>1, <1>8, <2>7, <3>1, MovedIs, Sizes
    <3>3. x2 = W - 1 /\ y2 = y - 1
      BY <1>5, <3>2
    <3>4. Promise!Backspace
      BY <2>5, <3>1, <3>2, <3>3 DEF Promise!Backspace, Rows, Placed
    <3> QED BY <1>8, <2>5, <3>4 DEF Promise!Wrote, BS
  <2> QED BY <1>1, <2>6, <2>7
<1>9. CASE c \notin {LF, CR, TAB, BS}
  <2>1. d = Stored(Text, Place, c) /\ c \in Letters \cup Output
    BY <1>9 DEF Drawn, Stores, Target, Stored
  <2> DEFINE put == Placed(t, x, y, c)
  <2>2. Rows(d) = put
    BY <2>1, RowsStore
  <2>3. CASE x + 1 < W
    <3>1. Moved(c, Place) = <<x + 1, y>> /\ x + 1 \in 0 .. (W - 1)
      <4>1. Moved(c, Place) = IF x + 1 < W THEN <<x + 1, y>> ELSE <<0, y + 1>>
        BY <1>9, MovedIs
      <4> HIDE DEF x, y
      <4> QED BY <1>1, <2>3, <4>1, Sizes
    <3>2. t2 = put /\ x2 = x + 1 /\ y2 = y /\ Place' \in Cell
      BY <1>1, <1>5, <2>2, <3>1
    <3>3. Promise!PutGlyph(c)
      BY <2>3, <3>2 DEF Promise!PutGlyph, Rows, Placed
    <3> QED BY <2>1, <3>2, <3>3 DEF Promise!Wrote
  <2>4. CASE ~ (x + 1 < W)
    <3>1. Moved(c, Place) = <<0, y + 1>>
      BY <1>9, <2>4, MovedIs
    <3>2. Line(put) /\ Place' \in Cell
      BY <1>4, <2>2, <3>1
    <3>3. Promise!PutGlyph(c)
      BY <2>4, <3>2 DEF Promise!PutGlyph, Promise!NewLine, Promise!BlankRow, Rows, Placed
    <3> QED BY <2>1, <3>2, <3>3 DEF Promise!Wrote
  <2> QED BY <2>3, <2>4
<1> QED BY <1>7, <1>8, <1>9

(***************************************************************************)
(* What others see of a step                                               *)
(***************************************************************************)

Same == Text' = Text /\ Place' = Place /\ mixed' = mixed

(* Until it returns, a call shows nothing of what it does.                 *)
LEMMA Quiet ==
  ASSUME Thread, ~ Put4
  PROVE  Same
<1>1. CASE tty_writechar \/ tty_clear \/ tty_setcsr
  <2>1. PICK c \in Calls, p \in {"get1", "clear", "put1"} : Begin(c, p)
    BY <1>1 DEF tty_writechar, tty_clear, tty_setcsr, Calls
  <2>2. ~ Writing /\ Writing' /\ old'.mem = mem /\ old'.cursor = Cursor /\ mixed' = mixed
    BY <2>1 DEF Begin, Goto, Writing
  <2> QED BY <2>2 DEF Same, Text, Place
<1>2. CASE tty_read
  <2>1. ~ Writing /\ ~ Writing' /\ mem' = mem /\ Cursor' = Cursor /\ mixed' = mixed
    BY <1>2 DEF tty_read, Goto, Writing, Cursor
  <2> QED BY <2>1 DEF Same, Text, Place
<1>3. CASE Get1 \/ Get2 \/ Get3 \/ Get4 \/ Put1 \/ Put2 \/ Put3
  <2>1. Writing /\ Writing' /\ old' = old /\ mixed' = mixed
    BY <1>3 DEF Get1, Get2, Get3, Get4, Put1, Put2, Put3, Goto, Port, Writing
  <2> QED BY <2>1 DEF Same, Text, Place
<1>4. CASE Draw \/ Scroll \/ ClearCell
  <2>1. Writing /\ Writing' /\ old' = old /\ mixed' = mixed
    BY <1>4 DEF Draw, Scroll, ClearCell, Writing
  <2> QED BY <2>1 DEF Same, Text, Place
<1> QED BY <1>1, <1>2, <1>3, <1>4 DEF Thread

(* Nor does an echo that falls into a call.                                *)
LEMMA EchoInside ==
  ASSUME NEW c, Echo(c), Writing, pc' = pc
  PROVE  Same /\ hit' = 1
BY DEF Echo, Same, Text, Place, Writing

(* Any other echo is seen as one character.                                *)
LEMMA EchoOutside ==
  ASSUME Types, NEW c \in Letters \cup {LF, BS}, Echo(c), ~ Writing,
         pc' \in {"out", "read"}
  PROVE  /\ Written(c) /\ mixed' = IF Strays(c, Place) THEN 1 ELSE mixed
         /\ Text \in [Cell -> Symbols]
<1>1. ~ Writing' /\ Text' = mem' /\ Place' = Cursor' /\ Text = mem /\ Place = Cursor
  BY DEF Writing, Text, Place
<1>2. Cursor' = Coord(c, Cursor)
  BY EchoMoves
<1>3. mem' = Result(mem, c, Cursor)
  BY DEF Echo, Result
<1>4. mixed' = IF Strays(c, Cursor) THEN 1 ELSE mixed
  BY DEF Echo
<1> QED BY <1>1, <1>2, <1>3, <1>4 DEF Written, Types, Symbols

(* A key is one echo, into a call or outside of all.                       *)
LEMMA KeyEchoes ==
  ASSUME Types, kbd_irq
  PROVE  \E c \in Letters \cup {LF, BS} :
           /\ Echo(c)
           /\ Writing => pc' = pc
           /\ ~ Writing => pc' \in {"out", "read"}
<1>1. CASE Letter
  <2>1. PICK c \in Letters : Echo(c)
    BY <1>1 DEF Letter
  <2> QED BY <1>1, <2>1 DEF Letter, Writing
<1>2. CASE Backspace
  BY <1>2 DEF Backspace, Writing
<1>3. CASE Enter
  BY <1>3 DEF Enter, Writing
<1> QED BY <1>1, <1>2, <1>3 DEF kbd_irq

(* A call that no echo fell into is seen as a whole when it returns.       *)
LEMMA Returned ==
  ASSUME RInv, Put4, hit = 0
  PROVE  /\ Text \in [Cell -> Symbols]
         /\ ch = "clear" => Text' = [n \in Cell |-> Blank] /\ Place' = 0
         /\ ch = "move" => Text' = Text /\ Place' = off
         /\ ch \notin {"clear", "move"} => Written(ch)
         /\ Place' \in Cell
<1>1. Writing /\ ~ Writing' /\ mem' = mem
  BY DEF Put4, Goto, Writing
<1>2. Text' = mem /\ Place' = Cursor' /\ Text = old.mem /\ Place = old.cursor
  BY <1>1 DEF Text, Place
<1>3. Cursor' = off /\ off \in Cell
  BY PutCursor DEF RInv, IInv, Types
<1>4. IF ch = "clear" THEN off = 0 /\ \A n \in Cell : mem[n] = Blank
      ELSE IF ch = "move" THEN mem = old.mem
      ELSE off = Coord(ch, old.cursor) /\ mem = Result(old.mem, ch, old.cursor)
  BY DEF RInv, Progress, Done, Put4, Goto
<1>5. mem = [n \in Cell |-> mem[n]]
  BY DEF RInv, IInv, Types
<1>6. old.mem \in [Cell -> Symbols]
  BY <1>1 DEF RInv, Noted
<1>7. ch = "clear" => Text' = [n \in Cell |-> Blank] /\ Place' = 0
  BY <1>2, <1>3, <1>4, <1>5
<1>8. ch \notin {"clear", "move"} => Written(ch)
  BY <1>2, <1>3, <1>4 DEF Written
<1> QED BY <1>2, <1>3, <1>4, <1>6, <1>7, <1>8

(***************************************************************************)
(* The invariant behind it                                                 *)
(***************************************************************************)

LEMMA RInvInit == Init => RInv
<1> SUFFICES ASSUME Init PROVE RInv
  OBVIOUS
<1>1. PICK at \in Cell : reg = Divided(at)
  BY DEF Init
<1>2. at \in 0 .. (Word - 1)
  BY Sizes DEF Cell
<1>3. Cursor = at
  BY <1>1, <1>2, DividedCursor DEF Cursor
<1>4. Noted
  BY <1>3 DEF Init, Noted, Place, Writing
<1>5. Progress
  BY DEF Init, Progress, Got, Looping, Done
<1> QED BY <1>4, <1>5, InitInv DEF RInv

(* The characters of the calls are none of their names.                    *)
LEMMA NotACall ==
  ASSUME NEW c \in Output \cup {LF, CR, TAB}
  PROVE  c \notin {"clear", "move", BS}
BY GlyphAssumption DEF LF, CR, TAB, BS

LEMMA CallsNoted ==
  ASSUME RInv, tty_writechar \/ tty_clear \/ tty_setcsr
  PROVE  Noted'
<1>1. Same
  BY Quiet DEF Thread, tty_writechar, tty_clear, tty_setcsr, Begin, Goto, Put4
<1>2. PICK c \in Calls, p \in {"get1", "clear", "put1"} :
        /\ Begin(c, p)
        /\ p = "get1" => c \in Output \cup {LF, CR, TAB}
        /\ p = "clear" => c = "clear"
  BY DEF tty_writechar, tty_clear, tty_setcsr, Calls
<1>3. mem \in [Cell -> Symbols] /\ Cursor \in 0 .. (Word - 1)
  BY CursorRange DEF RInv, IInv, Types, Symbols
<1>4. old'.mem = mem /\ old'.cursor = Cursor /\ ch' = c /\ pc' = p /\ hit' = 0
  BY <1>2 DEF Begin, Goto
<1> QED BY <1>1, <1>2, <1>3, <1>4 DEF RInv, Noted, Same

LEMMA ThreadNoted ==
  ASSUME RInv, Thread, ~ Put4, ~ (tty_writechar \/ tty_clear \/ tty_setcsr)
  PROVE  Noted'
<1>1. Same
  BY Quiet
<1>2. CASE tty_read
  BY <1>1, <1>2 DEF RInv, Noted, Same, tty_read, Goto, Writing
<1>3. CASE Get1 \/ Get2 \/ Get3 \/ Get4 \/ Put1 \/ Put2 \/ Put3
  BY <1>1, <1>3 DEF RInv, Noted, Same, Get1, Get2, Get3, Get4, Put1, Put2, Put3, Goto, Port, Writing
<1>4. CASE Draw \/ Scroll \/ ClearCell
  BY <1>1, <1>4 DEF RInv, Noted, Same, Draw, Scroll, ClearCell, Writing
<1> QED BY <1>2, <1>3, <1>4 DEF Thread

LEMMA PutNoted ==
  ASSUME RInv, Put4
  PROVE  Noted'
<1>1. ~ Writing' /\ pc' = "out" /\ hit' = 0
  BY DEF Put4, Goto, Writing
<1>2. mixed' \in {0, 1} /\ (mixed' = 0 => hit = 0)
  BY DEF Put4, RInv, IInv, Types
<1>3. mixed' = 0 => Place' \in Cell
  BY <1>2, Returned
<1> QED BY <1>1, <1>2, <1>3 DEF Noted

LEMMA KeyNoted ==
  ASSUME RInv, kbd_irq
  PROVE  Noted'
<1>1. PICK c \in Letters \cup {LF, BS} :
        Echo(c) /\ (Writing => pc' = pc) /\ (~ Writing => pc' \in {"out", "read"})
  BY KeyEchoes DEF RInv, IInv
<1>2. CASE Writing
  <2>1. Same /\ old' = old /\ ch' = ch /\ pc' = pc
    BY <1>1, <1>2, EchoInside DEF Echo
  <2> QED BY <1>2, <2>1 DEF RInv, Noted, Same, Writing
<1>3. CASE ~ Writing
  <2>1. /\ Written(c) /\ mixed' = IF Strays(c, Place) THEN 1 ELSE mixed
        /\ Text \in [Cell -> Symbols]
    BY <1>1, <1>3, EchoOutside DEF RInv, IInv
  <2>2. ASSUME mixed' = 0 PROVE Place' \in Cell
    <3>1. ~ Strays(c, Place) /\ Place \in Cell
      BY <2>1, <2>2 DEF RInv, Noted
    <3> QED BY <2>1, <3>1, CharacterStep
  <2>3. mixed' \in {0, 1} /\ ~ Writing' /\ pc' \in {"out", "read"} /\ hit' = 0
    BY <1>1, <1>3, <2>1 DEF RInv, Noted, Writing, Echo
  <2> QED BY <2>2, <2>3 DEF Noted
<1> QED BY <1>2, <1>3

LEMMA CallsProgress ==
  ASSUME RInv, tty_writechar \/ tty_clear \/ tty_setcsr
  PROVE  Progress'
<1>1. PICK c \in Calls, p \in {"get1", "clear", "put1"} : Begin(c, p)
  BY DEF tty_writechar, tty_clear, tty_setcsr, Calls
<1>2. /\ mem' = mem /\ Cursor' = Cursor /\ old'.mem = mem /\ old'.cursor = Cursor
      /\ ch' = c /\ pc' = p
  BY <1>1 DEF Begin, Goto, Cursor
<1>3. CASE tty_writechar
  <2>1. pc' = "get1"
    BY <1>3 DEF tty_writechar, Begin, Goto
  <2> QED BY <1>2, <2>1 DEF Progress, Got, Looping, Done
<1>4. CASE tty_clear
  <2>1. pc' = "clear" /\ off' = 0 /\ k' = Cells
    BY <1>4 DEF tty_clear, Begin, Goto
  <2>2. \A n \in Cell : ~ (n >= Cells)
    BY Sizes DEF Cell
  <2> QED BY <2>1, <2>2, Sizes DEF Progress, Got, Looping, Done
<1>5. CASE tty_setcsr
  <2>1. pc' = "put1" /\ ch' = "move"
    BY <1>5 DEF tty_setcsr, Begin, Goto
  <2> QED BY <1>2, <2>1 DEF Progress, Got, Looping, Done
<1> QED BY <1>3, <1>4, <1>5

(* Without an echo, tty_get_cursor() returns the cursor.                   *)
LEMMA GetProgress ==
  ASSUME RInv, Get1 \/ Get2 \/ Get3 \/ Get4
  PROVE  Progress'
<1> SUFFICES ASSUME hit = 0 PROVE Progress'
  BY DEF Progress, Get1, Get2, Get3, Get4, Port
<1>1. reg["hi"] \in Values /\ reg["lo"] \in Values
  BY DEF RInv, IInv, Types, Regs
<1>2. (reg["hi"] * Byte) % Word = reg["hi"] * Byte
  <2>1. reg["hi"] * Byte \in 0 .. (Word - 1)
    BY <1>1, Combined DEF Values
  <2> QED BY <2>1, SmallMod, Sizes
<1>3. Cursor % Word = Cursor
  BY CursorRange, SmallMod, Sizes DEF RInv, IInv
<1>4. mem' = mem /\ reg' = reg /\ Cursor' = Cursor /\ old' = old
  BY DEF Get1, Get2, Get3, Get4, Select, Port, Cursor
<1>5. Got /\ mem = old.mem /\ Cursor = old.cursor
  BY DEF RInv, Progress, Got, Get1, Get2, Get3, Get4, Goto
<1>6. pc' \in {"get2", "get3", "get4", "draw"}
  BY DEF Get1, Get2, Get3, Get4, Goto
<1>7. Got'
  <2>1. CASE Get1
    BY <1>4, <1>5, <2>1 DEF Got, Get1, Goto, Select
  <2>2. CASE Get2
    <3>1. index = "hi"
      BY <1>5, <2>2 DEF Got, Get2, Goto
    <3> QED BY <1>2, <1>4, <1>5, <2>2, <3>1 DEF Got, Get2, Goto
  <2>3. CASE Get3
    <3>1. cur = reg["hi"] * Byte
      BY <1>5, <2>3 DEF Got, Get3, Goto
    <3> QED BY <1>4, <1>5, <2>3, <3>1 DEF Got, Get3, Goto, Select
  <2>4. CASE Get4
    <3>1. index = "lo" /\ cur = reg["hi"] * Byte
      BY <1>5, <2>4 DEF Got, Get4, Goto
    <3>2. cur' = Cursor
      BY <1>3, <2>4, <3>1 DEF Get4, Cursor
    <3> QED BY <1>4, <1>5, <2>4, <3>2 DEF Got, Get4, Goto
  <2> QED BY <2>1, <2>2, <2>3, <2>4
<1> QED BY <1>6, <1>7 DEF Progress, Looping, Done

LEMMA DrawProgress ==
  ASSUME RInv, Draw
  PROVE  Progress'
<1> SUFFICES ASSUME hit = 0 PROVE Progress'
  BY DEF Progress, Draw
<1> DEFINE drawn == Drawn(old.mem, ch, old.cursor)
<1>1. mem = old.mem /\ cur = old.cursor /\ ch \notin {"clear", "move"}
  BY NotACall DEF RInv, Progress, Got, Noted, Draw
<1>2. /\ mem' = drawn /\ off' = Coord(ch, old.cursor) /\ k' = 0
      /\ pc' = IF Scrolls(ch, old.cursor) THEN "scroll" ELSE "put1"
      /\ ch' = ch /\ old' = old
  BY <1>1 DEF Draw
<1>3. \A n \in Cell : ~ (n < 0)
  BY Sizes DEF Cell
<1>4. 0 \in Cell
  BY Sizes DEF Cell
<1> HIDE DEF drawn
<1>5. CASE Scrolls(ch, old.cursor)
  <2>1. pc' = "scroll"
    BY <1>2, <1>5
  <2>2. \A n \in Cell : mem'[n] = IF n < k' THEN Shifted(drawn, n) ELSE drawn[n]
    BY <1>2, <1>3
  <2>3. Looping'
    BY <1>2, <1>4, <1>5, <2>1, <2>2 DEF Looping, drawn
  <2> QED BY <2>1, <2>3 DEF Progress, Got, Done
<1>6. CASE ~ Scrolls(ch, old.cursor)
  <2>1. pc' = "put1"
    BY <1>2, <1>6
  <2>2. mem' = Result(old.mem, ch, old.cursor)
    BY <1>2, <1>6 DEF Result, drawn
  <2> QED BY <1>1, <1>2, <2>1, <2>2 DEF Progress, Got, Looping, Done
<1> QED BY <1>5, <1>6

(* The loop scrolls in place: the cell it copies from is still as drawn.   *)
LEMMA ScrollProgress ==
  ASSUME RInv, Scroll
  PROVE  Progress'
<1> SUFFICES ASSUME hit = 0 PROVE Progress'
  BY DEF Progress, Scroll
<1> DEFINE drawn == Drawn(old.mem, ch, old.cursor)
<1>1. /\ Scrolls(ch, old.cursor) /\ off = Coord(ch, old.cursor)
      /\ k \in Cell
      /\ \A n \in Cell : mem[n] = IF n < k THEN Shifted(drawn, n) ELSE drawn[n]
  BY DEF RInv, Progress, Looping, Scroll
<1>2. ch \notin {"clear", "move"}
  BY NotACall DEF RInv, Noted, Scroll
<1>3. /\ mem' = [mem EXCEPT ![k] = Shifted(mem, k)] /\ k' = k + 1
      /\ pc' = IF k + 1 = Cells THEN "put1" ELSE "scroll"
      /\ ch' = ch /\ old' = old /\ off' = off
  BY DEF Scroll
<1>4. mem \in [Cell -> Symbols] /\ mem' \in [Cell -> Symbols]
  <2>1. IInv'
    BY LoopInv DEF RInv
  <2> QED BY <2>1 DEF RInv, IInv, Types, Symbols
<1>5. k \in Nat /\ k < Cells /\ \A n \in Cell : n \in Nat /\ n < Cells
  BY <1>1, Sizes DEF Cell
<1> HIDE DEF drawn
<1>6. Shifted(mem, k) = Shifted(drawn, k)
  <2>1. k + W \in Cell => mem[k + W] = drawn[k + W]
    BY <1>1, <1>5, Sizes
  <2> QED BY <2>1 DEF Shifted
<1>7. ASSUME NEW n \in Cell
      PROVE  mem'[n] = IF n < k + 1 THEN Shifted(drawn, n) ELSE drawn[n]
  <2>1. CASE n = k
    BY <1>3, <1>4, <1>5, <1>6, <2>1
  <2>2. CASE n # k
    <3>1. mem'[n] = mem[n] /\ (n < k + 1 <=> n < k)
      BY <1>3, <1>4, <1>5, <2>2
    <3> QED BY <1>1, <3>1
  <2> QED BY <2>1, <2>2
<1>8. CASE k + 1 = Cells
  <2>1. mem' = Scrolled(drawn)
    <3>1. \A n \in Cell : mem'[n] = Shifted(drawn, n)
      BY <1>5, <1>7, <1>8
    <3>2. mem' = [n \in Cell |-> mem'[n]]
      BY <1>4
    <3> QED BY <3>1, <3>2 DEF Scrolled
  <2>2. mem' = Result(old.mem, ch, old.cursor) /\ pc' = "put1"
    BY <1>1, <1>3, <1>8, <2>1 DEF Result, drawn
  <2> QED BY <1>1, <1>2, <1>3, <2>2 DEF Progress, Got, Looping, Done
<1>9. CASE k + 1 # Cells
  <2>1. pc' = "scroll" /\ k' \in Cell
    BY <1>3, <1>5, <1>9, Sizes DEF Cell
  <2>2. Looping'
    BY <1>1, <1>3, <1>7, <2>1 DEF Looping, drawn
  <2> QED BY <2>1, <2>2 DEF Progress, Got, Done
<1> QED BY <1>8, <1>9

LEMMA ClearProgress ==
  ASSUME RInv, ClearCell
  PROVE  Progress'
<1> SUFFICES ASSUME hit = 0 PROVE Progress'
  BY DEF Progress, ClearCell
<1>1. /\ off = 0 /\ k \in 1 .. Cells /\ ch = "clear"
      /\ \A n \in Cell : n >= k => mem[n] = Blank
  BY DEF RInv, Progress, Looping, Noted, ClearCell
<1>2. /\ mem' = [mem EXCEPT ![k - 1] = Blank] /\ k' = k - 1
      /\ pc' = IF k - 1 = 0 THEN "put1" ELSE "clear"
      /\ ch' = ch /\ off' = off
  BY DEF ClearCell
<1>3. \A n \in Cell : n \in Nat /\ n < Cells
  BY Sizes DEF Cell
<1>4. \A n \in Cell : n >= k - 1 => mem'[n] = Blank
  <2> SUFFICES ASSUME NEW n \in Cell, n >= k - 1 PROVE mem'[n] = Blank
    OBVIOUS
  <2>1. mem \in [Cell -> Symbols]
    BY DEF RInv, IInv, Types, Symbols
  <2>2. n = k - 1 \/ n >= k
    BY <1>1, <1>3, Sizes
  <2> QED BY <1>1, <1>2, <2>1, <2>2
<1>5. CASE k - 1 = 0
  <2>1. pc' = "put1" /\ \A n \in Cell : mem'[n] = Blank
    BY <1>2, <1>3, <1>4, <1>5
  <2> QED BY <1>1, <1>2, <2>1 DEF Progress, Got, Looping, Done
<1>6. CASE k - 1 # 0
  <2>1. pc' = "clear" /\ k' \in 1 .. Cells
    BY <1>1, <1>2, <1>6, Sizes
  <2>2. Looping'
    BY <1>1, <1>2, <1>4, <2>1 DEF Looping
  <2> QED BY <2>1, <2>2 DEF Progress, Got, Done
<1> QED BY <1>5, <1>6

LEMMA PutProgress ==
  ASSUME RInv, Put1 \/ Put2 \/ Put3 \/ Put4 \/ tty_read
  PROVE  Progress'
<1>1. CASE Put1 \/ Put2 \/ Put3
  <2>1. /\ pc \in {"put1", "put2", "put3"} /\ pc' \in {"put2", "put3", "put4"}
        /\ mem' = mem /\ off' = off /\ ch' = ch /\ old' = old /\ hit' = hit
    BY <1>1 DEF Put1, Put2, Put3, Goto, Select, SetReg, Port
  <2>2. hit = 0 => Done
    BY DEF RInv, Progress
  <2>3. hit = 0 => Done'
    BY <2>1, <2>2 DEF Done
  <2> QED BY <2>1, <2>3 DEF Progress, Got, Looping
<1>2. CASE Put4 \/ tty_read
  <2>1. pc' \in {"out", "read"}
    BY <1>2 DEF Put4, tty_read, Goto
  <2> QED BY <2>1 DEF Progress, Got, Looping, Done
<1> QED BY <1>1, <1>2

LEMMA KeyProgress ==
  ASSUME RInv, kbd_irq
  PROVE  Progress'
<1>1. PICK c \in Letters \cup {LF, BS} :
        Echo(c) /\ (Writing => pc' = pc) /\ (~ Writing => pc' \in {"out", "read"})
  BY KeyEchoes DEF RInv, IInv
<1>2. CASE Writing
  BY <1>1, <1>2, EchoInside DEF Progress
<1>3. CASE ~ Writing
  BY <1>1, <1>3 DEF Progress, Got, Looping, Done
<1> QED BY <1>2, <1>3

LEMMA RInvStep == RInv /\ [Next]_vars => RInv'
<1> SUFFICES ASSUME RInv, [Next]_vars PROVE RInv'
  OBVIOUS
<1>1. IInv'
  BY StepInv DEF RInv
<1>2. CASE Thread
  <2>1. Noted'
    BY <1>2, CallsNoted, ThreadNoted, PutNoted
  <2>2. Progress'
    BY <1>2, CallsProgress, GetProgress, DrawProgress, ScrollProgress, ClearProgress,
       PutProgress DEF Thread
  <2> QED BY <1>1, <2>1, <2>2 DEF RInv
<1>3. CASE kbd_irq
  BY <1>1, <1>3, KeyNoted, KeyProgress DEF RInv
<1>4. CASE UNCHANGED vars
  BY <1>1, <1>4 DEF vars, Locals, RInv, Noted, Progress, Got, Looping, Done, Writing,
                    Place, Cursor
<1> QED BY <1>2, <1>3, <1>4 DEF Next

(***************************************************************************)
(* The refinement                                                          *)
(***************************************************************************)

Intact == mixed = 0 /\ hit = 0
Seen == <<Rows(Text), Place % W, Place \div W, Request, line, Intact>>

LEMMA SameSeen ==
  ASSUME Same, UNCHANGED <<Request, line, hit>>
  PROVE  Seen' = Seen
BY DEF Same, Seen, Rows, Intact

(* No character is a name of a request that is not one of a character.     *)
LEMMA CallNames ==
  ASSUME NEW c \in Calls
  PROVE  c # "none" /\ c # "read"
BY GlyphAssumption DEF Calls, LF, CR, TAB

(* A call that begins is a request, of the character it was given.         *)
LEMMA BeginSeen ==
  ASSUME RInv, NEW c \in Calls, NEW p \in {"get1", "clear", "put1"}, Begin(c, p)
  PROVE  /\ Request = Promise!Nothing /\ Request' # Promise!Nothing
         /\ Request'.what # "read"
         /\ line' = line /\ hit = 0 /\ hit' = 0
<1>1. pc = "out" /\ pc' = p /\ ch' = c /\ line' = line /\ hit' = 0
  BY DEF Begin, Goto
<1>2. ~ Writing /\ Writing'
  BY <1>1 DEF Writing
<1>3. hit = 0
  BY <1>2 DEF RInv, Noted
<1>4. Request = Promise!Nothing
  BY <1>1, <1>2 DEF Request, Promise!Nothing
<1>5. Request'.what = c
  BY <1>1, <1>2 DEF Request
<1>6. Request' # Promise!Nothing /\ Request'.what # "read"
  BY <1>5, CallNames DEF Promise!Nothing
<1> QED BY <1>1, <1>3, <1>4, <1>6

LEMMA AskSeen ==
  ASSUME RInv, tty_writechar \/ tty_clear \/ tty_setcsr \/ tty_read
  PROVE  Promise!Ask
<1>1. Same
  BY Quiet DEF Thread, tty_writechar, tty_clear, tty_setcsr, tty_read, Begin, Goto, Put4
<1>2. /\ Rows(Text') = Rows(Text) /\ Place' % W = Place % W /\ Place' \div W = Place \div W
      /\ mixed' = mixed
  BY <1>1 DEF Same
<1>3. CASE tty_writechar \/ tty_clear \/ tty_setcsr
  <2>1. PICK c \in Calls, p \in {"get1", "clear", "put1"} : Begin(c, p)
    BY <1>3 DEF tty_writechar, tty_clear, tty_setcsr, Calls
  <2>2. /\ Request = Promise!Nothing /\ Request' # Promise!Nothing
        /\ Request'.what # "read"
        /\ line' = line /\ hit = 0 /\ hit' = 0
    BY <2>1, BeginSeen
  <2> QED BY <1>2, <2>2 DEF Promise!Ask, Rows
<1>4. CASE tty_read
  <2>1. pc = "out" /\ pc' = "read" /\ line' = <<>> /\ hit' = hit
    BY <1>4 DEF tty_read, Goto
  <2>2. ~ Writing /\ ~ Writing'
    BY <2>1 DEF Writing
  <2>3. Request = [what |-> "none", at |-> 0] /\ Request' = [what |-> "read", at |-> 0]
    BY <2>1, <2>2 DEF Request
  <2>4. /\ Request = Promise!Nothing /\ Request' # Promise!Nothing
        /\ Request'.what = "read"
    BY <2>3 DEF Promise!Nothing
  <2> QED BY <1>2, <2>1, <2>4 DEF Promise!Ask, Rows
<1> QED BY <1>3, <1>4

(* Between its beginning and its end it shows nothing, and the request is  *)
(* the same: only the place of a move is taken from the offset.            *)
LEMMA InsideSeen ==
  ASSUME RInv, Thread, ~ Put4, ~ (tty_writechar \/ tty_clear \/ tty_setcsr \/ tty_read)
  PROVE  Seen' = Seen
<1>1. Same
  BY Quiet
<1>2. CASE Get1 \/ Get2 \/ Get3 \/ Get4 \/ Put1 \/ Put2 \/ Put3
  <2>1. Writing /\ Writing' /\ UNCHANGED <<ch, off, line, hit>>
    BY <1>2 DEF Get1, Get2, Get3, Get4, Put1, Put2, Put3, Goto, Port, Writing
  <2>2. Request' = Request
    BY <2>1 DEF Request
  <2> QED BY <1>1, <2>1, <2>2, SameSeen
<1>3. CASE Draw
  <2>1. Writing /\ Writing' /\ UNCHANGED <<ch, line, hit>>
    BY <1>3 DEF Draw, Writing
  <2>2. ch # "move"
    BY <1>3, NotACall DEF RInv, Noted, Draw
  <2>3. Request' = Request
    BY <2>1, <2>2 DEF Request
  <2> QED BY <1>1, <2>1, <2>3, SameSeen
<1>4. CASE Scroll \/ ClearCell
  <2>1. Writing /\ Writing' /\ UNCHANGED <<ch, off, line, hit>>
    BY <1>4 DEF Scroll, ClearCell, Writing
  <2>2. Request' = Request
    BY <2>1 DEF Request
  <2> QED BY <1>1, <2>1, <2>2, SameSeen
<1> QED BY <1>2, <1>3, <1>4 DEF Thread

(* A call that returns answers the request.                                *)
LEMMA CallSeen ==
  ASSUME RInv, Put4
  PROVE  Promise!Next
<1>0. /\ Request = [what |-> ch, at |-> IF ch = "move" THEN off ELSE 0]
      /\ Request' = Promise!Nothing
      /\ hit' = 0 /\ line' = line
  BY DEF Put4, Goto, Writing, Request, Promise!Nothing
<1>0a. Request # Promise!Nothing /\ Request.what = ch
  <2>1. ch # "none"
    BY CallNames DEF RInv, IInv, Types
  <2> QED BY <1>0, <2>1 DEF Promise!Nothing
<1>1. CASE mixed' # 0
  BY <1>1 DEF Promise!Next, Promise!Disturbed
<1>2. CASE mixed' = 0
  <2>1. hit = 0 /\ (mixed = 0 \/ ch = "clear")
    BY <1>2 DEF Put4, RInv, IInv, Types, Noted
  <2>2. CASE ch = "clear"
    <3>1. Text' = [n \in Cell |-> Blank] /\ Place' = 0
      BY <2>1, <2>2, Returned
    <3>2. Place' % W = 0 /\ Place' \div W = 0
      <4>1. 0 % W = 0 /\ 0 \div W = 0
        BY Sizes
      <4> QED BY <3>1, <4>1
    <3>3. Rows(Text') = [r \in 1 .. H |-> [c \in 1 .. W |-> Blank]]
      <4>1. \A r \in 1 .. H, c \in 1 .. W : Text'[(r - 1) * W + c - 1] = Blank
        BY <3>1, CellOf
      <4> QED BY <4>1 DEF Rows
    <3>4. Promise!Clear
      BY <3>2, <3>3 DEF Promise!Clear, Promise!BlankRow, Rows
    <3>5. Promise!Answer
      BY <1>0, <1>0a, <1>2, <2>2, <3>4 DEF Promise!Answer
    <3> QED BY <3>5 DEF Promise!Next
  <2>3. CASE ch # "clear"
    <3>1. /\ mixed = 0 /\ Place \in Cell /\ Text \in [Cell -> Symbols]
          /\ Place' \in Cell
      BY <2>1, <2>3, Returned DEF RInv, Noted
    <3>2. CASE ch = "move"
      <4>1. Rows(Text') = Rows(Text) /\ Place' = off /\ Request.at = off
        BY <1>0, <2>1, <3>2, Returned
      <4>2. Promise!Move(Request.at)
        BY <4>1 DEF Promise!Move, Rows
      <4>3. Promise!Answer
        BY <1>0, <1>0a, <1>2, <2>1, <3>1, <3>2, <4>2 DEF Promise!Answer
      <4> QED BY <4>3 DEF Promise!Next
    <3>3. CASE ch # "move"
      <4>1. PICK c \in Output \cup {LF, CR, TAB} : c = Request.what
        BY <1>0a, <2>3, <3>3 DEF RInv, IInv, Types, Calls
      <4>2. Written(c)
        BY <1>0a, <2>1, <2>3, <3>3, <4>1, Returned DEF Written
      <4>3. ~ Strays(c, Place)
        BY <3>1, <4>1, NotACall DEF Strays, Target
      <4>4. Promise!Wrote(c)
        BY <3>1, <4>1, <4>2, <4>3, CharacterStep
      <4>5. Promise!Wrote(Request.what)
        BY <4>1, <4>4
           DEF Promise!Wrote, Promise!PutGlyph, Promise!NewLine, Promise!Tab,
               Promise!Return, Promise!Backspace
      <4>6. Promise!Answer
        BY <1>0, <1>0a, <1>2, <2>1, <3>1, <4>5 DEF Promise!Answer
      <4> QED BY <4>6 DEF Promise!Next
    <3> QED BY <3>2, <3>3
  <2> QED BY <2>2, <2>3
<1> QED BY <1>1, <1>2

(* A key outside of a call is shown as what it does to the line.           *)
LEMMA KeySeen ==
  ASSUME RInv, kbd_irq
  PROVE  Promise!Next
<1>1. ASSUME NEW c \in Letters \cup {LF, BS}, Echo(c), ~ Writing,
             pc' \in {"out", "read"}, mixed' = 0
      PROVE  Promise!Wrote(c) /\ mixed = 0 /\ hit = 0 /\ hit' = 0
  <2>1. /\ Written(c) /\ mixed' = IF Strays(c, Place) THEN 1 ELSE mixed
        /\ Text \in [Cell -> Symbols]
    BY <1>1, EchoOutside DEF RInv, IInv
  <2>2. ~ Strays(c, Place) /\ mixed = 0 /\ Place \in Cell
    BY <1>1, <2>1 DEF RInv, Noted
  <2>3. Promise!Wrote(c)
    BY <2>1, <2>2, CharacterStep
  <2>4. hit = 0 /\ hit' = hit
    BY <1>1 DEF RInv, Noted, Echo
  <2> QED BY <2>2, <2>3, <2>4
<1>2. CASE Writing
  <2>1. hit' = 1
    BY <1>2, KeyEchoes, EchoInside DEF RInv, IInv
  <2> QED BY <2>1 DEF Promise!Next, Promise!Disturbed
<1>3. CASE mixed' # 0
  BY <1>3 DEF Promise!Next, Promise!Disturbed
<1>4. CASE ~ Writing /\ mixed' = 0
  <2>1. /\ pc \in {"out", "read"}
        /\ Request = [what |-> IF pc = "read" THEN "read" ELSE "none", at |-> 0]
        /\ Request.what \in {"none", "read"}
    BY <1>4 DEF Writing, Request
  <2>2. CASE Letter
    <3>1. PICK c \in Letters : Echo(c) /\ line' = Append(line, c) /\ pc' = pc
      BY <2>2 DEF Letter
    <3>2. Promise!Wrote(c) /\ mixed = 0 /\ hit = 0 /\ hit' = 0
      BY <1>1, <1>4, <2>1, <3>1
    <3>3. Request' = Request
      BY <2>1, <3>1 DEF Request, Writing
    <3>4. Promise!Key
      BY <1>4, <2>1, <3>1, <3>2, <3>3 DEF Promise!Key
    <3> QED BY <3>4 DEF Promise!Next
  <2>3. CASE Backspace
    <3>1. /\ Echo(BS) /\ line # <<>> /\ line' = SubSeq(line, 1, Len(line) - 1)
          /\ pc' = pc
      BY <2>3 DEF Backspace
    <3>2. Promise!Wrote("BS") /\ mixed = 0 /\ hit = 0 /\ hit' = 0
      BY <1>1, <1>4, <2>1, <3>1 DEF BS
    <3>3. Request' = Request
      BY <2>1, <3>1 DEF Request, Writing
    <3>4. Promise!Key
      BY <1>4, <2>1, <3>1, <3>2, <3>3 DEF Promise!Key
    <3> QED BY <3>4 DEF Promise!Next
  <2>4. CASE Enter
    <3>1. Echo(LF) /\ line' = <<>> /\ pc' = "out"
      BY <2>1, <2>4 DEF Enter
    <3>2. Promise!Wrote("LF") /\ mixed = 0 /\ hit = 0 /\ hit' = 0
      BY <1>1, <1>4, <2>1, <3>1 DEF LF
    <3>3. Request' = Promise!Nothing
      BY <3>1 DEF Request, Writing, Promise!Nothing
    <3>4. Promise!Key
      BY <1>4, <2>1, <3>1, <3>2, <3>3 DEF Promise!Key
    <3> QED BY <3>4 DEF Promise!Next
  <2> QED BY <2>2, <2>3, <2>4 DEF kbd_irq
<1> QED BY <1>2, <1>3, <1>4

LEMMA StepSeen == RInv /\ [Next]_vars => [Promise!Next]_Seen
<1> SUFFICES ASSUME RInv, [Next]_vars PROVE Promise!Next \/ Seen' = Seen
  OBVIOUS
<1>1. CASE Thread
  BY <1>1, AskSeen, InsideSeen, CallSeen DEF Promise!Next
<1>2. CASE kbd_irq
  BY <1>2, KeySeen
<1>3. CASE UNCHANGED vars
  <2>1. Same /\ UNCHANGED <<Request, line, hit>>
    BY <1>3 DEF vars, Locals, Same, Text, Place, Writing, Cursor, Request
  <2> QED BY <2>1, SameSeen
<1> QED BY <1>1, <1>2, <1>3 DEF Next

(* For every screen, register size, tab stop and sequence of calls and     *)
(* keys, tty_writechar() and its echo implement Terminal: byte registers,  *)
(* 16-bit offsets and interrupted loops over cells are seen as characters  *)
(* that each take the effect of the character asked for, as a whole, until *)
(* one falls into another.                                                 *)
THEOREM ScreenRefinesTerminal == Spec => RefinesTerminal
<1>1. Init => Promise!Init
  BY DEF Init, Promise!Init, Promise!Nothing, Request, Writing
<1>2. Init => RInv
  BY RInvInit
<1>3. RInv /\ [Next]_vars => RInv'
  BY RInvStep
<1>4. RInv /\ [Next]_vars => [Promise!Next]_Seen
  BY StepSeen
<1> QED BY <1>1, <1>2, <1>3, <1>4, PTL
        DEF Spec, RefinesTerminal, Promise!Spec, Promise!vars, Seen, Rows, Intact

=============================================================================
