------------------------------ MODULE Terminal ------------------------------
(***************************************************************************)
(* What the screen promises to those who print on it: a text of H rows of  *)
(* W cells and a position in it, where each request takes effect as a      *)
(* whole when it returns, and each key when it is pressed.  A key that     *)
(* comes while a request is being carried out leaves the text in no        *)
(* particular state, until the screen is cleared.                          *)
(***************************************************************************)
EXTENDS Integers, Sequences

CONSTANTS
  W, H,     \* columns and rows
  TabStop,  \* the distance of tab stops
  Glyph,    \* characters that occupy a cell
  Blank     \* an empty cell

VARIABLES
  rows,     \* the text, from the top
  x, y,     \* column and row of the position, from 0
  ask,      \* the request being carried out: what, and where to for a move
  line,     \* the letters typed since a line was last read or finished
  intact    \* FALSE: a key has met a request

vars == <<rows, x, y, ask, line, intact>>

BlankRow == [c \in 1 .. W |-> Blank]

(* On to the beginning of the next row of a text t; the top row leaves the *)
(* screen at the bottom.                                                   *)
NewLine(t) ==
  /\ x' = 0
  /\ IF y + 1 < H THEN rows' = t /\ y' = y + 1
     ELSE rows' = Append(Tail(t), BlankRow) /\ y' = y

PutGlyph(g) ==
  LET t == [rows EXCEPT ![y + 1] = [@ EXCEPT ![x + 1] = g]]
  IN  IF x + 1 < W THEN rows' = t /\ x' = x + 1 /\ y' = y ELSE NewLine(t)

Return == x' = 0 /\ UNCHANGED <<rows, y>>

Tab ==
  LET stop == (x \div TabStop + 1) * TabStop
  IN  IF stop < W THEN x' = stop /\ UNCHANGED <<rows, y>> ELSE NewLine(rows)

(* The cell before the position is erased, across the end of a row.        *)
Backspace ==
  /\ x > 0 \/ y > 0
  /\ IF x > 0 THEN x' = x - 1 /\ y' = y ELSE x' = W - 1 /\ y' = y - 1
  /\ rows' = [rows EXCEPT ![y' + 1] = [@ EXCEPT ![x' + 1] = Blank]]

(* What each character does.                                               *)
Wrote(c) ==
  \/ c \in Glyph /\ PutGlyph(c)
  \/ c = "LF" /\ NewLine(rows)
  \/ c = "CR" /\ Return
  \/ c = "TAB" /\ Tab
  \/ c = "BS" /\ Backspace

Move(at) == x' = at % W /\ y' = at \div W /\ rows' = rows

Clear == rows' = [r \in 1 .. H |-> BlankRow] /\ x' = 0 /\ y' = 0

Nothing == [what |-> "none", at |-> 0]

(* A request shows nothing yet; reading begins with an empty line.         *)
Ask ==
  /\ ask = Nothing /\ ask' # Nothing
  /\ line' = IF ask'.what = "read" THEN <<>> ELSE line
  /\ UNCHANGED <<rows, x, y, intact>>

(* It returns, with the effect of what was asked and no other.             *)
Answer ==
  /\ ask # Nothing /\ ask' = Nothing
  /\ line' = line /\ intact'
  /\ \/ intact /\ Wrote(ask.what)
     \/ intact /\ ask.what = "move" /\ Move(ask.at)
     \/ ask.what = "clear" /\ Clear

(* A key is shown as it is added to the line, taken back or ends it.       *)
Key ==
  /\ intact /\ intact'
  /\ ask.what \in {"none", "read"}
  /\ \/ \E c \in Glyph : Wrote(c) /\ line' = Append(line, c) /\ ask' = ask
     \/ /\ line # <<>> /\ line' = SubSeq(line, 1, Len(line) - 1)
        /\ Wrote("BS") /\ ask' = ask
     \/ Wrote("LF") /\ line' = <<>> /\ ask' = Nothing

Disturbed == intact' = FALSE

Init == intact = TRUE /\ ask = Nothing /\ line = <<>>

Next == Ask \/ Answer \/ Key \/ Disturbed

Spec == Init /\ [][Next]_vars

=============================================================================
