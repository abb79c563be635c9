------------------------------ MODULE TtyInput ------------------------------
(***************************************************************************)
(* Keyboard input, kernel/dev/tty.c: kbd_irq() edits a line in `buf' and   *)
(* echoes it, tty_read() spins until Enter has been pressed and copies the *)
(* line out.  They share the buffer, two pointers into it and the byte of  *)
(* bit-fields `kbd', without a lock.                                       *)
(*                                                                         *)
(* The handler runs with interrupts off, as one step.  The reader can be   *)
(* interrupted between any two of its accesses; clearing a bit-field loads *)
(* the byte, changes a copy and stores it.  Pointers into buf are indices. *)
(* The screen is reduced to what the current line shows of a patient       *)
(* user's keys.                                                            *)
(***************************************************************************)
EXTENDS Integers, Sequences

CONSTANTS
  BufSize,    \* 512: the size of buf
  Wrap,       \* 461: where bufptr points once its lowest byte is zeroed
  Users       \* the values of ahead

ASSUME BufAssumption == BufSize \in Nat \ {0} /\ Wrap \in 0 .. (BufSize - 1)
ASSUME UsersAssumption == Users \subseteq {0, 1}

VARIABLES
  kbd,      \* the bit-fields shift, caps and flush
  buf, bufptr, tmp,   \* struct tty's members
  pc,       \* where tty_read() is, "idle" outside
  reg,      \* its copy of kbd while it clears flush
  size,     \* its local variable
  line,     \* what it has copied to its caller
  echo,     \* what a patient user's keys wrote on the current screen line
  shown,    \* what that line showed when a patient user last pressed Enter
  held,     \* 1 while the shift key is down
  entered,  \* 1 if Enter was pressed since a read last left its loop
  ahead     \* 0: a patient user, who waits for the prompt and whose lines fit

vars == <<kbd, buf, bufptr, tmp, pc, reg, size, line, echo, shown, held, entered, ahead>>
reader == <<pc, reg, size, line, ahead>>

NUL   == "NUL"
NoPtr == -1      \* tty_create() leaves tmp NULL
Char  == {"a", "A", NUL}
Index == 0 .. (BufSize - 1)
Bits  == [shift : {0, 1}, caps : {0, 1}, flush : {0, 1}]

(***************************************************************************)
(* kbd_irq()                                                               *)
(***************************************************************************)

(* Somebody may press a key now, or one that prints.                       *)
Ready == ahead = 1 \/ (pc = "wait" /\ kbd.flush = 0)
Room  == ahead = 0 => Len(echo) + 1 < BufSize

(* _decode() of a letter: SHIFT and CAPS undo each other.                  *)
decode == IF kbd.shift # kbd.caps THEN "A" ELSE "a"

Echoed(ch) == IF ahead = 0 THEN Append(echo, ch) ELSE <<>>

(* A bug for the properties: the pointer is not moved first.               *)
BackspaceKeeps ==
  /\ Ready /\ bufptr > 0
  /\ echo' = SubSeq(echo, 1, Len(echo) - 1)
  /\ buf' = [buf EXCEPT ![bufptr] = NUL]
  /\ UNCHANGED <<kbd, bufptr, tmp, shown, held, entered, reader>>

(* case BACKSPACE: at the beginning of buf there is nothing to erase.      *)
Backspace ==
  /\ Ready /\ bufptr > 0
  /\ echo' = SubSeq(echo, 1, Len(echo) - 1)
  /\ buf' = [buf EXCEPT ![bufptr - 1] = NUL]
  /\ bufptr' = bufptr - 1
  /\ UNCHANGED <<kbd, tmp, shown, held, entered, reader>>

(* A bug for the properties: the pointer runs out of the buffer.           *)
LetterPast ==
  /\ Ready /\ Room
  /\ echo' = Echoed(decode)
  /\ buf' = [k \in Index |-> IF k = bufptr THEN decode
                             ELSE IF k = bufptr + 1 THEN NUL ELSE buf[k]]
  /\ bufptr' = bufptr + 1
  /\ UNCHANGED <<kbd, tmp, shown, held, entered, reader>>

(* The default case.  The terminating zero of a full buffer falls on the   *)
(* lowest byte of bufptr, which follows buf in struct tty.                 *)
Letter ==
  /\ Ready /\ Room
  /\ echo' = Echoed(decode)
  /\ buf' = [k \in Index |-> IF k = bufptr THEN decode
                             ELSE IF k = bufptr + 1 THEN NUL ELSE buf[k]]
  /\ bufptr' = IF bufptr + 1 = BufSize THEN Wrap ELSE bufptr + 1
  /\ UNCHANGED <<kbd, tmp, shown, held, entered, reader>>

(* The default case of a scancode from 59 on, a function key or one of the *)
(* keypad: _decode() has no bound and reads behind its table, where any    *)
(* character may be, also one that the screen obeys instead of showing it. *)
(* A patient user keeps to the keys of the tables.                         *)
BehindTable ==
  /\ Ready /\ ahead = 1
  /\ \E ch \in Char :
       buf' = [k \in Index |-> IF k = bufptr THEN ch
                               ELSE IF k = bufptr + 1 THEN NUL ELSE buf[k]]
  /\ bufptr' = IF bufptr + 1 = BufSize THEN Wrap ELSE bufptr + 1
  /\ UNCHANGED <<kbd, tmp, echo, shown, held, entered, reader>>

(* case ENTER.                                                             *)
Enter ==
  /\ Ready
  /\ echo' = <<>> /\ shown' = IF ahead = 0 THEN echo ELSE <<>>
  /\ kbd' = [shift |-> kbd.shift, caps |-> kbd.caps, flush |-> 1]
  /\ tmp' = bufptr
  /\ bufptr' = 0
  /\ entered' = 1
  /\ UNCHANGED <<buf, held, reader>>

(* The shift key goes down or up.                                          *)
Shift ==
  /\ Ready
  /\ held' \in {0, 1}
  /\ kbd' = [shift |-> held', caps |-> kbd.caps, flush |-> kbd.flush]
  /\ UNCHANGED <<buf, bufptr, tmp, echo, shown, entered, reader>>

(* case CAPS.                                                              *)
Caps ==
  /\ Ready
  /\ kbd' = [shift |-> kbd.shift, caps |-> 1 - kbd.caps, flush |-> kbd.flush]
  /\ UNCHANGED <<buf, bufptr, tmp, echo, shown, held, entered, reader>>

kbd_irq == Letter \/ BehindTable \/ Backspace \/ Enter \/ Shift \/ Caps

(***************************************************************************)
(* tty_read()                                                              *)
(***************************************************************************)

(* The shell has cleared its buffer and calls gets().                      *)
Call ==
  /\ pc = "idle"
  /\ pc' = "reset" /\ line' = <<>>
  /\ UNCHANGED <<kbd, buf, bufptr, tmp, reg, size, echo, shown, held, entered, ahead>>

(* ptr->bufptr=ptr->buf;                                                   *)
Reset ==
  /\ pc = "reset"
  /\ bufptr' = 0
  /\ pc' = "wait"
  /\ UNCHANGED <<kbd, buf, tmp, reg, size, line, echo, shown, held, entered, ahead>>

(* while(!ptr->kbd.flush);                                                 *)
Waited ==
  /\ pc = "wait" /\ kbd.flush = 1
  /\ pc' = "load" /\ entered' = 0
  /\ UNCHANGED <<kbd, buf, bufptr, tmp, reg, size, line, echo, shown, held, ahead>>

(* ptr->kbd.flush=0; the byte is loaded ...                                *)
ClearLoad ==
  /\ pc = "load"
  /\ reg' = kbd
  /\ pc' = "store"
  /\ UNCHANGED <<kbd, buf, bufptr, tmp, size, line, echo, shown, held, entered, ahead>>

(* A bug for the properties: the whole byte is cleared.                    *)
ClearStoreAll ==
  /\ pc = "store"
  /\ kbd' = [shift |-> 0, caps |-> 0, flush |-> 0]
  /\ pc' = "size"
  /\ UNCHANGED <<buf, bufptr, tmp, reg, size, line, echo, shown, held, entered, ahead>>

(* ... and stored without flush.                                           *)
ClearStore ==
  /\ pc = "store"
  /\ kbd' = [shift |-> reg.shift, caps |-> reg.caps, flush |-> 0]
  /\ pc' = "size"
  /\ UNCHANGED <<buf, bufptr, tmp, reg, size, line, echo, shown, held, entered, ahead>>

(* size_t size=(ptr->tmp)-(ptr->buf);                                      *)
Size ==
  /\ pc = "size"
  /\ size' = tmp
  /\ pc' = "untmp"
  /\ UNCHANGED <<kbd, buf, bufptr, tmp, reg, line, echo, shown, held, entered, ahead>>

(* ptr->tmp=ptr->buf;                                                      *)
Untmp ==
  /\ pc = "untmp"
  /\ tmp' = 0
  /\ pc' = "copy"
  /\ UNCHANGED <<kbd, buf, bufptr, reg, size, line, echo, shown, held, entered, ahead>>

(* A bug for the properties: the destination is not moved on.              *)
CopyStays ==
  /\ pc = "copy" /\ Len(line) < size
  /\ line' = <<buf[0]>>
  /\ UNCHANGED <<kbd, buf, bufptr, tmp, pc, reg, size, echo, shown, held, entered, ahead>>

(* One byte of memcpy(buf,ptr->buf,size).                                  *)
Copy ==
  /\ pc = "copy" /\ Len(line) < size
  /\ line' = Append(line, buf[Len(line)])
  /\ UNCHANGED <<kbd, buf, bufptr, tmp, pc, reg, size, echo, shown, held, entered, ahead>>

(* return size;                                                            *)
Return ==
  /\ pc = "copy" /\ Len(line) >= size
  /\ pc' = "idle"
  /\ UNCHANGED <<kbd, buf, bufptr, tmp, reg, size, line, echo, shown, held, entered, ahead>>

tty_read ==
  \/ Reset \/ Waited \/ ClearLoad \/ ClearStore
  \/ Size \/ Untmp \/ Copy \/ Return

(***************************************************************************)
(* The specification                                                       *)
(***************************************************************************)

(* What tty_create() sets up.                                              *)
Init ==
  /\ kbd = [shift |-> 0, caps |-> 0, flush |-> 0]
  /\ buf = [k \in Index |-> NUL]
  /\ bufptr = 0 /\ tmp = NoPtr
  /\ pc = "idle" /\ reg = [shift |-> 0, caps |-> 0, flush |-> 0]
  /\ size = 0 /\ line = <<>>
  /\ echo = <<>> /\ shown = <<>>
  /\ held = 0 /\ entered = 0 /\ ahead \in Users

Next == kbd_irq \/ Call \/ tty_read

Spec == Init /\ [][Next]_vars

(* The reader's thread runs; nobody has to press a key.                    *)
FairSpec == Spec /\ WF_vars(tty_read)

(***************************************************************************)
(* Properties                                                              *)
(***************************************************************************)

(* The members of struct tty have their types.                             *)
TypeOK ==
  /\ kbd \in Bits /\ reg \in Bits
  /\ buf \in [Index -> Char]
  /\ bufptr \in Nat /\ tmp \in Nat \cup {NoPtr} /\ size \in Nat \cup {NoPtr}
  /\ pc \in {"idle", "reset", "wait", "load", "store", "size", "untmp", "copy"}
  /\ line \in Seq(Char) /\ echo \in Seq(Char) /\ shown \in Seq(Char)
  /\ held \in {0, 1} /\ entered \in {0, 1} /\ ahead \in {0, 1}

(* However long the line and whenever keys come in, kbd_irq() keeps its    *)
(* pointers in buf, and tty_read(), which ignores its len, copies less     *)
(* than buf holds: the shell's buffer of the same size still ends in a     *)
(* zero.  The first read never sees the NULL that tmp starts with.         *)
BufferBound ==
  /\ bufptr \in Index
  /\ pc \in {"untmp", "copy"} => size \in Index

(* A read that has seen Enter returns, whatever is typed meanwhile.        *)
ReadEnds == pc = "wait" /\ kbd.flush = 1 ~> pc = "idle"

(* The line the shell gets from a patient user is the line the screen      *)
(* showed when Enter was pressed, with all corrections.                    *)
LineAsShown == ahead = 0 /\ pc = "idle" => line = shown

(* "Tell read() to finish" (tty.c, line 252) and "Wait until the enter is  *)
(* pressed" (line 288): tty_read() does not wait when Enter has been       *)
(* pressed since the last line was taken.                                  *)
EnterNotLost == pc = "wait" /\ entered = 1 => kbd.flush = 1

(* Clearing flush, which rewrites all of kbd, undoes nothing that a        *)
(* patient user did: no Enter is lost, and "shift released, switched to    *)
(* `scancode_set'" (tty.c, line 219) stays true of the shift key.          *)
NothingUndone == ahead = 0 => EnterNotLost /\ kbd.shift = held

=============================================================================
