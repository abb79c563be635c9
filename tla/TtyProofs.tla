----------------------------- MODULE TtyProofs ------------------------------
(***************************************************************************)
(* Proofs about the keyboard's line buffer, for every size of it, with     *)
(* keys pressed at any time.                                               *)
(***************************************************************************)
EXTENDS TtyInput, TLAPS

(* BufferBound is not inductive: the size comes from tmp, which is a       *)
(* pointer only after Enter, and flush is what tells the reader so.  The   *)
(* reader's stale copy of kbd must not bring flush back.                   *)
Pointers ==
  /\ tmp \in Index \cup {NoPtr}
  /\ kbd.flush = 1 \/ pc \in {"load", "store", "size", "untmp"} => tmp \in Index

BufferInv == TypeOK /\ BufferBound /\ Pointers

LEMMA BufferInit == Init => BufferInv
<1> SUFFICES ASSUME Init PROVE BufferInv
  OBVIOUS
<1>1. kbd \in Bits /\ reg \in Bits
  BY DEF Init, Bits
<1>2. BufferBound /\ Pointers
  BY BufAssumption DEF Init, BufferBound, Pointers, Index
<1>3. TypeOK
  BY <1>1, UsersAssumption DEF Init, TypeOK, Char
<1> QED BY <1>2, <1>3 DEF BufferInv

LEMMA BufferStep == BufferInv /\ [Next]_vars => BufferInv'
<1> SUFFICES ASSUME BufferInv, [Next]_vars PROVE BufferInv'
  OBVIOUS
<1> USE BufAssumption DEF BufferInv, BufferBound, Pointers, Index
<1>0. decode \in Char /\ Echoed(decode) \in Seq(Char)
  BY DEF decode, Echoed, Char, TypeOK
<1>1. CASE Letter
  <2>1. TypeOK'
    BY <1>0, <1>1 DEF Letter, TypeOK, Char, reader
  <2> QED BY <1>1, <2>1 DEF Letter, TypeOK, reader
<1>16. CASE BehindTable
  <2>1. TypeOK'
    BY <1>16 DEF BehindTable, TypeOK, Char, reader
  <2> QED BY <1>16, <2>1 DEF BehindTable, TypeOK, reader
<1>2. CASE Backspace
  <2>1. SubSeq(echo, 1, Len(echo) - 1) \in Seq(Char)
    BY DEF TypeOK
  <2>2. TypeOK'
    BY <1>2, <2>1 DEF Backspace, TypeOK, Char, reader
  <2> QED BY <1>2, <2>2 DEF Backspace, TypeOK, reader
<1>3. CASE Enter
  BY <1>3 DEF Enter, TypeOK, Bits, reader
<1>4. CASE Shift
  BY <1>4 DEF Shift, TypeOK, Bits, reader
<1>5. CASE Caps
  BY <1>5 DEF Caps, TypeOK, Bits, reader
<1>6. CASE Call
  BY <1>6 DEF Call, TypeOK
<1>7. CASE Reset
  BY <1>7 DEF Reset, TypeOK
<1>8. CASE Waited
  BY <1>8 DEF Waited, TypeOK
<1>9. CASE ClearLoad
  BY <1>9 DEF ClearLoad, TypeOK
<1>10. CASE ClearStore
  BY <1>10 DEF ClearStore, TypeOK, Bits
<1>11. CASE Size
  BY <1>11 DEF Size, TypeOK
<1>12. CASE Untmp
  BY <1>12 DEF Untmp, TypeOK
<1>13. CASE Copy
  <2>1. Append(line, buf[Len(line)]) \in Seq(Char)
    BY <1>13 DEF Copy, TypeOK
  <2> QED BY <1>13, <2>1 DEF Copy, TypeOK
<1>14. CASE Return
  BY <1>14 DEF Return, TypeOK
<1>15. CASE UNCHANGED vars
  BY <1>15 DEF vars, TypeOK
<1> QED
  BY <1>1, <1>2, <1>3, <1>4, <1>5, <1>6, <1>7, <1>8, <1>9, <1>10, <1>11,
     <1>12, <1>13, <1>14, <1>15, <1>16 DEF Next, kbd_irq, tty_read

(* struct tty keeps its types under all interleavings.                     *)
THEOREM TtyTypeCorrect == Spec => []TypeOK
<1>1. BufferInv => TypeOK
  BY DEF BufferInv
<1> QED BY BufferInit, BufferStep, <1>1, PTL DEF Spec

(* The handler never stores behind the buffer but for the one byte that    *)
(* brings bufptr back into it, and tty_read() never copies more than its   *)
(* callers' buffers hold, for every buffer size and every typing.          *)
THEOREM TtyBufferBound == Spec => []BufferBound
<1>1. BufferInv => BufferBound
  BY DEF BufferInv
<1> QED BY BufferInit, BufferStep, <1>1, PTL DEF Spec

(***************************************************************************)
(* What a patient user gets.                                               *)
(***************************************************************************)

(* The first n bytes of buf are those of s.                                *)
Holds(s) == \A j \in 1 .. Len(s) : buf[j - 1] = s[j]

(* Where the line is: in echo and before bufptr while it is typed, in      *)
(* shown and before tmp once Enter is pressed, and at last in the caller's *)
(* buffer.                                                                 *)
Typing == pc = "wait" /\ kbd.flush = 0
Typed  == (pc = "wait" /\ kbd.flush = 1) \/ pc \in {"load", "store", "size", "untmp", "copy"}

LineInv ==
  /\ Typing => bufptr = Len(echo) /\ Len(echo) < BufSize /\ Holds(echo)
  /\ ~ Typing => echo = <<>>
  /\ Typed => Len(shown) < BufSize /\ Holds(shown)
  /\ Typed /\ pc \notin {"untmp", "copy"} => tmp = Len(shown)
  /\ pc \in {"untmp", "copy"} => size = Len(shown)
  /\ pc \notin {"copy", "idle"} => line = <<>>
  /\ pc = "copy" =>
       Len(line) <= size /\ \A j \in 1 .. Len(line) : line[j] = shown[j]
  /\ pc = "idle" => line = shown

(* Nobody touches kbd while the reader holds a copy of it.                 *)
BitsInv ==
  /\ pc \in {"idle", "reset", "size", "untmp", "copy"} => kbd.flush = 0
  /\ pc = "store" => reg = kbd
  /\ kbd.shift = held
  /\ entered = 1 => pc = "wait" /\ kbd.flush = 1

PatientInv == BufferInv /\ (ahead = 0 => LineInv /\ BitsInv)

LEMMA PatientInit == Init => PatientInv
<1> SUFFICES ASSUME Init PROVE PatientInv
  OBVIOUS
<1>1. LineInv
  BY BufAssumption DEF Init, LineInv, Typing, Typed, Holds
<1>2. BitsInv
  BY DEF Init, BitsInv
<1> QED BY BufferInit, <1>1, <1>2 DEF PatientInv

LEMMA UserKept == [Next]_vars => ahead' = ahead
<1> SUFFICES ASSUME [Next]_vars PROVE ahead' = ahead
  OBVIOUS
<1>1. CASE kbd_irq
  BY <1>1 DEF kbd_irq, Letter, BehindTable, Backspace, Enter, Shift, Caps, reader
<1>2. CASE Call
  BY <1>2 DEF Call
<1>3. CASE tty_read
  BY <1>3 DEF tty_read, Reset, Waited, ClearLoad, ClearStore, Size, Untmp, Copy, Return
<1>4. CASE UNCHANGED vars
  BY <1>4 DEF vars
<1> QED BY <1>1, <1>2, <1>3, <1>4 DEF Next

LEMMA PatientStep == PatientInv /\ [Next]_vars => PatientInv'
<1> SUFFICES ASSUME PatientInv, [Next]_vars PROVE PatientInv'
  OBVIOUS
<1>a. BufferInv' /\ ahead' = ahead
  BY BufferStep, UserKept DEF PatientInv
<1> SUFFICES ASSUME ahead = 0 PROVE LineInv' /\ BitsInv'
  BY <1>a DEF PatientInv
<1>0. /\ TypeOK /\ BufferBound /\ Pointers /\ LineInv /\ BitsInv
      /\ BufSize \in Nat /\ 0 < BufSize /\ ~ (ahead = 1)
  BY BufAssumption DEF PatientInv, BufferInv
<1> USE <1>0
<1>1. CASE Letter
  <2>1. Typing /\ Len(echo) + 1 < BufSize /\ bufptr = Len(echo) /\ Holds(echo)
    BY <1>1 DEF Letter, Ready, Room, Typing, LineInv
  <2>2. pc = "wait" /\ pc' = pc /\ kbd' = kbd
    BY <1>1, <2>1 DEF Letter, reader, Typing
  <2>3. Len(echo') = Len(echo) + 1 /\ Len(echo) \in Nat
    BY <1>1 DEF Letter, Echoed, TypeOK
  <2>4. bufptr' = Len(echo')
    BY <1>1, <2>1, <2>3 DEF Letter
  <2>5. ASSUME NEW j \in 1 .. Len(echo') PROVE buf'[j - 1] = echo'[j]
    <3>1. j - 1 \in Index /\ j - 1 # bufptr + 1
      BY <2>1, <2>3 DEF Index
    <3>2. buf'[j - 1] = IF j - 1 = bufptr THEN decode ELSE buf[j - 1]
      BY <1>1, <3>1 DEF Letter
    <3>3. echo'[j] = IF j = Len(echo) + 1 THEN decode ELSE echo[j]
      BY <1>1, <2>3 DEF Letter, Echoed, TypeOK
    <3> QED BY <2>1, <2>3, <3>2, <3>3 DEF Holds
  <2>6. LineInv'
    <3>1. Typing' /\ ~ Typed'
      BY <2>1, <2>2 DEF Typing, Typed
    <3>2. line' = line
      BY <1>1 DEF Letter, reader
    <3> QED BY <2>1, <2>2, <2>3, <2>4, <2>5, <3>1, <3>2 DEF LineInv, Holds
  <2> QED BY <1>1, <2>2, <2>6 DEF Letter, BitsInv, reader
<1>16. CASE BehindTable
  BY <1>16 DEF BehindTable
<1>2. CASE Backspace
  <2>1. Typing /\ Len(echo) < BufSize /\ bufptr = Len(echo) /\ Holds(echo) /\ bufptr > 0
    BY <1>2 DEF Backspace, Ready, Typing, LineInv
  <2>2. pc = "wait" /\ pc' = pc /\ kbd' = kbd
    BY <1>2, <2>1 DEF Backspace, reader, Typing
  <2>3. /\ Len(echo') = Len(echo) - 1 /\ Len(echo) \in Nat
        /\ \A j \in 1 .. Len(echo') : echo'[j] = echo[j]
    BY <1>2, <2>1 DEF Backspace, TypeOK
  <2>4. bufptr' = Len(echo')
    BY <1>2, <2>1, <2>3 DEF Backspace
  <2>5. ASSUME NEW j \in 1 .. Len(echo') PROVE buf'[j - 1] = echo'[j]
    <3>1. j - 1 \in Index /\ j - 1 # bufptr - 1
      BY <2>1, <2>3 DEF Index
    <3>2. buf'[j - 1] = buf[j - 1]
      BY <1>2, <3>1 DEF Backspace, TypeOK
    <3> QED BY <2>1, <2>3, <3>2 DEF Holds
  <2>6. LineInv'
    <3>1. Typing' /\ ~ Typed'
      BY <2>1, <2>2 DEF Typing, Typed
    <3>2. line' = line
      BY <1>2 DEF Backspace, reader
    <3> QED BY <2>1, <2>2, <2>3, <2>4, <2>5, <3>1, <3>2 DEF LineInv, Holds
  <2> QED BY <1>2, <2>2, <2>6 DEF Backspace, BitsInv, reader
<1>3. CASE Enter
  <2>1. Typing /\ Len(echo) < BufSize /\ bufptr = Len(echo) /\ Holds(echo)
    BY <1>3 DEF Enter, Ready, Typing, LineInv
  <2>2. /\ pc = "wait" /\ pc' = pc /\ kbd'.flush = 1 /\ kbd'.shift = kbd.shift
        /\ shown' = echo /\ buf' = buf /\ tmp' = bufptr /\ echo' = <<>> /\ line' = line
    BY <1>3, <2>1 DEF Enter, reader, Typing
  <2>3. LineInv'
    BY <2>1, <2>2 DEF LineInv, Typing, Typed, Holds
  <2> QED BY <1>3, <2>2, <2>3 DEF Enter, BitsInv, reader
<1>4. CASE Shift
  <2>1. LineInv'
    BY <1>4 DEF Shift, LineInv, Typing, Typed, Holds, reader
  <2> QED BY <1>4, <2>1 DEF Shift, Ready, BitsInv, reader
<1>5. CASE Caps
  <2>1. LineInv'
    BY <1>5 DEF Caps, LineInv, Typing, Typed, Holds, reader
  <2> QED BY <1>5, <2>1 DEF Caps, Ready, BitsInv, reader
<1>6. CASE Call
  BY <1>6 DEF Call, LineInv, BitsInv, Typing, Typed, Holds
<1>7. CASE Reset
  BY <1>7 DEF Reset, LineInv, BitsInv, Typing, Typed, Holds
<1>8. CASE Waited
  BY <1>8 DEF Waited, LineInv, BitsInv, Typing, Typed, Holds
<1>9. CASE ClearLoad
  BY <1>9 DEF ClearLoad, LineInv, BitsInv, Typing, Typed, Holds
<1>10. CASE ClearStore
  BY <1>10 DEF ClearStore, LineInv, BitsInv, Typing, Typed, Holds
<1>11. CASE Size
  BY <1>11 DEF Size, LineInv, BitsInv, Typing, Typed, Holds
<1>12. CASE Untmp
  <2>1. Len(line') = 0
    BY <1>12 DEF Untmp, LineInv
  <2>2. Len(shown) \in Nat
    BY DEF TypeOK
  <2> QED BY <1>12, <2>1, <2>2 DEF Untmp, LineInv, BitsInv, Typing, Typed, Holds
<1>13. CASE Copy
  <2>1. Len(line) \in Nat /\ Len(line) < Len(shown) /\ Len(shown) \in Nat
    BY <1>13 DEF Copy, LineInv, TypeOK
  <2>2. Len(line') = Len(line) + 1
    BY <1>13, <2>1 DEF Copy, TypeOK
  <2>3. buf[Len(line)] = shown[Len(line) + 1]
    <3>1. Len(line) + 1 \in 1 .. Len(shown)
      BY <2>1
    <3>2. buf[Len(line) + 1 - 1] = shown[Len(line) + 1]
      BY <1>13, <3>1 DEF Copy, LineInv, Typed, Holds
    <3> QED BY <2>1, <3>2
  <2>4. ASSUME NEW j \in 1 .. Len(line') PROVE line'[j] = shown[j]
    <3>1. line'[j] = IF j = Len(line) + 1 THEN buf[Len(line)] ELSE line[j]
      BY <1>13, <2>1, <2>2 DEF Copy, TypeOK
    <3> QED BY <1>13, <2>1, <2>2, <2>3, <3>1 DEF Copy, LineInv
  <2>5. LineInv'
    BY <1>13, <2>1, <2>2, <2>4 DEF Copy, LineInv, Typing, Typed, Holds
  <2> QED BY <1>13, <2>5 DEF Copy, BitsInv
<1>14. CASE Return
  <2>1. /\ Len(line) = Len(shown) /\ line \in Seq(Char) /\ shown \in Seq(Char)
        /\ \A j \in 1 .. Len(line) : line[j] = shown[j]
    BY <1>14 DEF Return, LineInv, TypeOK
  <2>2. line = shown
    BY <2>1
  <2> QED BY <1>14, <2>2 DEF Return, LineInv, BitsInv, Typing, Typed, Holds
<1>15. CASE UNCHANGED vars
  BY <1>15 DEF vars, LineInv, BitsInv, Typing, Typed, Holds
<1> QED
  BY <1>1, <1>2, <1>3, <1>4, <1>5, <1>6, <1>7, <1>8, <1>9, <1>10, <1>11,
     <1>12, <1>13, <1>14, <1>15, <1>16 DEF Next, kbd_irq, tty_read

(* The shell gets the line that the screen showed, for every buffer size   *)
(* and every sequence of letters and corrections.                          *)
THEOREM TtyLineAsShown == Spec => []LineAsShown
<1>1. PatientInv => LineAsShown
  BY DEF PatientInv, LineInv, LineAsShown
<1> QED BY PatientInit, PatientStep, <1>1, PTL DEF Spec

(* Clearing flush takes back nothing that a patient user did.              *)
THEOREM TtyNothingUndone == Spec => []NothingUndone
<1>1. PatientInv => NothingUndone
  BY DEF PatientInv, BitsInv, NothingUndone, EnterNotLost
<1> QED BY PatientInit, PatientStep, <1>1, PTL DEF Spec

=============================================================================
