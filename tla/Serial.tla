------------------------------- MODULE Serial -------------------------------
(***************************************************************************)
(* The serial log: kernel/dev/serial.c with libc's vsprintf().             *)
(*                                                                         *)
(* serial_send() waits until the chip has nothing left to transmit and     *)
(* then stores a character.  kbd_irq() logs, too, and may come between the *)
(* two: the thread then stores although the chip still holds the handler's *)
(* last character.                                                         *)
(***************************************************************************)
EXTENDS Conv, FiniteSets

CONSTANTS
  Strings,    \* what lies at the addresses 1, 2, ... that %s is given
  Pieces,     \* what formats are made of: <<letter, word>>
  MaxPieces,  \* bound: pieces of a format
  FifoDepth,  \* 16: characters the chip can hold
  Banner,     \* what serial_init() logs
  KeyLog,     \* what kbd_irq() logs
  MaxKeys     \* bound: keys that are logged

ASSUME StringsAssumption == Strings \in Seq(Seq(Nat)) /\ {Banner, KeyLog} \subseteq Seq(Nat)
ASSUME FifoAssumption == FifoDepth \in Nat /\ FifoDepth >= 2
ASSUME SerialBoundAssumption == MaxPieces \in Nat /\ MaxKeys \in Nat

PERCENT == 37
LF      == 10
CR      == 13
Letter  == [c |-> 99, d |-> 100, s |-> 115, u |-> 117, x |-> 120]
NULL    == 0
Null    == <<40, 110, 117, 108, 108, 41>>     \* "(null)"

VARIABLES
  call,      \* the pieces of the thread's format, with their arguments
  fpos,      \* the next character of the format, 0 before there is one
  vlist,     \* the arguments not yet taken
  buffer,    \* what vsprintf() has written
  todo,      \* who has to send what: the thread and the handler
  at,        \* where each of them is
  serial_enabled,
  depth,     \* how many characters the chip takes in
  fifo, wire,   \* those it holds and those it has transmitted, by sender
  keys       \* how many keys were logged

chip == <<serial_enabled, depth, fifo, wire>>
vars == <<call, fpos, vlist, buffer, todo, at, chip, keys>>

Senders == {"thread", "irq"}

(* A directive is a percent sign and its letter; a plain piece is a        *)
(* character, written as the percent sign's absence.                       *)
Takes(p)  == p[1] \in {Letter[l] : l \in DOMAIN Letter}
Plain(p)  == p[1] = 0
Source(p) == IF Plain(p) THEN <<p[2]>> ELSE <<PERCENT, p[1]>>
Format    == FlattenSeq([n \in DOMAIN call |-> Source(call[n])])
Args(ps)  == FlattenSeq([n \in DOMAIN ps |-> IF Takes(ps[n]) THEN <<ps[n][2]>> ELSE <<>>])

(* A plain percent sign would begin a directive; %s is given a string.     *)
ASSUME PiecesAssumption ==
  /\ Pieces \subseteq (Nat \X Word)
  /\ \A p \in Pieces : /\ Plain(p) => p[2] # PERCENT
                       /\ p[1] = Letter.s => p[2] = NULL \/ p[2] \in DOMAIN Strings

(***************************************************************************)
(* vsprintf()                                                              *)
(***************************************************************************)

(* serial_printf(): a format without a percent sign at its end, and the    *)
(* arguments it asks for.                                                  *)
serial_printf ==
  /\ at["thread"] = "out" /\ at["irq"] = "out" /\ fpos = 0
  /\ \E n \in 0 .. MaxPieces : call' \in [1 .. n -> Pieces]
  /\ vlist' = Args(call') /\ fpos' = 1 /\ buffer' = <<>>
  /\ at' = [at EXCEPT !["thread"] = "format"]
  /\ UNCHANGED <<todo, chip, keys>>

Running(w) == w = "irq" \/ at["irq"] = "out"

Formatting == at["thread"] = "format" /\ Running("thread")

(* What a directive writes.                                                *)
Converted(letter, arg) ==
  CASE letter = PERCENT  -> <<PERCENT>>
    [] letter = Letter.c -> <<arg>>
    [] letter = Letter.s -> IF arg = NULL THEN Null ELSE Strings[arg]
    [] letter = Letter.d -> itoa(Signed(arg))
    [] letter = Letter.u -> utoa(arg)
    [] letter = Letter.x -> itoh(arg)
    [] OTHER             -> <<>>

FormatPlain ==
  /\ Formatting /\ fpos <= Len(Format) /\ Format[fpos] # PERCENT
  /\ buffer' = Append(buffer, Format[fpos])
  /\ fpos' = fpos + 1
  /\ UNCHANGED <<call, vlist, todo, at, chip, keys>>

FormatDirective ==
  /\ Formatting /\ fpos <= Len(Format) /\ Format[fpos] = PERCENT
  /\ LET letter == Format[fpos + 1]
         takes  == \E l \in DOMAIN Letter : Letter[l] = letter
     IN  /\ buffer' = buffer \o Converted(letter, IF takes THEN Head(vlist) ELSE 0)
         /\ vlist' = IF takes THEN Tail(vlist) ELSE vlist
  /\ fpos' = fpos + 2
  /\ UNCHANGED <<call, todo, at, chip, keys>>

(* The format's zero: serial_print() takes over.                           *)
FormatEnd ==
  /\ Formatting /\ fpos > Len(Format)
  /\ todo' = [todo EXCEPT !["thread"] = buffer]
  /\ at' = [at EXCEPT !["thread"] = "next"]
  /\ UNCHANGED <<call, fpos, vlist, buffer, chip, keys>>

(***************************************************************************)
(* serial_print() and serial_send()                                        *)
(***************************************************************************)

(* A bug for the properties: the FIFO stays off.                           *)
serial_init_plain ==
  /\ serial_enabled = 0
  /\ serial_enabled' = 1 /\ depth' = 1
  /\ todo' = [todo EXCEPT !["thread"] = Banner]
  /\ at' = [at EXCEPT !["thread"] = "next"]
  /\ UNCHANGED <<call, fpos, vlist, buffer, fifo, wire, keys>>

(* The FIFO is switched on, and the log begins.                            *)
serial_init ==
  /\ serial_enabled = 0
  /\ serial_enabled' = 1 /\ depth' = FifoDepth
  /\ todo' = [todo EXCEPT !["thread"] = Banner]
  /\ at' = [at EXCEPT !["thread"] = "next"]
  /\ UNCHANGED <<call, fpos, vlist, buffer, fifo, wire, keys>>

local == <<call, fpos, vlist, buffer>>

(* The next character; a line feed is preceded by a carriage return.       *)
Take(w) ==
  /\ at[w] = "next" /\ Running(w)
  /\ at' = [at EXCEPT ![w] = CASE todo[w] = <<>>    -> "out"
                               [] todo[w] # <<>> /\ Head(todo[w]) = LF -> "waitcr"
                               [] OTHER -> "wait"]
  /\ UNCHANGED <<local, todo, chip, keys>>

(* while((inb(SERIAL_LINESTAT) & 0x20)==0);                                *)
Wait(w) ==
  /\ at[w] \in {"wait", "waitcr"} /\ Running(w)
  /\ fifo = <<>>
  /\ at' = [at EXCEPT ![w] = IF @ = "wait" THEN "put" ELSE "putcr"]
  /\ UNCHANGED <<local, todo, chip, keys>>

(* outb(SERIAL_DATA,c): a chip that is full loses a character.             *)
Stored(b) == fifo' = IF Len(fifo) < depth THEN Append(fifo, b) ELSE [fifo EXCEPT ![depth] = b]

PutCr(w) ==
  /\ at[w] = "putcr" /\ Running(w)
  /\ Stored(<<w, CR>>)
  /\ at' = [at EXCEPT ![w] = "wait"]
  /\ UNCHANGED <<local, todo, serial_enabled, depth, wire, keys>>

Put(w) ==
  /\ at[w] = "put" /\ Running(w)
  /\ Stored(<<w, Head(todo[w])>>)
  /\ todo' = [todo EXCEPT ![w] = Tail(@)]
  /\ at' = [at EXCEPT ![w] = "next"]
  /\ UNCHANGED <<local, serial_enabled, depth, wire, keys>>

(* kbd_irq() of shift, ctrl or caps, once the kernel is up.                *)
Key ==
  /\ at["irq"] = "out" /\ fpos > 0 /\ keys < MaxKeys
  /\ keys' = keys + 1
  /\ todo' = [todo EXCEPT !["irq"] = KeyLog]
  /\ at' = [at EXCEPT !["irq"] = "next"]
  /\ UNCHANGED <<local, chip>>

(* The chip transmits.                                                     *)
Transmit ==
  /\ fifo # <<>>
  /\ wire' = Append(wire, Head(fifo)) /\ fifo' = Tail(fifo)
  /\ UNCHANGED <<local, todo, at, serial_enabled, depth, keys>>

(***************************************************************************)
(* The specification                                                       *)
(***************************************************************************)

Init ==
  /\ call = <<>> /\ fpos = 0 /\ vlist = <<>> /\ buffer = <<>>
  /\ todo = [w \in Senders |-> <<>>]
  /\ at = [thread |-> "boot", irq |-> "out"]
  /\ serial_enabled = 0 /\ depth = 1 /\ fifo = <<>> /\ wire = <<>>
  /\ keys = 0

Next ==
  \/ serial_init
  \/ serial_printf \/ FormatPlain \/ FormatDirective \/ FormatEnd
  \/ \E w \in Senders : Take(w) \/ Wait(w) \/ PutCr(w) \/ Put(w)
  \/ Key \/ Transmit

Spec == Init /\ [][Next]_vars

(***************************************************************************)
(* Properties                                                              *)
(***************************************************************************)

(* What a piece means: a numeral is made of the digits that its value has, *)
(* in hexadecimal of an even number of them.                               *)
Even(s) == IF Len(s) % 2 = 1 THEN <<ZERO>> \o s ELSE s

Meaning(p) ==
  LET w == p[2]
  IN  CASE Plain(p) -> <<w>>
        [] p[1] = PERCENT -> <<PERCENT>>
        [] p[1] = Letter.c -> <<w>>
        [] p[1] = Letter.s -> IF w = NULL THEN Null ELSE Strings[w]
        [] p[1] = Letter.d /\ Signed(w) >= 0 -> Numeral(w, 10)
        [] p[1] = Letter.d /\ Signed(w) < 0 -> <<MINUS>> \o Numeral(-Signed(w), 10)
        [] p[1] = Letter.u -> Numeral(w, 10)
        [] p[1] = Letter.x -> Even(Numeral(w, 16))
        [] OTHER -> <<>>

(* vsprintf() writes what the format asks for, each directive with its own *)
(* argument, for numbers of every size but the smallest int (which itoa()  *)
(* cannot negate); atoi() reads its decimals back.                         *)
FormatsAsAsked ==
  /\ at["thread"] \notin {"boot", "format"}
  /\ \A n \in DOMAIN call : call[n][1] = Letter.d => Signed(call[n][2]) # INTMIN
  => /\ buffer = FlattenSeq([n \in DOMAIN call |-> Meaning(call[n])])
     /\ vlist = <<>>
     /\ \A n \in DOMAIN call :
          call[n][1] = Letter.d => atoi(itoa(Signed(call[n][2]))) = Signed(call[n][2])

(* What serial_send() makes of a text, and what one of the two has sent.   *)
Sent(s)  == FlattenSeq([n \in DOMAIN s |-> IF s[n] = LF THEN <<CR, LF>> ELSE <<s[n]>>])
Heard(w) ==
  LET log == wire \o fifo
  IN  FlattenSeq([n \in DOMAIN log |-> IF log[n][1] = w THEN <<log[n][2]>> ELSE <<>>])

(* No character of the log is lost, wherever the keyboard interrupts the   *)
(* thread: each message comes out whole and in order.                      *)
LogComplete ==
  /\ at["thread"] = "out" => Heard("thread") = Sent(Banner) \o Sent(buffer)
  /\ at["irq"] = "out" => Heard("irq") = FlattenSeq([n \in 1 .. keys |-> Sent(KeyLog)])

=============================================================================
