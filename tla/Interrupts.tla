----------------------------- MODULE Interrupts -----------------------------
(***************************************************************************)
(* Interrupt dispatch: kernel/interrupt.c, the stubs of kernel/asm.S and   *)
(* the two interrupt controllers behind kernel/dev/pic.c.                  *)
(*                                                                         *)
(* irq_handler() ends the interrupt at the controller before it calls the  *)
(* handler, so that only the processor's interrupt flag, cleared by the    *)
(* kind of gate idt_hook() makes, keeps handlers from nesting.  All other  *)
(* modules take an interrupt handler for one step because of this one.     *)
(***************************************************************************)
EXTENDS Integers, Sequences

CONSTANT Lines      \* the request lines that are connected to a device

ASSUME LinesAssumption == Lines \subseteq (0 .. 15) \ {2}

VARIABLES
  imr, irr, isr,   \* the controllers' masks, requests and lines in service
  base,            \* the vectors that pic_remap() gave them
  iflag,           \* 1: the processor takes interrupts
  gates, handlers, \* interrupt.c's entries and handlers
  stack            \* the interrupts taken and not returned from, newest first

picVars == <<imr, irr, isr, base>>
cpuVars == <<iflag, stack>>
idtVars == <<gates, handlers>>

CASCADE == 2        \* the line of the master where the slave is
NULL    == "NULL"
Vectors == 0 .. 47

(***************************************************************************)
(* The controllers and the processor                                       *)
(***************************************************************************)

(* Lines in the order of their priority.                                   *)
Rank(n) == IF n >= 8 THEN 20 + n ELSE n * 10

(* A request gets through: it is not masked, nor is the slave's line, and  *)
(* nothing of its rank or a higher one is in service.                      *)
Passes(n) ==
  /\ n \in irr \ imr
  /\ n >= 8 => CASCADE \notin imr
  /\ \A m \in isr : Rank(n) < Rank(m)

Vector(n) == IF n < 8 THEN base[1] + n ELSE base[2] + n - 8

(* A device asks for attention, but not again while its own handler runs.  *)
Raise(n) ==
  /\ n \notin irr
  /\ \A j \in 1 .. Len(stack) : stack[j].line # n
  /\ irr' = irr \cup {n}
  /\ UNCHANGED <<imr, isr, base, cpuVars, idtVars>>

(* A bug for the properties: a trap gate, which leaves the flag alone.     *)
GateFlagTrap == iflag

(* What a gate of the type 0x8E does to the interrupt flag.                *)
GateFlag == 0

(* The processor takes the request of highest priority and enters the stub *)
(* of its gate; without a gate it resets.                                  *)
Accept(n) ==
  /\ iflag = 1 /\ Passes(n)
  /\ \A m \in Lines : Passes(m) => Rank(n) <= Rank(m)
  /\ irr' = irr \ {n}
  /\ isr' = isr \cup {n} \cup (IF n >= 8 THEN {CASCADE} ELSE {})
  /\ stack' = <<[line |-> n, vector |-> Vector(n),
                 at |-> IF Vector(n) \in gates THEN "eoi2" ELSE "reset"]>> \o stack
  /\ iflag' = GateFlag
  /\ UNCHANGED <<imr, base, idtVars>>

(***************************************************************************)
(* irq_handler()                                                           *)
(***************************************************************************)

InStub(at) == stack # <<>> /\ Head(stack).at = at

Advance(at) == stack' = <<[Head(stack) EXCEPT !.at = at]>> \o Tail(stack)

(* The line that an end-of-interrupt command releases at a controller.     *)
Ended(chip) == {n \in chip \cap isr : \A m \in chip \cap isr : Rank(n) <= Rank(m)}

Master == 0 .. 7
Slave  == 8 .. 15

(* A bug for the properties: the slave is forgotten.                       *)
EoiSlaveNever ==
  /\ InStub("eoi2") /\ Advance("eoi1")
  /\ UNCHANGED <<picVars, iflag, idtVars>>

(* pic_send_eoi(regs.int_no-0x20): the slave's command if the line is one  *)
(* of its own ...                                                          *)
EoiSlave ==
  /\ InStub("eoi2") /\ Advance("eoi1")
  /\ isr' = IF Head(stack).vector - 32 >= 8 THEN isr \ Ended(Slave) ELSE isr
  /\ UNCHANGED <<imr, irr, base, iflag, idtVars>>

(* A bug for the properties: the command is left to the handler.           *)
EoiMasterHooked ==
  /\ InStub("eoi1") /\ Advance("call")
  /\ isr' = IF handlers[Head(stack).vector] = NULL THEN isr \ Ended(Master) ELSE isr
  /\ UNCHANGED <<imr, irr, base, iflag, idtVars>>

(* ... and the master's.                                                   *)
EoiMaster ==
  /\ InStub("eoi1") /\ Advance("call")
  /\ isr' = isr \ Ended(Master)
  /\ UNCHANGED <<imr, irr, base, iflag, idtVars>>

(* The handler, if there is one, runs and returns.                         *)
Call ==
  /\ InStub("call") /\ Advance("iret")
  /\ UNCHANGED <<picVars, iflag, idtVars>>

(* The stub restores the registers; iret restores the flag.                *)
Iret ==
  /\ InStub("iret")
  /\ stack' = Tail(stack) /\ iflag' = 1
  /\ UNCHANGED <<picVars, idtVars>>

(* int_handler(): an exception of the thread.  Its handler hangs with      *)
(* interrupts off; without one, a message is printed.                      *)
Fault(v) ==
  /\ stack = <<>> /\ iflag = 1
  /\ stack' = <<[line |-> -1, vector |-> v,
                 at |-> IF handlers[v] # NULL THEN "hung" ELSE "iret"]>>
  /\ iflag' = GateFlag
  /\ UNCHANGED <<picVars, idtVars>>

Hung == InStub("hung")

Dispatch == EoiSlave \/ EoiMaster \/ Call \/ Iret

(***************************************************************************)
(* What the thread does to all this                                        *)
(***************************************************************************)

(* idt_init() with irq_init() and pic_remap(), which keeps the masks and   *)
(* may lose requests, and the two handlers int_init() hooks.               *)
int_init ==
  /\ gates' = 0 .. 47
  /\ handlers' = [v \in Vectors |->
       CASE v = 0 -> "zero_division" [] v = 13 -> "general_protection" [] OTHER -> NULL]
  /\ base' = <<32, 40>> /\ irr' \in SUBSET irr
  /\ UNCHANGED <<imr, isr, cpuVars>>

int_hook_handler(v, h) == handlers' = [handlers EXCEPT ![v] = h] /\ UNCHANGED gates

irq_enable(n)  == imr' = imr \ {n} /\ UNCHANGED <<irr, isr, base>>
irq_disable(n) == imr' = imr \cup {n} /\ UNCHANGED <<irr, isr, base>>

(* The BIOS has interrupts at its own vectors and needs the timer; the     *)
(* boot loader has switched them off.                                      *)
IntInit ==
  /\ imr \in SUBSET ((Lines \cup {CASCADE}) \ {0}) /\ irr \in SUBSET Lines /\ isr = {}
  /\ base = <<8, 112>>
  /\ iflag = 0 /\ stack = <<>>
  /\ gates = {} /\ handlers = [v \in Vectors |-> NULL]

(***************************************************************************)
(* Properties                                                              *)
(***************************************************************************)

(* Handlers do not nest, although the controller would let them.           *)
OneHandler == Len(stack) <= 1

(* Once the handler is called, and ever after until the next request is    *)
(* taken, the controllers hold nothing back: neither an interrupt without  *)
(* handler nor one of the slave blocks those of lower rank.                *)
NothingHeldBack == ~ InStub("eoi2") /\ ~ InStub("eoi1") => isr = {}

=============================================================================
