----------------------------- MODULE TtyDevice ------------------------------
(***************************************************************************)
(* The life of the terminal device: kernel_main() up to int_enable(), then *)
(* clients that open and close the terminal in any order, through the      *)
(* device table or an inode, and others that use the heap.  kbd_irq()      *)
(* writes to the struct tty that current_tty points to, whoever holds that *)
(* memory by then.                                                         *)
(***************************************************************************)
EXTENDS Interrupts

CONSTANT Blocks     \* places of the heap that fit a struct tty

NoBlock == "none"

ASSUME BlocksAssumption == NoBlock \notin Blocks

VARIABLES
  pc,            \* where the thread is; "out" between two calls
  owner,         \* who holds each block: "free", "tty" or "other"
  ready,         \* the blocks whose bufptr tty_create() has set
  data,          \* devs[DEV_TTY].data
  current_tty, init,   \* tty.c's static variables
  new            \* ttydev_open()'s ptr

ttyVars == <<owner, ready, data, current_tty, init, new>>
allVars == <<picVars, cpuVars, idtVars, pc, ttyVars>>

(* The thread runs while no interrupt is being handled.                    *)
Goto(here, there) == stack = <<>> /\ pc = here /\ pc' = there

Booting == iflag = 0

IntInitStep ==
  /\ Goto("int_init", "open")
  /\ int_init
  /\ UNCHANGED ttyVars

(***************************************************************************)
(* ttydev_open()                                                           *)
(***************************************************************************)

(* -EBUSY.                                                                 *)
OpenBusy ==
  /\ Goto("open", "out") /\ data # NoBlock
  /\ UNCHANGED <<picVars, cpuVars, idtVars, ttyVars>>

(* A bug for the properties: the keyboard is hooked on every open.         *)
tty_init_again ==
  /\ Goto("open", "enable") /\ data = NoBlock
  /\ init' = 1
  /\ int_hook_handler(33, "kbd_irq")
  /\ UNCHANGED <<picVars, cpuVars, owner, ready, data, current_tty, new>>

(* tty_init(): the first time, the handler is hooked ...                   *)
tty_init ==
  /\ Goto("open", IF init = 1 THEN "kmalloc" ELSE "enable") /\ data = NoBlock
  /\ init' = 1
  /\ IF init = 1 THEN UNCHANGED idtVars ELSE int_hook_handler(33, "kbd_irq")
  /\ UNCHANGED <<picVars, cpuVars, owner, ready, data, current_tty, new>>

(* ... and the line unmasked.                                              *)
Enable ==
  /\ Goto("enable", "kmalloc")
  /\ irq_enable(1)
  /\ UNCHANGED <<cpuVars, idtVars, ttyVars>>

Kmalloc ==
  /\ Goto("kmalloc", "create")
  /\ \E b \in Blocks :
       /\ owner[b] = "free" /\ new' = b
       /\ owner' = [owner EXCEPT ![b] = "tty"]
       /\ ready' = ready \ {b}
  /\ UNCHANGED <<picVars, cpuVars, idtVars, data, current_tty, init>>

(* tty_create(): current_tty=ptr; comes before ptr->bufptr=ptr->buf.       *)
Create ==
  /\ Goto("create", "bufptr")
  /\ current_tty' = new
  /\ UNCHANGED <<picVars, cpuVars, idtVars, owner, ready, data, init, new>>

Bufptr ==
  /\ Goto("bufptr", "data")
  /\ ready' = ready \cup {new}
  /\ UNCHANGED <<picVars, cpuVars, idtVars, owner, data, current_tty, init, new>>

Opened ==
  /\ Goto("data", IF Booting THEN "pit_init" ELSE "out")
  /\ data' = new /\ new' = NoBlock
  /\ UNCHANGED <<picVars, cpuVars, idtVars, owner, ready, current_tty, init>>

(***************************************************************************)
(* The rest of the boot, and the calls after it                            *)
(***************************************************************************)

(* vmem_init() hooks the page fault, pit_init() the timer.                 *)
pit_init ==
  /\ Goto("pit_init", "int_enable")
  /\ handlers' = [handlers EXCEPT ![14] = "page_fault", ![32] = "pit_irq"]
  /\ UNCHANGED <<gates, picVars, cpuVars, ttyVars>>

int_enable ==
  /\ Goto("int_enable", "out")
  /\ iflag' = 1
  /\ UNCHANGED <<stack, picVars, idtVars, ttyVars>>

(* Printing: CHECK_TTY of tty_update_cursor() makes the terminal written   *)
(* to the current one; that of a closed device, NULL, is the one before.   *)
tty_write ==
  /\ Goto("out", "out")
  /\ current_tty' = IF data = NoBlock THEN current_tty ELSE data
  /\ UNCHANGED <<picVars, cpuVars, idtVars, owner, ready, data, init, new>>

(* dev_open(), or fs_open() of /dev/tty.                                   *)
Reopen ==
  /\ Goto("out", "open")
  /\ UNCHANGED <<picVars, cpuVars, idtVars, ttyVars>>

(* dev_close(), or fs_close() of any device's inode: it closes the device  *)
(* number node->ino, which is 0.  ttydev_close(): kfree(dev->data), whose  *)
(* assertion holds of a terminal that is open; ...                         *)
Close ==
  /\ Goto("out", "null") /\ data # NoBlock
  /\ owner' = [owner EXCEPT ![data] = "free"]
  /\ UNCHANGED <<picVars, cpuVars, idtVars, ready, data, current_tty, init, new>>

(* Closing it again: kfree(NULL) fails its assertion, and __assert_func()  *)
(* prints to the current terminal and spins, with interrupts on, for ever. *)
CloseClosed ==
  /\ Goto("out", "assert") /\ data = NoBlock
  /\ UNCHANGED <<picVars, cpuVars, idtVars, ttyVars>>

CloseNull ==
  /\ Goto("null", "mask")
  /\ data' = NoBlock
  /\ UNCHANGED <<picVars, cpuVars, idtVars, owner, ready, current_tty, init, new>>

(* ... irq_disable(0x1);                                                   *)
CloseMask ==
  /\ Goto("mask", "out")
  /\ irq_disable(1)
  /\ UNCHANGED <<cpuVars, idtVars, ttyVars>>

(* The rest of the kernel obtains a block, writes to it and frees it.      *)
OtherBlock ==
  /\ Goto("out", "out")
  /\ \E b \in Blocks :
       /\ owner[b] # "tty"
       /\ owner' = [owner EXCEPT ![b] = IF @ = "free" THEN "other" ELSE "free"]
       /\ ready' = ready \ {b}
  /\ UNCHANGED <<picVars, cpuVars, idtVars, data, current_tty, init, new>>

Exception ==
  /\ \E v \in {0, 3, 13, 14} : Fault(v)
  /\ UNCHANGED <<pc, ttyVars>>

(***************************************************************************)
(* The specification                                                       *)
(***************************************************************************)

TtyDeviceInit ==
  /\ IntInit
  /\ pc = "int_init"
  /\ owner = [b \in Blocks |-> "free"] /\ ready = {}
  /\ data = NoBlock /\ current_tty = NoBlock /\ init = 0 /\ new = NoBlock

Thread ==
  \/ IntInitStep
  \/ OpenBusy \/ tty_init \/ Enable \/ Kmalloc \/ Create \/ Bufptr \/ Opened
  \/ pit_init \/ int_enable
  \/ tty_write \/ Reopen \/ Close \/ CloseClosed \/ CloseNull \/ CloseMask \/ OtherBlock

Device(n)    == Raise(n) /\ UNCHANGED <<pc, ttyVars>>
Interrupt(n) == Accept(n) /\ UNCHANGED <<pc, ttyVars>>
Handling     == Dispatch /\ UNCHANGED <<pc, ttyVars>>

Next ==
  \/ Thread \/ Exception \/ Handling
  \/ \E n \in Lines : Device(n) \/ Interrupt(n)

Spec == TtyDeviceInit /\ [][Next]_allVars

(* The processor runs; a line of which a request gets through again and    *)
(* again is taken at last.                                                 *)
FairSpec ==
  /\ Spec /\ WF_allVars(Handling)
  /\ \A n \in Lines : SF_allVars(Interrupt(n))

(***************************************************************************)
(* Properties                                                              *)
(***************************************************************************)

Serving(n) == InStub("call") /\ Head(stack).line = n

(* kbd_irq() never runs without a struct tty that tty_create() has set up, *)
(* nor writes to one whose memory has gone to somebody else: opening hooks *)
(* the keyboard before there is a structure, and closing frees it before   *)
(* the keyboard is masked.                                                 *)
KbdHasTty ==
  Serving(1) /\ handlers[Head(stack).vector] = "kbd_irq" =>
    /\ current_tty \in ready
    /\ owner[current_tty] # "other"

(* A timer or keyboard interrupt that is not masked reaches the handler    *)
(* hooked for it, whatever else is requested, and whatever the BIOS left   *)
(* unmasked without a handler.                                             *)
Reaches(n, h) == Serving(n) /\ handlers[Head(stack).vector] = h

LinesServed ==
  /\ iflag = 1 /\ 0 \in irr ~> Reaches(0, "pit_irq") \/ Hung
  /\ iflag = 1 /\ 1 \in irr ~> Reaches(1, "kbd_irq") \/ 1 \in imr \/ Hung

=============================================================================
