-------------------------------- MODULE Pit ---------------------------------
(***************************************************************************)
(* The interval timer's delay, kernel/dev/pit.c: pit_delay() spins until   *)
(* the handler of IRQ0 has counted `ticks' down and clears `busy'.  The    *)
(* two share both variables without any lock.                              *)
(*                                                                         *)
(* The kernel is one thread and an interrupt handler.  The handler is      *)
(* entered through an interrupt gate, so it runs as one step; the thread   *)
(* can be interrupted before each of its accesses to shared memory.        *)
(***************************************************************************)
EXTENDS Integers

CONSTANT Delays    \* the arguments pit_delay() is called with

ASSUME DelaysAssumption == Delays \subseteq Nat

VARIABLES
  busy, ticks,   \* pit.c's static variables
  pc,            \* where the thread is in pit_delay(), "out" outside
  arg,           \* _ticks
  ret,           \* what the last pit_delay() returned
  irqs,          \* timer interrupts while it waited, until busy was cleared
  cut            \* 1 if one came between busy=1 and ticks=_ticks and cleared busy

vars == <<busy, ticks, pc, arg, ret, irqs, cut>>

EBUSY == -16

(* if(busy) return -EBUSY;                                                 *)
Enter(n) ==
  /\ pc = "out"
  /\ IF busy = 1
     THEN ret' = EBUSY /\ UNCHANGED <<pc, arg, irqs, cut>>
     ELSE /\ pc' = "claim" /\ arg' = n
          /\ irqs' = 0 /\ cut' = 0
          /\ UNCHANGED ret
  /\ UNCHANGED <<busy, ticks>>

(* busy=1;                                                                 *)
Claim ==
  /\ pc = "claim"
  /\ busy' = 1
  /\ pc' = "arm"
  /\ UNCHANGED <<ticks, arg, ret, irqs, cut>>

(* A bug for the properties: the count is added to what is left.           *)
ArmAdds ==
  /\ pc = "arm"
  /\ ticks' = ticks + arg
  /\ pc' = "spin"
  /\ UNCHANGED <<busy, arg, ret, irqs, cut>>

(* ticks=_ticks;                                                           *)
Arm ==
  /\ pc = "arm"
  /\ ticks' = arg
  /\ pc' = "spin"
  /\ UNCHANGED <<busy, arg, ret, irqs, cut>>

(* while(busy); return 0;                                                  *)
Return ==
  /\ pc = "spin" /\ busy = 0
  /\ pc' = "out" /\ ret' = 0
  /\ UNCHANGED <<busy, ticks, arg, irqs, cut>>

(* A bug for the properties: the last tick does not clear busy.            *)
pit_irq_lazy ==
  /\ IF busy = 1 /\ ticks > 0
     THEN ticks' = ticks - 1 /\ UNCHANGED busy
     ELSE UNCHANGED <<busy, ticks>>
  /\ irqs' = IF pc = "spin" /\ busy = 1 /\ ticks > 0 THEN irqs + 1 ELSE irqs
  /\ cut' = IF pc = "arm" /\ busy = 1 /\ ticks = 0 THEN 1 ELSE cut
  /\ UNCHANGED <<pc, arg, ret>>

(* The handler of IRQ0.                                                    *)
pit_irq ==
  /\ IF busy = 1 /\ ticks > 0
     THEN ticks' = ticks - 1 /\ UNCHANGED busy
     ELSE busy' = 0 /\ UNCHANGED ticks
  /\ irqs' = IF pc = "spin" /\ busy = 1 THEN irqs + 1 ELSE irqs
  /\ cut' = IF pc = "arm" /\ busy = 1 /\ ticks = 0 THEN 1 ELSE cut
  /\ UNCHANGED <<pc, arg, ret>>

Init ==
  /\ busy = 0 /\ ticks = 0
  /\ pc = "out" /\ arg = 0 /\ ret = 0
  /\ irqs = 0 /\ cut = 0

(* The thread's steps within pit_delay().                                  *)
Delay == Claim \/ Arm \/ Return

Next ==
  \/ \E n \in Delays : Enter(n)
  \/ Delay
  \/ pit_irq

Spec == Init /\ [][Next]_vars

(* The processor executes the thread, and the timer, programmed in mode 3  *)
(* by pit_init(), raises IRQ0 for ever.                                    *)
Fairness == WF_vars(Delay) /\ WF_vars(pit_irq)

FairSpec == Spec /\ Fairness

(***************************************************************************)
(* Properties                                                              *)
(***************************************************************************)

(* pit.c's two variables stay a flag and a count that never goes below     *)
(* zero, whatever the handler interrupts.                                  *)
TypeOK ==
  /\ busy \in {0, 1}
  /\ ticks \in Nat
  /\ pc \in {"out", "claim", "arm", "spin"}
  /\ arg \in Nat
  /\ ret \in {0, EBUSY}
  /\ irqs \in Nat
  /\ cut \in {0, 1}

(* The thread and the handler never lose count of each other: as long as   *)
(* pit_delay() spins on busy, the ticks left and the interrupts seen make  *)
(* up the argument, and it stops spinning after one interrupt more.        *)
CountExact ==
  pc = "spin" =>
    IF busy = 1 THEN cut = 0 /\ ticks + irqs = arg
    ELSE cut = 1 \/ irqs = arg + 1

(* A caller that waits for one delay before it starts the next never finds *)
(* the timer busy: the handler has always released it.                     *)
NeverBusy == (pc \in {"out", "claim"} => busy = 0) /\ ret # EBUSY

(* "Wait for several ticks; @param ticks: How many ticks to wait"          *)
(* (pit.h, line 32): when pit_delay() returns, that many have passed.      *)
WaitsForTicks == [][ pc = "spin" /\ pc' = "out" => irqs >= arg ]_vars

=============================================================================
