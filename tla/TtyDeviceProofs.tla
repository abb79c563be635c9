-------------------------- MODULE TtyDeviceProofs ---------------------------
(***************************************************************************)
(* Proofs about interrupt dispatch and the life of the terminal, for every *)
(* set of connected lines, every mask the BIOS may leave and every heap.   *)
(***************************************************************************)
EXTENDS TtyDevice, TLAPS

(***************************************************************************)
(* The inductive invariant                                                 *)
(***************************************************************************)

(* Boot lasts as long as interrupts are off without one being handled.     *)
Boot == iflag = 0 /\ stack = <<>>

Idle   == stack = <<>>
Frame  == Head(stack)
Frames == [line : Int, vector : Int, at : {"eoi2", "eoi1", "call", "iret", "hung"}]

(* At most one interrupt is being handled, and then interrupts are off.    *)
Flag ==
  /\ iflag \in {0, 1}
  /\ Idle \/ (stack = <<Frame>> /\ Frame \in Frames)
  /\ iflag = 1 => Idle

(* After int_init() the vectors are those irq_handler() computes with.     *)
Mapped == pc # "int_init" => base = <<32, 40>> /\ gates = 0 .. 47

(* What is in service at each point of irq_handler().                      *)
Service ==
  IF InStub("eoi2")
  THEN /\ Frame.line \in Lines /\ Frame.vector = 32 + Frame.line
       /\ isr = {Frame.line} \cup (IF Frame.line >= 8 THEN {CASCADE} ELSE {})
  ELSE IF InStub("eoi1")
  THEN Frame.line \in Lines /\ isr = {IF Frame.line >= 8 THEN CASCADE ELSE Frame.line}
  ELSE isr = {}

(* A structure that kbd_irq() can be let loose on.                         *)
Usable == current_tty \in ready /\ owner[current_tty] # "other"

(* The structure and the mask at each point of the thread: during boot ... *)
BootTty ==
  /\ pc \in {"int_init", "open", "enable", "kmalloc", "create", "bufptr", "data",
             "pit_init", "int_enable"}
  /\ pc \in {"int_init", "open"} => data = NoBlock /\ init = 0
  /\ pc \notin {"int_init", "open"} => init = 1
  /\ pc \in {"create", "bufptr", "data"} => new \in Blocks /\ owner[new] = "tty"
  /\ pc \in {"bufptr", "data"} => current_tty = new
  /\ pc = "data" => new \in ready
  /\ pc \in {"pit_init", "int_enable"} =>
       data = current_tty /\ current_tty \in ready /\ owner[current_tty] = "tty"

(* ... and after it, where the keyboard is masked unless the first open    *)
(* has not been closed yet.                                                *)
LiveTty ==
  /\ pc \in {"out", "open", "kmalloc", "create", "bufptr", "data", "null", "mask",
             "assert"}
  /\ init = 1
  /\ pc \in {"create", "bufptr", "data"} => new \in Blocks
  /\ 1 \notin imr =>
       \/ /\ pc \in {"out", "open"} /\ data = current_tty
          /\ current_tty \in ready /\ owner[current_tty] = "tty"
       \/ /\ pc \in {"null", "mask"}
          /\ current_tty \in ready /\ owner[current_tty] = "free"

Tty ==
  /\ ready \subseteq Blocks
  /\ owner \in [Blocks -> {"free", "tty", "other"}]
  /\ IF Boot THEN BootTty ELSE LiveTty

(* An interrupt of the keyboard that was taken finds the structure.        *)
Taken == stack # <<>> /\ Frame.line = 1 => Usable

DInv == Flag /\ Mapped /\ Service /\ Tty /\ Taken

(***************************************************************************)
(* Lemmas                                                                  *)
(***************************************************************************)

LEMMA OneFrame ==
  ASSUME NEW f
  PROVE  /\ <<f>> # <<>> /\ Head(<<f>>) = f /\ Tail(<<f>>) = <<>> /\ Len(<<f>>) = 1
         /\ <<f>> \o <<>> = <<f>>
  OBVIOUS

(* An end-of-interrupt command for the only line in service of a chip.     *)
LEMMA EndedOne ==
  ASSUME NEW chip, NEW n \in Int, chip \cap isr = {n}
  PROVE  Ended(chip) = {n}
  BY DEF Ended, Rank

LEMMA AdvanceFrame ==
  ASSUME Flag, NEW here,
         NEW there \in {"eoi2", "eoi1", "call", "iret", "hung"},
         InStub(here), Advance(there)
  PROVE  /\ stack = <<Frame>> /\ Frame.at = here
         /\ stack' = <<Frame'>> /\ Frame' \in Frames /\ ~ Idle'
         /\ Frame'.at = there /\ Frame'.line = Frame.line /\ Frame'.vector = Frame.vector
<1>1. stack = <<Frame>> /\ Frame \in Frames /\ Frame.at = here
  BY DEF Flag, Idle, Frame, InStub
<1>2. stack' = <<[Frame EXCEPT !.at = there]>>
  BY <1>1, OneFrame DEF Advance, Frame
<1>3. Frame' = [Frame EXCEPT !.at = there]
  BY <1>2, OneFrame DEF Frame
<1>4. Frame' \in Frames /\ Frame'.at = there
      /\ Frame'.line = Frame.line /\ Frame'.vector = Frame.vector
  BY <1>1, <1>3 DEF Frames
<1> QED BY <1>1, <1>2, <1>3, <1>4, OneFrame DEF Idle

(* A step of irq_handler() that leaves thread and devices alone.           *)
LEMMA StubKeeps ==
  ASSUME DInv, NEW here,
         NEW there \in {"eoi2", "eoi1", "call", "iret", "hung"},
         InStub(here), Advance(there),
         UNCHANGED <<imr, base, iflag, idtVars, pc, ttyVars>>
  PROVE  Flag' /\ Mapped' /\ Tty' /\ Taken'
<1>1. /\ stack = <<Frame>> /\ stack' = <<Frame'>> /\ Frame' \in Frames /\ ~ Idle'
      /\ Frame'.line = Frame.line
  BY AdvanceFrame DEF DInv
<1>2. stack # <<>> /\ stack' # <<>> /\ ~ Boot /\ ~ Boot'
  BY <1>1, OneFrame DEF Boot, Idle, InStub
<1>3. Flag'
  BY <1>1, <1>2 DEF DInv, Flag, Idle
<1>4. Mapped'
  BY DEF DInv, Mapped, idtVars
<1>5. Tty'
  BY <1>2 DEF DInv, Tty, LiveTty, ttyVars
<1>6. Taken'
  BY <1>1, <1>2 DEF DInv, Taken, Usable, ttyVars
<1> QED BY <1>3, <1>4, <1>5, <1>6

(***************************************************************************)
(* The invariant holds                                                     *)
(***************************************************************************)

LEMMA InitInv == TtyDeviceInit => DInv
  BY DEF TtyDeviceInit, IntInit, DInv, Flag, Idle, Mapped, Service, InStub, Tty, Boot,
         BootTty, Taken

LEMMA RaiseInv == DInv /\ (\E n \in Lines : Device(n)) => DInv'
<1> SUFFICES ASSUME DInv, NEW n \in Lines, Device(n) PROVE DInv'
  OBVIOUS
<1>1. UNCHANGED <<imr, isr, base, iflag, stack, gates, handlers, pc, owner, ready, data,
                  current_tty, init, new>>
  BY DEF Device, Raise, cpuVars, idtVars, ttyVars
<1> QED BY <1>1 DEF DInv, Flag, Idle, Frame, Mapped, Service, InStub, Tty, Boot, BootTty,
                    LiveTty, Taken, Usable

(* Taking an interrupt: it is one of a known line, at its own vector, and  *)
(* the keyboard's is taken only while there is a structure for it.         *)
LEMMA AcceptInv == DInv /\ (\E n \in Lines : Interrupt(n)) => DInv'
<1> SUFFICES ASSUME DInv, NEW n \in Lines, Interrupt(n) PROVE DInv'
  OBVIOUS
<1>1. n \in 0 .. 15 /\ n # 2
  BY LinesAssumption
<1>2. iflag = 1 /\ stack = <<>> /\ n \notin imr /\ iflag' = 0 /\ ~ Boot /\ pc # "int_init"
  BY DEF Interrupt, Accept, Passes, GateFlag, DInv, Flag, Idle, Boot, Tty, LiveTty
<1>3. Vector(n) = 32 + n /\ Vector(n) \in gates
  <2>1. base[1] = 32 /\ base[2] = 40 /\ gates = 0 .. 47
    BY <1>2 DEF DInv, Mapped
  <2>2. Vector(n) = 32 + n
    BY <1>1, <2>1 DEF Vector
  <2> QED BY <1>1, <2>1, <2>2
<1> DEFINE f == [line |-> n, vector |-> Vector(n), at |-> "eoi2"]
<1>4. stack' = <<f>> /\ f \in Frames
  BY <1>1, <1>2, <1>3, OneFrame DEF Interrupt, Accept, Frames
<1>5. Frame' = f /\ stack' # <<>> /\ ~ Boot' /\ ~ Idle'
  BY <1>4, OneFrame DEF Frame, Boot, Idle
<1>6. isr = {}
  BY <1>2 DEF DInv, Service, InStub
<1>7. UNCHANGED <<imr, base, gates, pc, owner, ready, data, current_tty, init, new>>
  BY DEF Interrupt, Accept, idtVars, ttyVars
<1>8. Flag'
  BY <1>2, <1>4, <1>5 DEF Flag
<1>9. Mapped'
  BY <1>7 DEF DInv, Mapped
<1>10. Service'
  BY <1>3, <1>5, <1>6 DEF Interrupt, Accept, Service, InStub, Frame
<1>11. Tty' /\ (n = 1 => Usable)
  BY <1>2, <1>5, <1>7 DEF DInv, Tty, LiveTty, Usable
<1>12. Taken'
  BY <1>5, <1>7, <1>11 DEF Taken, Usable
<1> QED BY <1>8, <1>9, <1>10, <1>11, <1>12 DEF DInv

(* The commands of pic_send_eoi() release just what was in service.        *)
LEMMA EoiInv == DInv /\ (EoiSlave \/ EoiMaster) /\ UNCHANGED <<pc, ttyVars>> => DInv'
<1> SUFFICES ASSUME DInv, EoiSlave \/ EoiMaster, UNCHANGED <<pc, ttyVars>> PROVE DInv'
  OBVIOUS
<1>1. CASE EoiSlave
  <2>1. InStub("eoi2") /\ Advance("eoi1") /\ UNCHANGED <<imr, base, iflag, idtVars>>
    BY <1>1 DEF EoiSlave
  <2>2. Flag' /\ Mapped' /\ Tty' /\ Taken'
    BY <2>1, StubKeeps
  <2>3. Frame'.line = Frame.line /\ Frame'.at = "eoi1" /\ ~ Idle'
    BY <2>1, AdvanceFrame DEF DInv
  <2>4. /\ Frame.line \in Lines /\ Frame.vector = 32 + Frame.line
        /\ isr = {Frame.line} \cup (IF Frame.line >= 8 THEN {CASCADE} ELSE {})
    BY <2>1 DEF DInv, Service
  <2>5. Frame.line \in 0 .. 15 /\ Frame.line # 2
    BY <2>4, LinesAssumption
  <2>6. isr' = {IF Frame.line >= 8 THEN CASCADE ELSE Frame.line}
    <3>1. isr' = IF Frame.line >= 8 THEN isr \ Ended(Slave) ELSE isr
      BY <1>1, <2>4, <2>5 DEF EoiSlave, Frame
    <3>2. CASE Frame.line >= 8
      <4>1. Slave \cap isr = {Frame.line}
        BY <2>4, <2>5, <3>2 DEF Slave, CASCADE
      <4>2. Ended(Slave) = {Frame.line}
        BY <2>5, <4>1, EndedOne
      <4> QED BY <2>4, <2>5, <3>1, <3>2, <4>2 DEF CASCADE
    <3>3. CASE ~ (Frame.line >= 8)
      BY <2>4, <3>1, <3>3
    <3> QED BY <3>2, <3>3
  <2>7. Service'
    BY <2>3, <2>4, <2>6 DEF Service, InStub, Idle, Frame
  <2> QED BY <2>2, <2>7 DEF DInv
<1>2. CASE EoiMaster
  <2>1. InStub("eoi1") /\ Advance("call") /\ UNCHANGED <<imr, base, iflag, idtVars>>
    BY <1>2 DEF EoiMaster
  <2>2. Flag' /\ Mapped' /\ Tty' /\ Taken'
    BY <2>1, StubKeeps
  <2>3. Frame'.at = "call" /\ Frame.at = "eoi1"
    BY <2>1, AdvanceFrame DEF DInv
  <2>4. Frame.line \in Lines /\ isr = {IF Frame.line >= 8 THEN CASCADE ELSE Frame.line}
    BY <2>1, <2>3 DEF DInv, Service, InStub, Frame
  <2>5. Frame.line \in 0 .. 15
    BY <2>4, LinesAssumption
  <2>6. isr' = {}
    <3> DEFINE n == IF Frame.line >= 8 THEN CASCADE ELSE Frame.line
    <3>1. n \in 0 .. 7
      BY <2>5 DEF CASCADE
    <3> HIDE DEF n
    <3>2. isr = {n}
      BY <2>4 DEF n
    <3>3. Ended(Master) = {n}
      BY <3>1, <3>2, EndedOne DEF Master
    <3> QED BY <1>2, <3>2, <3>3 DEF EoiMaster
  <2>7. Service'
    BY <2>3, <2>6 DEF Service, InStub, Frame
  <2> QED BY <2>2, <2>7 DEF DInv
<1> QED BY <1>1, <1>2

LEMMA CallInv == DInv /\ Call /\ UNCHANGED <<pc, ttyVars>> => DInv'
<1> SUFFICES ASSUME DInv, Call, UNCHANGED <<pc, ttyVars>> PROVE DInv'
  OBVIOUS
<1>1. InStub("call") /\ Advance("iret") /\ UNCHANGED <<imr, base, iflag, idtVars>>
  BY DEF Call, picVars
<1>2. Flag' /\ Mapped' /\ Tty' /\ Taken'
  BY <1>1, StubKeeps
<1>3. Frame'.at = "iret" /\ Frame.at = "call"
  BY <1>1, AdvanceFrame DEF DInv
<1>4. Service'
  BY <1>3 DEF DInv, Service, InStub, Frame, Call, picVars
<1> QED BY <1>2, <1>4 DEF DInv

LEMMA IretInv == DInv /\ Iret /\ UNCHANGED <<pc, ttyVars>> => DInv'
<1> SUFFICES ASSUME DInv, Iret, UNCHANGED <<pc, ttyVars>> PROVE DInv'
  OBVIOUS
<1>1. stack # <<>> /\ stack = <<Frame>> /\ Frame.at = "iret"
  BY DEF Iret, InStub, DInv, Flag, Idle, Frame
<1>2. stack' = <<>> /\ iflag' = 1
  BY <1>1, OneFrame DEF Iret
<1>3. UNCHANGED <<imr, isr, base, gates, owner, ready, data, current_tty, init, new, pc>>
  BY DEF Iret, picVars, idtVars, ttyVars
<1>4. isr = {} /\ ~ Boot /\ ~ Boot'
  BY <1>1, <1>2 DEF DInv, Service, InStub, Frame, Boot
<1> QED BY <1>2, <1>3, <1>4 DEF DInv, Flag, Idle, Mapped, Service, InStub, Tty, LiveTty, Taken

LEMMA FaultInv == DInv /\ Exception => DInv'
<1> SUFFICES ASSUME DInv, Exception PROVE DInv'
  OBVIOUS
<1>1. PICK v \in {0, 3, 13, 14} : Fault(v)
  BY DEF Exception
<1>2. stack = <<>> /\ iflag = 1 /\ iflag' = 0 /\ ~ Boot
  BY <1>1 DEF Fault, GateFlag, Boot
<1>3. PICK a \in {"hung", "iret"} : stack' = <<[line |-> -1, vector |-> v, at |-> a]>>
  BY <1>1 DEF Fault
<1>4. /\ Frame' = [line |-> -1, vector |-> v, at |-> a] /\ Frame' \in Frames
      /\ stack' = <<Frame'>> /\ stack' # <<>>
  BY <1>3, OneFrame DEF Frame, Frames
<1>5. UNCHANGED <<imr, isr, base, gates, owner, ready, data, current_tty, init, new, pc>>
  BY <1>1 DEF Exception, Fault, picVars, idtVars, ttyVars
<1>6. isr = {} /\ ~ Boot'
  BY <1>2, <1>4 DEF DInv, Service, InStub, Boot
<1>7. Flag' /\ Mapped'
  BY <1>2, <1>4, <1>5 DEF DInv, Flag, Idle, Mapped
<1>8. Service'
  BY <1>4, <1>5, <1>6 DEF Service, InStub, Frame
<1>9. Tty' /\ Taken'
  BY <1>2, <1>4, <1>5, <1>6 DEF DInv, Tty, LiveTty, Taken
<1> QED BY <1>7, <1>8, <1>9 DEF DInv

(* What is left to show of a step of the thread.                           *)
LEMMA ThreadKeeps ==
  ASSUME DInv, stack = <<>>, stack' = <<>>, iflag' \in {0, 1}, isr' = isr, Tty',
         Mapped'
  PROVE  DInv'
<1>1. Flag' /\ Taken'
  BY DEF Flag, Idle, Taken
<1>2. Service'
  BY DEF DInv, Service, InStub
<1> QED BY <1>1, <1>2 DEF DInv

LEMMA BootInv ==
  DInv /\ (IntInitStep \/ pit_init \/ int_enable) => DInv'
<1> SUFFICES ASSUME DInv, IntInitStep \/ pit_init \/ int_enable PROVE DInv'
  OBVIOUS
<1>1. stack = <<>> /\ stack' = <<>> /\ iflag' \in {0, 1} /\ isr' = isr
  BY DEF IntInitStep, pit_init, int_enable, Goto, int_init, cpuVars, picVars, DInv, Flag
<1>2. Mapped'
  BY DEF IntInitStep, pit_init, int_enable, Goto, int_init, picVars, idtVars, DInv, Mapped
<1>3. Boot
  BY <1>1 DEF IntInitStep, pit_init, int_enable, Goto, DInv, Tty, LiveTty
<1>4. BootTty
  BY <1>3 DEF DInv, Tty
<1>5. Tty'
  <2>1. CASE IntInitStep
    BY <1>3, <1>4, <2>1 DEF IntInitStep, int_init, Goto, cpuVars, ttyVars, DInv, Tty, Boot, BootTty
  <2>2. CASE pit_init
    BY <1>3, <1>4, <2>2 DEF pit_init, Goto, cpuVars, ttyVars, DInv, Tty, Boot, BootTty
  <2>3. CASE int_enable
    <3>1. ~ Boot'
      BY <2>3 DEF int_enable, Boot
    <3> QED BY <1>4, <2>3, <3>1 DEF int_enable, Goto, picVars, ttyVars, DInv, Tty, BootTty, LiveTty
  <2> QED BY <2>1, <2>2, <2>3
<1> QED BY <1>1, <1>2, <1>5, ThreadKeeps

(* ttydev_open(): after boot it runs with the keyboard masked, or finds    *)
(* the terminal open.                                                      *)
LEMMA OpenInv ==
  ASSUME DInv,
         OpenBusy \/ tty_init \/ Enable \/ Kmalloc \/ Create \/ Bufptr \/ Opened
  PROVE  DInv'
<1>1. stack = <<>> /\ UNCHANGED <<stack, iflag>> /\ isr' = isr /\ iflag \in {0, 1}
      /\ Boot' = Boot
  BY DEF OpenBusy, tty_init, Enable, Kmalloc, Create, Bufptr, Opened, Goto, irq_enable,
         cpuVars, picVars, DInv, Flag, Boot
<1>2. Mapped'
  BY DEF OpenBusy, tty_init, Enable, Kmalloc, Create, Bufptr, Opened, Goto, irq_enable,
         int_hook_handler, picVars, idtVars, DInv, Mapped
<1>3. ready' \subseteq Blocks /\ owner' \in [Blocks -> {"free", "tty", "other"}]
  <2>1. ready \subseteq Blocks /\ owner \in [Blocks -> {"free", "tty", "other"}]
    BY DEF DInv, Tty
  <2>2. CASE Bufptr
    <3>1. ready' = ready \cup {new} /\ owner' = owner
      BY <2>2 DEF Bufptr
    <3> QED BY <1>1, <2>1, <2>2, <3>1 DEF DInv, Tty, BootTty, LiveTty, Bufptr, Goto
  <2>3. CASE Kmalloc
    BY <2>1, <2>3 DEF Kmalloc
  <2>4. CASE OpenBusy \/ tty_init \/ Enable \/ Create \/ Opened
    BY <2>1, <2>4 DEF OpenBusy, tty_init, Enable, Create, Opened, ttyVars
  <2> QED BY <2>2, <2>3, <2>4
<1>4. CASE Boot
  <2>1. BootTty /\ Booting
    BY <1>4 DEF DInv, Tty, Boot, Booting
  <2>2. BootTty'
    <3>1. CASE OpenBusy
      BY <2>1, <3>1 DEF OpenBusy, Goto, BootTty
    <3>2. CASE tty_init
      BY <2>1, <3>2 DEF tty_init, Goto, BootTty
    <3>3. CASE Enable
      BY <2>1, <3>3 DEF Enable, Goto, BootTty, ttyVars
    <3>4. CASE Kmalloc
      BY <2>1, <3>4 DEF Kmalloc, Goto, BootTty, DInv, Tty
    <3>5. CASE Create
      BY <2>1, <3>5 DEF Create, Goto, BootTty
    <3>6. CASE Bufptr
      BY <2>1, <3>6 DEF Bufptr, Goto, BootTty
    <3>7. CASE Opened
      BY <2>1, <3>7 DEF Opened, Goto, BootTty
    <3> QED BY <3>1, <3>2, <3>3, <3>4, <3>5, <3>6, <3>7
  <2> QED BY <1>1, <1>2, <1>3, <1>4, <2>2, ThreadKeeps DEF Tty
<1>5. CASE ~ Boot
  <2>1. LiveTty /\ ~ Booting /\ ready \subseteq Blocks
    BY <1>1, <1>5 DEF DInv, Tty, Boot, Booting
  <2>2. LiveTty'
    <3>1. CASE OpenBusy
      BY <2>1, <3>1 DEF OpenBusy, Goto, LiveTty, picVars, ttyVars
    <3>2. CASE tty_init
      BY <2>1, <3>2, BlocksAssumption DEF tty_init, Goto, LiveTty, picVars
    <3>3. CASE Enable
      BY <2>1, <3>3 DEF Enable, Goto, LiveTty
    <3>4. CASE Kmalloc
      BY <2>1, <3>4 DEF Kmalloc, Goto, LiveTty, picVars
    <3>5. CASE Create
      BY <2>1, <3>5 DEF Create, Goto, LiveTty, picVars
    <3>6. CASE Bufptr
      BY <2>1, <3>6 DEF Bufptr, Goto, LiveTty, picVars
    <3>7. CASE Opened
      BY <2>1, <3>7 DEF Opened, Goto, LiveTty, picVars
    <3> QED BY <3>1, <3>2, <3>3, <3>4, <3>5, <3>6, <3>7
  <2> QED BY <1>1, <1>2, <1>3, <1>5, <2>2, ThreadKeeps DEF Tty
<1> QED BY <1>4, <1>5

(* The calls after boot: closing frees the structure and masks the         *)
(* keyboard before anybody else can obtain its memory.                     *)
LEMMA LiveInv ==
  ASSUME DInv,
         \/ tty_write \/ Reopen \/ OtherBlock
         \/ Close \/ CloseClosed \/ CloseNull \/ CloseMask
  PROVE  DInv'
<1>1. stack = <<>> /\ UNCHANGED <<stack, iflag>> /\ isr' = isr /\ iflag \in {0, 1}
  BY DEF tty_write, Reopen, Close, CloseClosed, CloseNull, CloseMask, OtherBlock,
         Goto, irq_disable, cpuVars, picVars, DInv, Flag
<1>2. Mapped'
  BY DEF tty_write, Reopen, Close, CloseClosed, CloseNull, CloseMask, OtherBlock,
         Goto, irq_disable, picVars, idtVars, DInv, Mapped, Tty, BootTty, LiveTty
<1>3. ~ Boot /\ ~ Boot'
  BY <1>1 DEF tty_write, Reopen, Close, CloseClosed, CloseNull, CloseMask, OtherBlock,
              Goto, Boot, DInv, Tty, BootTty
<1>4. /\ LiveTty /\ ready \subseteq Blocks
      /\ owner \in [Blocks -> {"free", "tty", "other"}]
  BY <1>3 DEF DInv, Tty
<1>5. Tty'
  <2>1. CASE Reopen
    BY <1>3, <1>4, <2>1 DEF Reopen, Goto, Tty, LiveTty, picVars, ttyVars
  <2>2. CASE Close
    <3>1. owner' \in [Blocks -> {"free", "tty", "other"}]
      BY <1>4, <2>2 DEF Close
    <3> QED BY <1>3, <1>4, <2>2, <3>1 DEF Close, Goto, Tty, LiveTty, picVars
  <2>3. CASE CloseNull
    BY <1>3, <1>4, <2>3 DEF CloseNull, Goto, Tty, LiveTty, picVars
  <2>4. CASE CloseMask
    BY <1>3, <1>4, <2>4 DEF CloseMask, Goto, Tty, LiveTty, irq_disable, ttyVars
  <2>5. CASE OtherBlock
    <3>1. PICK b \in Blocks :
            /\ owner[b] # "tty" /\ ready' = ready \ {b}
            /\ owner' = [owner EXCEPT ![b] = IF owner[b] = "free" THEN "other" ELSE "free"]
      BY <2>5 DEF OtherBlock
    <3>2. ready' \subseteq Blocks /\ owner' \in [Blocks -> {"free", "tty", "other"}]
      BY <1>4, <3>1
    <3>3. LiveTty'
      BY <1>4, <2>5, <3>1 DEF OtherBlock, Goto, LiveTty, picVars
    <3> QED BY <1>3, <3>2, <3>3 DEF Tty
  <2>6. CASE tty_write
    BY <1>3, <1>4, <2>6 DEF tty_write, Goto, Tty, LiveTty, picVars
  <2>7. CASE CloseClosed
    BY <1>3, <1>4, <2>7, BlocksAssumption
    DEF CloseClosed, Goto, Tty, LiveTty, picVars, ttyVars
  <2> QED BY <2>1, <2>2, <2>3, <2>4, <2>5, <2>6, <2>7
<1> QED BY <1>1, <1>2, <1>5, ThreadKeeps

LEMMA StepInv == DInv /\ [Next]_allVars => DInv'
<1> SUFFICES ASSUME DInv, [Next]_allVars PROVE DInv'
  OBVIOUS
<1>1. CASE Thread
  BY <1>1, BootInv, OpenInv, LiveInv DEF Thread
<1>2. CASE Handling
  BY <1>2, EoiInv, CallInv, IretInv DEF Handling, Dispatch
<1>3. CASE Exception \/ \E n \in Lines : Device(n) \/ Interrupt(n)
  BY <1>3, FaultInv, RaiseInv, AcceptInv
<1>4. CASE UNCHANGED allVars
  BY <1>4 DEF allVars, picVars, cpuVars, idtVars, ttyVars, DInv, Flag, Idle, Frame, Mapped,
              Service, InStub, Tty, Boot, BootTty, LiveTty, Taken, Usable
<1> QED BY <1>1, <1>2, <1>3, <1>4 DEF Next

LEMMA Invariance == Spec => []DInv
<1>1. TtyDeviceInit => DInv
  BY InitInv
<1>2. DInv /\ [Next]_allVars => DInv'
  BY StepInv
<1> QED BY <1>1, <1>2, PTL DEF Spec

(***************************************************************************)
(* The theorems                                                            *)
(***************************************************************************)

(* Although irq_handler() ends the interrupt before it calls the handler,  *)
(* no handler is ever interrupted, for any lines and requests: what lets   *)
(* the other modules take kbd_irq() and pit_irq() for one step.            *)
THEOREM DispatchOneHandler == Spec => []OneHandler
<1>1. DInv => OneHandler
  <2> SUFFICES ASSUME DInv PROVE OneHandler
    OBVIOUS
  <2>1. CASE stack = <<>>
    BY <2>1 DEF OneHandler
  <2>2. CASE stack = <<Frame>>
    <3>1. Len(<<Frame>>) = 1
      BY OneFrame
    <3>2. Len(stack) = 1
      BY <2>2, <3>1
    <3> QED BY <3>2 DEF OneHandler
  <2> QED BY <2>1, <2>2 DEF DInv, Flag, Idle
<1> QED BY <1>1, Invariance, PTL

(* pic_send_eoi() releases the line, and the cascade of a slave's line, of *)
(* every interrupt that is taken, with or without a handler hooked.        *)
THEOREM DispatchNothingHeldBack == Spec => []NothingHeldBack
<1>1. DInv => NothingHeldBack
  BY DEF DInv, Service, NothingHeldBack
<1> QED BY <1>1, Invariance, PTL

(* However often the terminal is opened and closed, kbd_irq() only ever    *)
(* writes to a structure that tty_create() set up and nobody else holds.   *)
THEOREM TtyDeviceKbdHasTty == Spec => []KbdHasTty
<1>1. DInv => KbdHasTty
  BY DEF DInv, Taken, Usable, KbdHasTty, Serving, InStub, Frame
<1> QED BY <1>1, Invariance, PTL

=============================================================================
