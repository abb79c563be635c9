-------------------------------- MODULE Acpi --------------------------------
(***************************************************************************)
(* ACPI, kernel/acpi.c: acpi_init() checks the firmware's tables, switches *)
(* the machine to ACPI mode and collects what acpi_shutdown() needs;       *)
(* kernel_main() ignores its result and calls acpi_shutdown() after the    *)
(* shell.  While acpi_enable() polls the hardware it waits with            *)
(* pit_delay(), so its thread is the one of module Pit.                    *)
(***************************************************************************)
EXTENDS Pit, Sequences

CONSTANTS
  Retries,   \* 300: how often acpi_enable() polls
  PollTicks, \* 10: the ticks it waits after each poll
  Needle,    \* the bytes "_S5_"
  Header,    \* 36: the length of a table's header
  MaxTable   \* bound: the length of the DSDT

ASSUME RetriesAssumption == Retries \in Nat
ASSUME PollTicksAssumption == PollTicks \in Delays
ASSUME TableAssumption == Header \in Nat /\ MaxTable \in Nat

(* What the firmware provides: whether an FADT is listed, whether the FADT *)
(* names an SMI port and command, and the ports of the PM1 blocks (0:      *)
(* none).                                                                  *)
Firmware == [fadt : BOOLEAN, smi : BOOLEAN, pm1a : {1}, pm1b : {0, 2}]

(* The bytes that are searched for _S5_: as many as the DSDT is long, but  *)
(* from behind its header on, so that the last ones are not the DSDT's.    *)
NAMEOP  == "08"
PACKAGE == "12"
ROOT    == "\\"

(* Neither may be part of the name that is searched for.                   *)
ASSUME NeedleAssumption ==
  /\ Needle \in Seq(STRING) /\ Needle # <<>>
  /\ \A j \in 1 .. Len(Needle) : Needle[j] \notin {NAMEOP, ROOT}

Bytes   == {NAMEOP, PACKAGE, ROOT} \cup {Needle[j] : j \in 1 .. Len(Needle)}
Areas   == UNION {[1 .. n -> Bytes] : n \in Header .. MaxTable}

VARIABLES
  fw,           \* the firmware's tables, read only
  sci,          \* bit 0 of the PM1a control register
  at,           \* the point of acpi_init() or acpi_shutdown() reached
  i,            \* acpi_enable()'s loop counter
  aml,          \* the bytes searched, once they are
  from,         \* where in them acpi_search_s5()'s own aml points
  PM1a_CNT, PM1b_CNT, no_shutdown,   \* acpi.c's variables
  SLP_TYP,      \* where in aml SLP_TYPa and SLP_TYPb were found
  off,          \* the ports that were sent SLP_EN, with what SLP_TYP was
  waited,       \* timer interrupts that passed in finished delays
  short         \* how many of those delays were cut short

tables == <<PM1a_CNT, PM1b_CNT, SLP_TYP, no_shutdown>>
acpiVars == <<fw, sci, at, i, aml, from, tables, off, waited, short>>
allVars == <<vars, acpiVars>>

Goto(here, there) == at = here /\ at' = there

(* checksum_valid() starts from an uninitialised sum, so that either       *)
(* answer is possible for any table; find_fadt() looks for "FACP".         *)
CheckTables ==
  /\ \/ Goto("rsdp", "rsdt") \/ Goto("rsdp", "failed")
     \/ Goto("rsdt", "fadt") \/ Goto("rsdt", "failed")
     \/ fw.fadt /\ Goto("fadt", "enable")
     \/ ~ fw.fadt /\ Goto("fadt", "failed")
  /\ UNCHANGED <<vars, fw, sci, i, aml, from, tables, off, waited, short>>

(* acpi_enable() up to its loop.                                           *)
EnableStart ==
  /\ at = "enable"
  /\ PM1a_CNT' = fw.pm1a /\ PM1b_CNT' = fw.pm1b
  /\ at' = IF sci = 0 /\ fw.smi THEN "poll" ELSE "s5"
  /\ i' = 0
  /\ UNCHANGED <<vars, fw, sci, aml, from, SLP_TYP, no_shutdown, off, waited, short>>

(* The hardware obeys the command on the SMI port, if ever, at any time.   *)
Hardware ==
  /\ at \in {"poll", "delay"}
  /\ sci = 0 /\ sci' = 1
  /\ UNCHANGED <<vars, fw, at, i, aml, from, tables, off, waited, short>>

(* The loop is done or the bit is set, or pit_delay(10) is called.         *)
Poll ==
  /\ at = "poll"
  /\ \/ i = Retries /\ at' = "failed" /\ UNCHANGED vars
     \/ i < Retries /\ sci = 1 /\ at' = "s5" /\ UNCHANGED vars
     \/ i < Retries /\ sci = 0 /\ Enter(PollTicks) /\ at' = "delay"
  /\ UNCHANGED <<fw, sci, i, aml, from, tables, off, waited, short>>

(* A bug for the properties: the caller does not wait for the return.      *)
PolledEarly ==
  /\ at = "delay"
  /\ at' = "poll" /\ i' = i + 1
  /\ waited' = waited + irqs /\ short' = short + cut
  /\ UNCHANGED <<vars, fw, sci, aml, from, tables, off>>

(* pit_delay() is back; i++.                                               *)
Polled ==
  /\ at = "delay" /\ pc = "out"
  /\ at' = "poll" /\ i' = i + 1
  /\ waited' = waited + irqs /\ short' = short + cut
  /\ UNCHANGED <<vars, fw, sci, aml, from, tables, off>>

(* acpi_shutdown_init() up to its search.                                  *)
ShutdownInit ==
  /\ at = "s5"
  /\ aml' \in Areas
  /\ from' = 1
  /\ at' = "search"
  /\ UNCHANGED <<vars, fw, sci, i, tables, off, waited, short>>

(* memmem() from byte `start' on: the first place, or NULL.                *)
NULL == 0

Hits(m, start) ==
  {h \in start .. (Len(m) - Len(Needle) + 1) :
     \A j \in 1 .. Len(Needle) : m[h + j - 1] = Needle[j]}

memmem(m, start) ==
  LET hits == Hits(m, start)
  IN  IF hits = {} THEN NULL ELSE CHOOSE h \in hits : \A g \in hits : h <= g

(* A place counts if a name operator, and perhaps a root sign, comes       *)
(* before it but not before `start', and a package behind.                 *)
Accepted(m, start, s5) ==
  LET pos == s5 - start
  IN  /\ pos # 0 /\ s5 + Len(Needle) <= Len(m)
      /\ \/ m[s5 - 1] = NAMEOP
         \/ pos # 1 /\ m[s5 - 1] = ROOT /\ m[s5 - 2] = NAMEOP
      /\ m[s5 + Len(Needle)] = PACKAGE

(* A bug for the properties: a rejected place ends the search.             *)
SkipNone(m, s5) == Len(m) + 1

(* aml=s5+4;                                                               *)
Skip(m, s5) == s5 + Len(Needle)

(* A bug for the properties: no_shutdown is cleared in either case.        *)
FinishClears(s5) ==
  /\ SLP_TYP' = s5 /\ no_shutdown' = FALSE
  /\ at' = "shell"

(* The rest of acpi_shutdown_init(); no_shutdown=acpi_shutdown_init();     *)
Finish(s5) ==
  /\ SLP_TYP' = s5 /\ no_shutdown' = (s5 = NULL)
  /\ at' = "shell"

(* One turn of acpi_search_s5()'s loop.                                    *)
acpi_search_s5 ==
  LET s5 == memmem(aml, from)
  IN  /\ at = "search"
      /\ \/ (s5 # NULL => Accepted(aml, from, s5)) /\ Finish(s5) /\ UNCHANGED from
         \/ s5 # NULL /\ ~ Accepted(aml, from, s5) /\ from' = Skip(aml, s5)
            /\ UNCHANGED <<at, SLP_TYP, no_shutdown>>
      /\ UNCHANGED <<vars, fw, sci, i, aml, PM1a_CNT, PM1b_CNT, off, waited, short>>

(* kernel_main() goes on to the shell, and shuts down when that returns:   *)
(* pic_disable() silences the timer.                                       *)
Leave ==
  /\ at \in {"failed", "shell"}
  /\ at' = "halting"
  /\ UNCHANGED <<vars, fw, sci, i, aml, from, tables, off, waited, short>>

acpi_shutdown ==
  /\ at = "halting"
  /\ at' = "halted"
  /\ off' = IF no_shutdown THEN off
            ELSE off \cup {<<PM1a_CNT, SLP_TYP>>}
                     \cup (IF PM1b_CNT # 0 THEN {<<PM1b_CNT, SLP_TYP>>} ELSE {})
  /\ UNCHANGED <<vars, fw, sci, i, aml, from, tables, waited, short>>

(* The thread is in pit_delay() ...                                        *)
Waiting == Delay /\ UNCHANGED acpiVars

(* ... and the timer ticks on, until pic_disable().                        *)
Tick ==
  /\ at \notin {"halting", "halted"}
  /\ pit_irq
  /\ UNCHANGED acpiVars

(* kernel_main() calls acpi_init() if the boot loader found an RSDP.       *)
AcpiInit ==
  /\ Init
  /\ fw \in Firmware
  /\ sci \in {0, 1}
  /\ at \in {"rsdp", "shell"} /\ i = 0 /\ aml = <<>> /\ from = 1
  /\ PM1a_CNT = 0 /\ PM1b_CNT = 0 /\ SLP_TYP = 0
  /\ no_shutdown = TRUE
  /\ off = {} /\ waited = 0 /\ short = 0

(* What the kernel's thread does before the shell.                         *)
Thread ==
  \/ CheckTables \/ EnableStart \/ Poll \/ Polled \/ ShutdownInit
  \/ acpi_search_s5

AcpiNext == Thread \/ Hardware \/ Leave \/ acpi_shutdown \/ Waiting \/ Tick

(* The thread runs and the timer ticks; the hardware owes nothing.         *)
AcpiSpec ==
  /\ AcpiInit /\ [][AcpiNext]_allVars
  /\ WF_allVars(Thread)
  /\ WF_allVars(Waiting)
  /\ WF_allVars(Tick)

(***************************************************************************)
(* Properties                                                              *)
(***************************************************************************)

(* acpi_init() always comes to an end: hardware that never sets the bit,   *)
(* and timer interrupts at the worst moment, cannot hold up the boot.      *)
InitReturns == <>(at \in {"failed", "shell"})

(* "Look for pattern 0x08,"_S5_",0x12 or 0x08,"\_S5_",0x12" (acpi.c, line  *)
(* 74): the places where it is.                                            *)
Patterns(m) ==
  {h \in 1 .. Len(m) :
     \E before \in {<<NAMEOP>>, <<NAMEOP, ROOT>>} :
       LET p == before \o Needle \o <<PACKAGE>>
       IN  /\ h > Len(before) /\ h - Len(before) + Len(p) - 1 <= Len(m)
           /\ SubSeq(m, h - Len(before), h - Len(before) + Len(p) - 1) = p}

(* The search, which goes on behind a rejected name and then forgets what  *)
(* was before it, finds the first pattern in the bytes if there is one,    *)
(* and nothing else.  Thus what lies behind the DSDT is only ever used     *)
(* when the DSDT has no _S5_ of its own.                                   *)
FindsFirst ==
  at = "shell" /\ aml # <<>> =>
    IF SLP_TYP = NULL THEN Patterns(aml) = {}
    ELSE SLP_TYP \in Patterns(aml) /\ \A h \in Patterns(aml) : SLP_TYP <= h

(* The machine is only told to power off with a sleep type that was found  *)
(* in its tables, on the ports its FADT gives, and in ACPI mode (or where  *)
(* there is no command to enter it), whatever failed on the way there.     *)
ShutdownPrepared ==
  off # {} =>
    /\ fw.fadt /\ (sci = 1 \/ ~ fw.smi)
    /\ SLP_TYP \in 1 .. Len(aml)
    /\ off = {<<port, SLP_TYP>> : port \in {fw.pm1a, fw.pm1b} \ {0}}

(* acpi_enable() gives the hardware the time it means to: when it gives    *)
(* up, all its delays have lasted PollTicks ticks and one interrupt, but   *)
(* for those that an interrupt in pit_delay() cut short.                   *)
TimeGiven ==
  at = "failed" /\ i > 0 =>
    waited + short * (PollTicks + 1) >= Retries * (PollTicks + 1)

=============================================================================
