---------------------------- MODULE AcpiProofs ------------------------------
(***************************************************************************)
(* Proofs about the timer and about acpi.c, whose polling waits on it: for *)
(* every set of delays, every number of polls, every table and every       *)
(* answer of the hardware.                                                 *)
(***************************************************************************)
EXTENDS Acpi, TLAPS, SequenceTheorems, WellFoundedInduction

(***************************************************************************)
(* pit_delay() and the handler of IRQ0                                     *)
(***************************************************************************)

(* Neither CountExact nor NeverBusy is inductive: both rest on who may hold *)
(* the timer at each point of pit_delay(), and on the interrupt between     *)
(* busy=1 and ticks=_ticks being the only way to lose it there.             *)
Holder ==
  /\ pc = "arm" => irqs = 0 /\ (cut = 1 <=> busy = 0)
  /\ pc = "spin" /\ cut = 1 => busy = 0
  /\ pc = "claim" => irqs = 0 /\ cut = 0

PitInv == TypeOK /\ Holder /\ CountExact /\ NeverBusy

LEMMA PitInit == Init => PitInv
  BY DEF Init, PitInv, TypeOK, Holder, CountExact, NeverBusy, EBUSY

LEMMA PitStep == PitInv /\ [Next]_vars => PitInv'
<1> SUFFICES ASSUME PitInv, [Next]_vars PROVE PitInv'
  OBVIOUS
<1> USE DelaysAssumption DEF PitInv, TypeOK, Holder, CountExact, NeverBusy, EBUSY
<1>1. CASE \E n \in Delays : Enter(n)
  BY <1>1 DEF Enter
<1>2. CASE Claim
  BY <1>2 DEF Claim
<1>3. CASE Arm
  BY <1>3 DEF Arm
<1>4. CASE Return
  BY <1>4 DEF Return
<1>5. CASE pit_irq
  <2>1. CASE busy = 1 /\ ticks > 0
    BY <1>5, <2>1 DEF pit_irq
  <2>2. CASE ~ (busy = 1 /\ ticks > 0)
    BY <1>5, <2>2 DEF pit_irq
  <2> QED BY <2>1, <2>2
<1>6. CASE UNCHANGED vars
  BY <1>6 DEF vars
<1> QED
  BY <1>1, <1>2, <1>3, <1>4, <1>5, <1>6 DEF Next, Delay

(* pit.c's variables keep their types: the countdown never passes zero.    *)
THEOREM PitTypeCorrect == Spec => []TypeOK
<1>1. PitInv => TypeOK
  BY DEF PitInv
<1> QED BY PitInit, PitStep, <1>1, PTL DEF Spec

(* pit_delay() and the handler of IRQ0 never lose count of each other,     *)
(* although neither locks the two variables they share.                    *)
THEOREM PitCountExact == Spec => []CountExact
<1>1. PitInv => CountExact
  BY DEF PitInv
<1> QED BY PitInit, PitStep, <1>1, PTL DEF Spec

(* The timer is free whenever the thread is outside pit_delay(), so        *)
(* pit_delay() never answers -EBUSY to the kernel's one thread.            *)
THEOREM PitNeverBusy == Spec => []NeverBusy
<1>1. PitInv => NeverBusy
  BY DEF PitInv
<1> QED BY PitInit, PitStep, <1>1, PTL DEF Spec

(***************************************************************************)
(* acpi_enable()'s polling                                                 *)
(***************************************************************************)

(* The thread is in pit_delay() only between two polls, with PollTicks.    *)
Delaying ==
  /\ at # "delay" => pc = "out"
  /\ at = "delay" => arg = PollTicks
  /\ at = "delay" /\ pc = "out" => cut = 1 \/ irqs = PollTicks + 1

(* The ticks of all delays so far make up for the polls made.              *)
Full    == PollTicks + 1
Polling ==
  /\ i \in Nat /\ waited \in Nat /\ short \in Nat
  /\ i <= Retries
  /\ at = "delay" => i < Retries
  /\ at \in {"rsdp", "rsdt", "fadt", "enable"} => i = 0
  /\ at = "failed" => i = 0 \/ i = Retries
  /\ waited + short * Full >= i * Full

AInv == PitInv /\ Delaying /\ Polling

(* One more delay, whole or cut short.                                     *)
LEMMA OneMore ==
  ASSUME NEW F \in Nat, NEW n \in Nat, NEW w \in Nat, NEW s \in Nat,
         NEW t \in Nat, NEW k \in {0, 1}, k = 1 \/ t = F, w + s * F >= n * F
  PROVE  (w + t) + (s + k) * F >= (n + 1) * F
<1>1. (n + 1) * F = n * F + F /\ (s + 1) * F = s * F + F /\ (s + 0) * F = s * F
      /\ n * F \in Nat /\ s * F \in Nat
  OBVIOUS
<1>2. CASE k = 1
  BY <1>1, <1>2
<1>3. CASE k = 0
  BY <1>1, <1>3
<1> QED BY <1>2, <1>3

LEMMA FullIsNat == PollTicks \in Nat /\ Full \in Nat
  BY PollTicksAssumption, DelaysAssumption DEF Full

LEMMA AcpiInitInv == AcpiInit => AInv
<1> SUFFICES ASSUME AcpiInit PROVE AInv
  OBVIOUS
<1>1. PitInv
  BY PitInit DEF AcpiInit
<1>2. Delaying
  BY DEF AcpiInit, Init, Delaying
<1>3. 0 * Full = 0
  BY FullIsNat
<1>4. Polling
  BY <1>3, RetriesAssumption DEF AcpiInit, Polling
<1> QED BY <1>1, <1>2, <1>4 DEF AInv

(* Every step of this specification is one of the timer's, or none.        *)
LEMMA StepOfPit == AcpiNext => [Next]_vars
  BY PollTicksAssumption
     DEF AcpiNext, Thread, CheckTables, EnableStart, Poll, Polled, ShutdownInit,
         acpi_search_s5, Hardware, Leave, acpi_shutdown, Waiting, Tick, Next

LEMMA AcpiStepInv == AInv /\ [AcpiNext]_allVars => AInv'
<1> SUFFICES ASSUME AInv, [AcpiNext]_allVars PROVE AInv'
  OBVIOUS
<1>1. PitInv'
  BY StepOfPit, PitStep DEF AInv, allVars, vars
<1>2. CASE CheckTables \/ EnableStart \/ ShutdownInit \/ acpi_search_s5 \/ Hardware \/ Leave
           \/ acpi_shutdown
  <2>1. pc' = pc /\ arg' = arg /\ irqs' = irqs /\ cut' = cut /\ waited' = waited /\ short' = short
    BY <1>2 DEF CheckTables, EnableStart, ShutdownInit, acpi_search_s5, Hardware, Leave,
                acpi_shutdown, vars
  <2>2. Delaying'
    BY <1>2, <2>1 DEF AInv, Delaying, CheckTables, EnableStart, ShutdownInit, acpi_search_s5, Finish,
                      Hardware, Leave, acpi_shutdown, Goto
  <2>3. i' = i
    BY <1>2 DEF AInv, Polling, CheckTables, EnableStart, ShutdownInit, acpi_search_s5, Hardware,
                Leave, acpi_shutdown, Goto
  <2>4. Polling'
    BY <1>2, <2>1, <2>3 DEF AInv, Polling, CheckTables, EnableStart, ShutdownInit,
                      acpi_search_s5, Finish, Hardware, Leave, acpi_shutdown, Goto
  <2> QED BY <1>1, <2>2, <2>4 DEF AInv
<1>3. CASE Poll
  <2>1. i' = i /\ waited' = waited /\ short' = short /\ at = "poll" /\ pc = "out" /\ busy = 0
    BY <1>3 DEF Poll, AInv, Delaying, PitInv, TypeOK, NeverBusy
  <2>2. Delaying'
    BY <1>3, <2>1 DEF Poll, Enter, Delaying, AInv, vars
  <2>3. Polling'
    BY <1>3, <2>1, RetriesAssumption DEF Poll, Polling, AInv
  <2> QED BY <1>1, <2>2, <2>3 DEF AInv
<1>4. CASE Polled
  <2>1. /\ at = "delay" /\ pc = "out" /\ at' = "poll" /\ i' = i + 1
        /\ waited' = waited + irqs /\ short' = short + cut /\ UNCHANGED vars
    BY <1>4 DEF Polled
  <2>2. Delaying'
    BY <2>1 DEF Delaying, vars
  <2>3. irqs \in Nat /\ cut \in {0, 1} /\ (cut = 1 \/ irqs = Full)
    BY <2>1 DEF AInv, Delaying, PitInv, TypeOK, Full
  <2>4. i \in Nat /\ waited \in Nat /\ short \in Nat /\ i < Retries
        /\ waited + short * Full >= i * Full
    BY <2>1 DEF AInv, Polling
  <2>5. (waited + irqs) + (short + cut) * Full >= (i + 1) * Full
    BY <2>3, <2>4, OneMore, FullIsNat
  <2>6. Polling'
    BY <2>1, <2>3, <2>4, <2>5, RetriesAssumption DEF Polling, Full
  <2> QED BY <1>1, <2>2, <2>6 DEF AInv
<1>5. CASE Waiting \/ Tick
  <2>1. UNCHANGED <<at, i, waited, short>>
    BY <1>5 DEF Waiting, Tick, acpiVars
  <2>2. Delaying'
    <3>1. CASE Waiting
      BY <2>1, <3>1 DEF Waiting, Delay, Claim, Arm, Return, Delaying, AInv, PitInv, CountExact
    <3>2. CASE Tick
      BY <2>1, <3>2 DEF Tick, pit_irq, Delaying, AInv
    <3> QED BY <1>5, <3>1, <3>2
  <2>3. Polling'
    BY <2>1 DEF AInv, Polling
  <2> QED BY <1>1, <2>2, <2>3 DEF AInv
<1>6. CASE UNCHANGED allVars
  BY <1>1, <1>6 DEF allVars, vars, acpiVars, AInv, Delaying, Polling
<1> QED BY <1>2, <1>3, <1>4, <1>5, <1>6 DEF AcpiNext, Thread

(* acpi_enable() gives hardware that does not answer the whole time, for   *)
(* every number of polls and every delay, but for the delays that an       *)
(* interrupt between busy=1 and ticks=_ticks cuts short.                   *)
THEOREM AcpiTimeGiven == AcpiSpec => []TimeGiven
<1>1. AInv => TimeGiven
  BY DEF AInv, Polling, TimeGiven, Full
<1>2. AcpiInit => AInv
  BY AcpiInitInv
<1>3. AInv /\ [AcpiNext]_allVars => AInv'
  BY AcpiStepInv
<1> QED BY <1>1, <1>2, <1>3, PTL DEF AcpiSpec

(* In acpi_init(), too, the delay and the timer's handler keep count: the  *)
(* polling is a client of pit.c as that module assumes one.                *)
THEOREM AcpiCountExact == AcpiSpec => []CountExact
<1>1. AInv => CountExact
  BY DEF AInv, PitInv
<1>2. AcpiInit => AInv
  BY AcpiInitInv
<1>3. AInv /\ [AcpiNext]_allVars => AInv'
  BY AcpiStepInv
<1> QED BY <1>1, <1>2, <1>3, PTL DEF AcpiSpec

(***************************************************************************)
(* The search for _S5_                                                     *)
(***************************************************************************)

LEMMA NeedleType == Needle \in Seq(Bytes) /\ Len(Needle) \in Nat /\ Len(Needle) >= 1
<1>1. Needle \in Seq(STRING) /\ Needle # <<>>
  BY NeedleAssumption
<1>2. Len(Needle) \in Nat /\ Len(Needle) # 0 /\ Needle = [j \in 1 .. Len(Needle) |-> Needle[j]]
  BY <1>1
<1>3. \A j \in 1 .. Len(Needle) : Needle[j] \in Bytes
  BY DEF Bytes
<1>4. Needle \in [1 .. Len(Needle) -> Bytes]
  BY <1>2, <1>3
<1> QED BY <1>2, <1>4

LEMMA ByteType == NAMEOP \in Bytes /\ PACKAGE \in Bytes /\ ROOT \in Bytes
  BY DEF Bytes

LEMMA AreaIsSeq ==
  ASSUME NEW m \in Areas
  PROVE  m \in Seq(Bytes)
<1>1. PICK n \in Header .. MaxTable : m \in [1 .. n -> Bytes]
  BY DEF Areas
<1>2. n \in Nat
  BY TableAssumption
<1> QED BY <1>1, <1>2

(* A set of naturals has a least element.                                  *)
LEMMA LeastOf ==
  ASSUME NEW T, T \subseteq Nat, T # {}
  PROVE  \E x \in T : \A y \in T : x <= y
<1>1. PICK x \in T : \A y \in T : ~ (<<y, x>> \in OpToRel(<, Nat))
  BY WFMin, NatLessThanWellFounded
<1>2. ASSUME NEW y \in T PROVE x <= y
  <2>1. x \in Nat /\ y \in Nat
    OBVIOUS
  <2>2. ~ (y < x)
    BY <1>1, <2>1 DEF OpToRel
  <2> QED BY <2>1, <2>2
<1> QED BY <1>2

(* memmem() returns the first place there is.                              *)
LEMMA MemmemFirst ==
  ASSUME NEW m \in Seq(Bytes), NEW start \in Nat, start >= 1
  PROVE  LET s5 == memmem(m, start)
         IN  \/ s5 = NULL /\ Hits(m, start) = {}
             \/ s5 # NULL /\ s5 \in Hits(m, start) /\ \A g \in Hits(m, start) : s5 <= g
<1> DEFINE hits == Hits(m, start)
<1>0. Len(m) \in Nat /\ Len(Needle) \in Nat
  BY NeedleType
<1>1. hits \subseteq Nat /\ 0 \notin hits
  BY <1>0 DEF Hits
<1>2. CASE hits = {}
  BY <1>2 DEF memmem
<1>3. CASE hits # {}
  <2>1. \E h \in hits : \A g \in hits : h <= g
    BY <1>1, <1>3, LeastOf
  <2>2. memmem(m, start) = CHOOSE h \in hits : \A g \in hits : h <= g
    BY <1>3 DEF memmem
  <2>3. memmem(m, start) \in hits /\ \A g \in hits : memmem(m, start) <= g
    BY <2>1, <2>2
  <2> QED BY <1>1, <2>3 DEF NULL
<1> QED BY <1>2, <1>3

(* A place of the pattern, byte by byte.                                   *)
IsPattern(m, h) ==
  /\ h + Len(Needle) <= Len(m)
  /\ \A j \in 1 .. Len(Needle) : m[h + j - 1] = Needle[j]
  /\ m[h + Len(Needle)] = PACKAGE
  /\ \/ h > 1 /\ m[h - 1] = NAMEOP
     \/ h > 2 /\ m[h - 1] = ROOT /\ m[h - 2] = NAMEOP

LEMMA SubSeqIs ==
  ASSUME NEW m \in Seq(Bytes), NEW p \in Seq(Bytes), NEW a \in Nat, a >= 1, Len(p) >= 1,
         a + Len(p) - 1 <= Len(m)
  PROVE  SubSeq(m, a, a + Len(p) - 1) = p <=> \A j \in 1 .. Len(p) : m[a + j - 1] = p[j]
<1> DEFINE q == SubSeq(m, a, a + Len(p) - 1)
<1>1. Len(p) \in Nat /\ Len(m) \in Nat
  OBVIOUS
<1> DEFINE b == a + Len(p) - 1
<1>2. q \in Seq(Bytes) /\ Len(q) = Len(p) /\ \A j \in 1 .. Len(p) : q[j] = m[a + j - 1]
  <2>1. a \in Int /\ b \in Int /\ \A k \in a .. b : m[k] \in Bytes
    BY <1>1
  <2>2. q \in Seq(Bytes) /\ Len(q) = (IF a <= b THEN b - a + 1 ELSE 0)
        /\ \A k \in 1 .. b - a + 1 : q[k] = m[a + k - 1]
    BY <2>1, SubSeqProperties
  <2> QED BY <1>1, <2>2
<1>3. ASSUME q = p PROVE \A j \in 1 .. Len(p) : m[a + j - 1] = p[j]
  BY <1>2, <1>3
<1>4. ASSUME \A j \in 1 .. Len(p) : m[a + j - 1] = p[j] PROVE q = p
  <2>1. \A j \in 1 .. Len(q) : q[j] = p[j]
    BY <1>2, <1>4
  <2> HIDE DEF q
  <2> QED BY <1>1, <1>2, <2>1, SeqEqual
<1> QED BY <1>3, <1>4

LEMMA PatternBytes ==
  ASSUME NEW m \in Seq(Bytes), NEW h \in 1 .. Len(m)
  PROVE  h \in Patterns(m) <=> IsPattern(m, h)
<1> DEFINE L == Len(Needle)
           p1 == <<NAMEOP>> \o Needle \o <<PACKAGE>>
           p2 == <<NAMEOP, ROOT>> \o Needle \o <<PACKAGE>>
<1>0. Needle \in Seq(Bytes) /\ L \in Nat /\ L >= 1 /\ Len(m) \in Nat
  BY NeedleType
<1>1. /\ p1 \in Seq(Bytes) /\ Len(p1) = L + 2
      /\ p1[1] = NAMEOP /\ p1[L + 2] = PACKAGE
      /\ \A j \in 1 .. L : p1[j + 1] = Needle[j]
  <2> DEFINE q == <<NAMEOP>> \o Needle
  <2>1. <<NAMEOP>> \in Seq(Bytes) /\ <<PACKAGE>> \in Seq(Bytes)
    BY ByteType
  <2>2. q \in Seq(Bytes) /\ Len(q) = L + 1 /\ q[1] = NAMEOP
        /\ \A j \in 1 .. L : q[j + 1] = Needle[j]
    BY <1>0, <2>1
  <2> HIDE DEF q
  <2>3. /\ q \o <<PACKAGE>> \in Seq(Bytes) /\ Len(q \o <<PACKAGE>>) = L + 2
        /\ (q \o <<PACKAGE>>)[L + 2] = PACKAGE
        /\ \A j \in 1 .. L + 1 : (q \o <<PACKAGE>>)[j] = q[j]
    BY <1>0, <2>1, <2>2
  <2>4. p1 = q \o <<PACKAGE>>
    BY DEF q
  <2> HIDE DEF p1
  <2>5. p1[1] = q[1] /\ \A j \in 1 .. L : p1[j + 1] = q[j + 1]
    BY <1>0, <2>3, <2>4
  <2> QED BY <1>0, <2>2, <2>3, <2>4, <2>5
<1>2. /\ p2 \in Seq(Bytes) /\ Len(p2) = L + 3
      /\ p2[1] = NAMEOP /\ p2[2] = ROOT /\ p2[L + 3] = PACKAGE
      /\ \A j \in 1 .. L : p2[j + 2] = Needle[j]
  <2> DEFINE q == <<NAMEOP, ROOT>> \o Needle
  <2>1. <<NAMEOP, ROOT>> \in Seq(Bytes) /\ <<PACKAGE>> \in Seq(Bytes)
    BY ByteType
  <2>2. q \in Seq(Bytes) /\ Len(q) = L + 2 /\ q[1] = NAMEOP /\ q[2] = ROOT
        /\ \A j \in 1 .. L : q[j + 2] = Needle[j]
    BY <1>0, <2>1
  <2> HIDE DEF q
  <2>3. /\ q \o <<PACKAGE>> \in Seq(Bytes) /\ Len(q \o <<PACKAGE>>) = L + 3
        /\ (q \o <<PACKAGE>>)[L + 3] = PACKAGE
        /\ \A j \in 1 .. L + 2 : (q \o <<PACKAGE>>)[j] = q[j]
    BY <1>0, <2>1, <2>2
  <2>4. p2 = q \o <<PACKAGE>>
    BY DEF q
  <2> HIDE DEF p2
  <2>5. p2[1] = q[1] /\ p2[2] = q[2] /\ \A j \in 1 .. L : p2[j + 2] = q[j + 2]
    BY <1>0, <2>3, <2>4
  <2> QED BY <1>0, <2>2, <2>3, <2>4, <2>5
<1>3. Len(<<NAMEOP>>) = 1 /\ Len(<<NAMEOP, ROOT>>) = 2
  OBVIOUS
<1> HIDE DEF p1, p2
<1>4. h \in Patterns(m) <=>
        \/ h > 1 /\ h - 1 + Len(p1) - 1 <= Len(m) /\ SubSeq(m, h - 1, h - 1 + Len(p1) - 1) = p1
        \/ h > 2 /\ h - 2 + Len(p2) - 1 <= Len(m) /\ SubSeq(m, h - 2, h - 2 + Len(p2) - 1) = p2
  BY <1>3 DEF Patterns, p1, p2
<1>5. ASSUME h > 1, h + L <= Len(m)
      PROVE  SubSeq(m, h - 1, h - 1 + Len(p1) - 1) = p1 <=>
               m[h - 1] = NAMEOP /\ m[h + L] = PACKAGE
               /\ \A j \in 1 .. L : m[h + j - 1] = Needle[j]
  <2> DEFINE a == h - 1
  <2>0. a \in Nat /\ a >= 1 /\ Len(p1) >= 1 /\ a + Len(p1) - 1 <= Len(m)
    BY <1>0, <1>1, <1>5
  <2> HIDE DEF a
  <2>1a. SubSeq(m, a, a + Len(p1) - 1) = p1
           <=> \A j \in 1 .. Len(p1) : m[a + j - 1] = p1[j]
    BY <1>1, <2>0, SubSeqIs
  <2>1. SubSeq(m, h - 1, h - 1 + Len(p1) - 1) = p1
          <=> \A j \in 1 .. Len(p1) : m[h - 1 + j - 1] = p1[j]
    BY <2>1a DEF a
  <2>2. ASSUME \A j \in 1 .. L + 2 : m[h - 1 + j - 1] = p1[j]
        PROVE  m[h - 1] = NAMEOP /\ m[h + L] = PACKAGE
               /\ \A j \in 1 .. L : m[h + j - 1] = Needle[j]
    <3>1. m[h - 1 + 1 - 1] = p1[1] /\ m[h - 1 + (L + 2) - 1] = p1[L + 2]
      BY <1>0, <2>2
    <3>2. \A j \in 1 .. L : m[h - 1 + (j + 1) - 1] = p1[j + 1]
      BY <1>0, <2>2
    <3>3. \A j \in 1 .. L : m[h + j - 1] = Needle[j]
      <4> SUFFICES ASSUME NEW j \in 1 .. L PROVE m[h + j - 1] = Needle[j]
        OBVIOUS
      <4>1. m[h - 1 + (j + 1) - 1] = p1[j + 1] /\ p1[j + 1] = Needle[j]
        BY <1>1, <3>2
      <4>2. h - 1 + (j + 1) - 1 = h + j - 1
        BY <1>0
      <4> QED BY <4>1, <4>2
    <3>4. h - 1 + 1 - 1 = h - 1 /\ h - 1 + (L + 2) - 1 = h + L
      BY <1>0
    <3> QED BY <1>1, <3>1, <3>3, <3>4
  <2>3. ASSUME m[h - 1] = NAMEOP, m[h + L] = PACKAGE,
               \A j \in 1 .. L : m[h + j - 1] = Needle[j],
               NEW k \in 1 .. L + 2
        PROVE  m[h - 1 + k - 1] = p1[k]
    <3>1. CASE k = 1
      BY <1>0, <1>1, <2>3, <3>1
    <3>2. CASE k = L + 2
      BY <1>0, <1>1, <2>3, <3>2
    <3>3. CASE k - 1 \in 1 .. L
      <4>1. m[h + (k - 1) - 1] = Needle[k - 1] /\ p1[k - 1 + 1] = Needle[k - 1]
        BY <1>1, <2>3, <3>3
      <4> QED BY <1>0, <4>1
    <3> QED BY <1>0, <3>1, <3>2, <3>3
  <2> QED BY <1>1, <2>1, <2>2, <2>3
<1>6. ASSUME h > 2, h + L <= Len(m)
      PROVE  SubSeq(m, h - 2, h - 2 + Len(p2) - 1) = p2 <=>
               m[h - 2] = NAMEOP /\ m[h - 1] = ROOT /\ m[h + L] = PACKAGE
               /\ \A j \in 1 .. L : m[h + j - 1] = Needle[j]
  <2> DEFINE a == h - 2
  <2>0. a \in Nat /\ a >= 1 /\ Len(p2) >= 1 /\ a + Len(p2) - 1 <= Len(m)
    BY <1>0, <1>2, <1>6
  <2> HIDE DEF a
  <2>1a. SubSeq(m, a, a + Len(p2) - 1) = p2
           <=> \A j \in 1 .. Len(p2) : m[a + j - 1] = p2[j]
    BY <1>2, <2>0, SubSeqIs
  <2>1. SubSeq(m, h - 2, h - 2 + Len(p2) - 1) = p2
          <=> \A j \in 1 .. Len(p2) : m[h - 2 + j - 1] = p2[j]
    BY <2>1a DEF a
  <2>2. ASSUME \A j \in 1 .. L + 3 : m[h - 2 + j - 1] = p2[j]
        PROVE  m[h - 2] = NAMEOP /\ m[h - 1] = ROOT /\ m[h + L] = PACKAGE
               /\ \A j \in 1 .. L : m[h + j - 1] = Needle[j]
    <3>1. m[h - 2 + 1 - 1] = p2[1] /\ m[h - 2 + 2 - 1] = p2[2] /\ m[h - 2 + (L + 3) - 1] = p2[L + 3]
      <4>1. 1 \in 1 .. L + 3 /\ 2 \in 1 .. L + 3 /\ L + 3 \in 1 .. L + 3
        BY <1>0
      <4> QED BY <2>2, <4>1, Zenon
    <3>2. \A j \in 1 .. L : m[h - 2 + (j + 2) - 1] = p2[j + 2]
      BY <1>0, <2>2
    <3>3. \A j \in 1 .. L : m[h + j - 1] = Needle[j]
      <4> SUFFICES ASSUME NEW j \in 1 .. L PROVE m[h + j - 1] = Needle[j]
        OBVIOUS
      <4>1. m[h - 2 + (j + 2) - 1] = p2[j + 2] /\ p2[j + 2] = Needle[j]
        BY <1>2, <3>2
      <4>2. h - 2 + (j + 2) - 1 = h + j - 1
        BY <1>0
      <4> QED BY <4>1, <4>2
    <3>4. h - 2 + 1 - 1 = h - 2 /\ h - 2 + 2 - 1 = h - 1 /\ h - 2 + (L + 3) - 1 = h + L
      BY <1>0
    <3> QED BY <1>2, <3>1, <3>3, <3>4
  <2>3. ASSUME m[h - 2] = NAMEOP, m[h - 1] = ROOT, m[h + L] = PACKAGE,
               \A j \in 1 .. L : m[h + j - 1] = Needle[j],
               NEW k \in 1 .. L + 3
        PROVE  m[h - 2 + k - 1] = p2[k]
    <3>1. CASE k = 1 \/ k = 2
      BY <1>0, <1>2, <2>3, <3>1
    <3>2. CASE k = L + 3
      BY <1>0, <1>2, <2>3, <3>2
    <3>3. CASE k - 2 \in 1 .. L
      <4>1. m[h + (k - 2) - 1] = Needle[k - 2] /\ p2[k - 2 + 2] = Needle[k - 2]
        BY <1>2, <2>3, <3>3
      <4> QED BY <1>0, <4>1
    <3> QED BY <1>0, <3>1, <3>2, <3>3
  <2> QED BY <1>2, <2>1, <2>2, <2>3
<1>7. h - 1 + Len(p1) - 1 = h + L /\ h - 2 + Len(p2) - 1 = h + L
  BY <1>0, <1>1, <1>2
<1> QED BY <1>0, <1>4, <1>5, <1>6, <1>7 DEF IsPattern

(* The byte before where the search goes on is no part of a pattern's      *)
(* beginning: it is none, or the last of a rejected name.                  *)
Behind(m, start) == start = 1 \/ m[start - 1] \notin {NAMEOP, ROOT}

(* From there on, what the code accepts is the pattern, ...                *)
LEMMA AcceptedIsPattern ==
  ASSUME NEW m \in Seq(Bytes), NEW start \in 1 .. Len(m) + 1, Behind(m, start),
         NEW h \in Hits(m, start)
  PROVE  Accepted(m, start, h) <=> IsPattern(m, h)
<1>1. Len(m) \in Nat /\ Len(Needle) \in Nat /\ Len(Needle) >= 1 /\ h \in start .. Len(m)
      /\ \A j \in 1 .. Len(Needle) : m[h + j - 1] = Needle[j]
  BY NeedleType DEF Hits
<1>2. NAMEOP # ROOT
  BY DEF NAMEOP, ROOT
<1>3. CASE h = start
  <2>1. ~ Accepted(m, start, h)
    BY <1>1, <1>3 DEF Accepted
  <2>2. h > 1 => m[h - 1] \notin {NAMEOP, ROOT}
    BY <1>1, <1>3 DEF Behind
  <2> QED BY <1>1, <2>1, <2>2 DEF IsPattern
<1>4. CASE h = start + 1
  <2>1. h > 2 => m[h - 2] \notin {NAMEOP, ROOT}
    <3>1. h - 2 = start - 1
      BY <1>1, <1>4
    <3> QED BY <1>1, <1>4, <3>1 DEF Behind
  <2>2. h > 1 /\ h - start = 1
    BY <1>1, <1>4
  <2> QED BY <1>1, <2>1, <2>2 DEF IsPattern, Accepted
<1>5. CASE h > start + 1
  <2>1. h > 2 /\ h - start # 0 /\ h - start # 1
    BY <1>1, <1>5
  <2> QED BY <1>1, <2>1 DEF IsPattern, Accepted
<1> QED BY <1>1, <1>3, <1>4, <1>5

(* ... and behind a rejected place the search skips no pattern.            *)
LEMMA SkipsNone ==
  ASSUME NEW m \in Seq(Bytes), NEW start \in 1 .. Len(m) + 1, Behind(m, start),
         NEW h \in Hits(m, start), \A g \in Hits(m, start) : h <= g,
         ~ Accepted(m, start, h), \A g \in Patterns(m) : g >= start
  PROVE  /\ Skip(m, h) \in 1 .. Len(m) + 1 /\ Behind(m, Skip(m, h))
         /\ \A g \in Patterns(m) : g >= Skip(m, h)
<1> DEFINE L == Len(Needle)
<1>1. Len(m) \in Nat /\ L \in Nat /\ L >= 1 /\ h \in start .. (Len(m) - L + 1)
      /\ \A j \in 1 .. L : m[h + j - 1] = Needle[j]
  BY NeedleType DEF Hits
<1>2. Skip(m, h) \in 1 .. Len(m) + 1
  BY <1>1 DEF Skip
<1>3. \A j \in 1 .. L : m[h + j - 1] \notin {NAMEOP, ROOT}
  BY <1>1, NeedleAssumption
<1>4. Behind(m, Skip(m, h))
  BY <1>1, <1>3 DEF Behind, Skip
<1>5. ASSUME NEW g \in Patterns(m) PROVE g >= h + L
  <2>1. g \in 1 .. Len(m) /\ g >= start
    BY <1>5 DEF Patterns
  <2>2. IsPattern(m, g)
    BY <1>5, <2>1, PatternBytes
  <2>3. g \in Hits(m, start)
    BY <1>1, <2>1, <2>2 DEF Hits, IsPattern
  <2>4. g >= h /\ g # h
    BY <1>1, <2>1, <2>2, <2>3, AcceptedIsPattern
  <2>5. ASSUME g < h + L PROVE FALSE
    <3>1. g - h \in 1 .. L
      BY <1>1, <2>1, <2>4, <2>5
    <3>2. m[h + (g - h) - 1] \notin {NAMEOP, ROOT}
      BY <1>3, <3>1
    <3>3. h + (g - h) - 1 = g - 1
      BY <1>1, <2>1
    <3> QED BY <2>2, <3>2, <3>3 DEF IsPattern
  <2> QED BY <1>1, <2>1, <2>5
<1> QED BY <1>2, <1>4, <1>5 DEF Skip

(* The search as an invariant: no pattern lies before where it goes on.    *)
Searching ==
  /\ at = "search" =>
       /\ aml \in Seq(Bytes) /\ from \in 1 .. Len(aml) + 1 /\ Behind(aml, from)
       /\ \A h \in Patterns(aml) : h >= from
  /\ at \in {"rsdp", "rsdt", "fadt", "enable", "poll", "delay", "s5"} => aml = <<>>
  /\ FindsFirst

LEMMA SearchTurn ==
  ASSUME Searching, acpi_search_s5
  PROVE  Searching'
<1> DEFINE s5 == memmem(aml, from)
<1>1. /\ aml \in Seq(Bytes) /\ from \in 1 .. Len(aml) + 1 /\ Behind(aml, from)
      /\ \A h \in Patterns(aml) : h >= from
      /\ at = "search" /\ aml' = aml
  BY DEF Searching, acpi_search_s5
<1>2. Len(aml) \in Nat /\ from \in Nat /\ from >= 1
  BY <1>1
<1>3. \/ s5 = NULL /\ Hits(aml, from) = {}
      \/ s5 # NULL /\ s5 \in Hits(aml, from) /\ \A g \in Hits(aml, from) : s5 <= g
  BY <1>1, <1>2, MemmemFirst
<1>4. \A h \in Patterns(aml) : h \in 1 .. Len(aml) /\ h \in Hits(aml, from)
  <2> SUFFICES ASSUME NEW h \in Patterns(aml)
               PROVE  h \in 1 .. Len(aml) /\ h \in Hits(aml, from)
    OBVIOUS
  <2>1. h \in 1 .. Len(aml) /\ h >= from
    BY <1>1 DEF Patterns
  <2>2. IsPattern(aml, h)
    BY <1>1, <2>1, PatternBytes
  <2> QED BY <1>2, <2>1, <2>2, NeedleType DEF Hits, IsPattern
<1> HIDE DEF s5
<1>5. CASE s5 = NULL
  <2>1. SLP_TYP' = NULL /\ at' = "shell"
    BY <1>5 DEF acpi_search_s5, Finish, s5
  <2>2. Patterns(aml) = {}
    BY <1>3, <1>4, <1>5
  <2> QED BY <1>1, <1>2, <2>1, <2>2 DEF Searching, FindsFirst, NULL
<1>6. CASE s5 # NULL /\ Accepted(aml, from, s5)
  <2>1. SLP_TYP' = s5 /\ at' = "shell"
    BY <1>6 DEF acpi_search_s5, Finish, s5
  <2>2. s5 \in 1 .. Len(aml)
    BY <1>2, <1>3, <1>6, NeedleType DEF Hits
  <2>3. s5 \in Patterns(aml)
    BY <1>1, <1>3, <1>6, <2>2, AcceptedIsPattern, PatternBytes
  <2>4. \A h \in Patterns(aml) : s5 <= h
    BY <1>3, <1>4, <1>6
  <2> QED BY <1>1, <1>2, <1>6, <2>1, <2>2, <2>3, <2>4 DEF Searching, FindsFirst
<1>7. CASE s5 # NULL /\ ~ Accepted(aml, from, s5)
  <2>1. at' = at /\ SLP_TYP' = SLP_TYP /\ from' = Skip(aml, s5)
    BY <1>7 DEF acpi_search_s5, Finish, s5
  <2>2. from' \in 1 .. Len(aml) + 1 /\ Behind(aml, from') /\ \A h \in Patterns(aml) : h >= from'
    BY <1>1, <1>3, <1>7, <2>1, SkipsNone
  <2> QED BY <1>1, <2>1, <2>2 DEF Searching, FindsFirst
<1> QED BY <1>5, <1>6, <1>7

LEMMA SearchInit == AcpiInit => Searching
  BY DEF AcpiInit, Searching, FindsFirst

LEMMA SearchStep == Searching /\ [AcpiNext]_allVars => Searching'
<1> SUFFICES ASSUME Searching, [AcpiNext]_allVars PROVE Searching'
  OBVIOUS
<1>1. CASE acpi_search_s5
  BY <1>1, SearchTurn
<1>2. CASE ShutdownInit
  <2>1. aml' \in Areas /\ from' = 1 /\ at' = "search"
    BY <1>2 DEF ShutdownInit
  <2>2. aml' \in Seq(Bytes)
    BY <2>1, AreaIsSeq
  <2>3. Len(aml') \in Nat /\ \A h \in Patterns(aml') : h \in 1 .. Len(aml')
    BY <2>2 DEF Patterns
  <2>4. from' \in 1 .. Len(aml') + 1 /\ \A h \in Patterns(aml') : h >= from'
    BY <2>1, <2>3
  <2>5. Behind(aml', from')
    BY <2>1 DEF Behind
  <2> QED BY <2>1, <2>2, <2>4, <2>5 DEF Searching, FindsFirst
<1>3. CASE CheckTables \/ EnableStart \/ Poll \/ Polled \/ Leave
  <2>1. UNCHANGED <<aml, from, SLP_TYP>> /\ at # "search" /\ at' # "search" /\ at' # "shell"
        /\ (at' \in {"rsdp", "rsdt", "fadt", "enable", "poll", "delay", "s5"} =>
              at \in {"rsdp", "rsdt", "fadt", "enable", "poll", "delay"})
    BY <1>3 DEF CheckTables, EnableStart, Poll, Polled, Leave, Goto, tables
  <2> QED BY <2>1 DEF Searching, FindsFirst
<1>4. CASE Hardware \/ Waiting \/ Tick \/ UNCHANGED allVars
  <2>1. UNCHANGED <<aml, from, SLP_TYP, at>>
    BY <1>4 DEF Hardware, Waiting, Tick, allVars, acpiVars, tables
  <2> QED BY <2>1 DEF Searching, FindsFirst
<1>5. CASE acpi_shutdown
  BY <1>5 DEF acpi_shutdown, Searching, FindsFirst
<1> QED BY <1>1, <1>2, <1>3, <1>4, <1>5 DEF AcpiNext, Thread

(* acpi_search_s5() finds the first place of the pattern that its comment  *)
(* names, or finds none because there is none, for every table and for     *)
(* every name that holds neither a name operator nor a root sign.          *)
THEOREM AcpiFindsFirst == AcpiSpec => []FindsFirst
<1>1. Searching => FindsFirst
  BY DEF Searching
<1> QED BY <1>1, SearchInit, SearchStep, PTL DEF AcpiSpec

(***************************************************************************)
(* acpi_init() ends                                                        *)
(***************************************************************************)

(* How many steps of its own acpi_init() can still make: five for each     *)
(* turn of acpi_enable()'s loop and one for each byte to be searched.      *)
Searches == MaxTable + 2
Turns    == Searches + 1 + 5 * (Retries - i)
Depth    == CASE pc = "claim" -> 1 [] pc = "arm" -> 2 [] pc = "spin" -> 3 [] pc = "out" -> 4
Work ==
  CASE at = "rsdp" -> Turns + 4
    [] at = "rsdt" -> Turns + 3
    [] at = "fadt" -> Turns + 2
    [] at = "enable" -> Turns + 1
    [] at = "poll" -> Turns
    [] at = "delay" -> Turns - Depth
    [] at = "s5" -> Searches
    [] at = "search" -> Searches - from
    [] OTHER -> 0

TableFits == at = "search" => Len(aml) <= MaxTable

WInv == AInv /\ Searching /\ TableFits

LEMMA WorkInit == AcpiInit => WInv
  BY AcpiInitInv, SearchInit DEF AcpiInit, WInv, TableFits

LEMMA WorkStep == WInv /\ [AcpiNext]_allVars => WInv'
<1> SUFFICES ASSUME WInv, [AcpiNext]_allVars PROVE TableFits'
  BY AcpiStepInv, SearchStep DEF WInv
<1>1. CASE ShutdownInit
  <2>1. aml' \in Areas
    BY <1>1 DEF ShutdownInit
  <2>2. PICK n \in Header .. MaxTable : aml' \in [1 .. n -> Bytes]
    BY <2>1 DEF Areas
  <2>3. n \in Nat /\ n <= MaxTable
    BY <2>2, TableAssumption
  <2>4. Len(aml') = n
    BY <2>2, <2>3
  <2> QED BY <2>3, <2>4 DEF TableFits
<1>2. CASE CheckTables \/ EnableStart \/ Poll \/ Polled \/ Leave \/ acpi_shutdown
  <2>1. at' # "search"
    BY <1>2 DEF CheckTables, EnableStart, Poll, Polled, Leave, acpi_shutdown, Goto
  <2> QED BY <2>1 DEF TableFits
<1>3. CASE acpi_search_s5 \/ Hardware \/ Waiting \/ Tick \/ UNCHANGED allVars
  <2>1. aml' = aml /\ (at' = "search" => at = "search")
    BY <1>3 DEF acpi_search_s5, Finish, Hardware, Waiting, Tick, allVars, acpiVars
  <2> QED BY <2>1 DEF WInv, TableFits
<1> QED BY <1>1, <1>2, <1>3 DEF AcpiNext, Thread

WorkFacts ==
  /\ Turns \in Nat /\ Searches \in Nat /\ Depth \in 1 .. 4
  /\ Turns > Searches
  /\ at = "delay" => Turns >= Searches + 6
  /\ at = "search" => from \in Nat /\ Searches - from \in Nat /\ from < Searches
  /\ Work \in Nat

LEMMA WorkIsNat == WInv => WorkFacts
<1> SUFFICES ASSUME WInv PROVE WorkFacts
  OBVIOUS
<1>1. /\ Retries \in Nat /\ MaxTable \in Nat /\ i \in Nat /\ i <= Retries
      /\ at = "delay" => i < Retries
  BY RetriesAssumption, TableAssumption DEF WInv, AInv, Polling
<1>2. Searches \in Nat /\ Turns \in Nat /\ Turns > Searches
      /\ (at = "delay" => Turns >= Searches + 6)
  BY <1>1 DEF Searches, Turns
<1>3. Depth \in 1 .. 4
  BY DEF WInv, AInv, PitInv, TypeOK, Depth
<1>4. ASSUME at = "search"
      PROVE  from \in Nat /\ Searches - from \in Nat /\ from < Searches
  <2>1. aml \in Seq(Bytes) /\ from \in 1 .. Len(aml) + 1 /\ Len(aml) <= MaxTable
    BY <1>4 DEF WInv, Searching, TableFits
  <2>2. Len(aml) \in Nat
    BY <2>1
  <2> QED BY <1>1, <2>1, <2>2 DEF Searches
<1>5. Work \in Nat
  BY <1>2, <1>3, <1>4 DEF Work
<1> QED BY <1>2, <1>3, <1>4, <1>5 DEF WorkFacts

LEMMA WorkStaysNat == WInv' => WorkFacts'
  BY WorkIsNat, PTL

LEMMA WorkShrinks ==
  ASSUME WInv, Thread \/ Waiting
  PROVE  Work' < Work
<1>0. [AcpiNext]_allVars
  BY DEF AcpiNext
<1>1. WInv'
  BY <1>0, WorkStep
<1>2. /\ Turns \in Nat /\ Searches \in Nat /\ Turns > Searches /\ Depth \in 1 .. 4
      /\ at = "delay" => Turns >= Searches + 6
      /\ Searches' = Searches
  BY WorkIsNat DEF WorkFacts, Searches
<1>3. /\ Turns' \in Nat /\ Depth' \in 1 .. 4
  BY <1>1, WorkStaysNat DEF WorkFacts
<1>4. CASE CheckTables
  <2>1. Turns' = Turns
    BY <1>4 DEF CheckTables, Turns, Searches
  <2> QED BY <1>2, <1>4, <2>1 DEF CheckTables, Goto, Work
<1>5. CASE EnableStart
  <2>1. at = "enable" /\ at' \in {"poll", "s5"} /\ i' = 0 /\ i = 0
    BY <1>5 DEF EnableStart, WInv, AInv, Polling
  <2>2. Turns' = Turns
    BY <2>1 DEF Turns, Searches
  <2> QED BY <1>2, <2>1, <2>2 DEF Work
<1>6. CASE Poll
  <2>1. at = "poll" /\ at' \in {"failed", "s5", "delay"} /\ i' = i
    BY <1>6 DEF Poll
  <2>2. Turns' = Turns
    BY <2>1 DEF Turns, Searches
  <2> QED BY <1>2, <1>3, <2>1, <2>2 DEF Work
<1>7. CASE Polled
  <2>1. at = "delay" /\ at' = "poll" /\ i' = i + 1 /\ i \in Nat
    BY <1>7 DEF Polled, WInv, AInv, Polling
  <2>2. Turns' = Turns - 5
    BY <2>1, RetriesAssumption, TableAssumption DEF Turns, Searches
  <2> QED BY <1>2, <2>1, <2>2 DEF Work
<1>8. CASE ShutdownInit
  <2>1. at = "s5" /\ at' = "search" /\ from' = 1
    BY <1>8 DEF ShutdownInit
  <2> QED BY <1>2, <2>1 DEF Work
<1>9. CASE acpi_search_s5
  <2> DEFINE s5 == memmem(aml, from)
  <2>1. /\ at = "search"
        /\ \/ at' = "shell"
           \/ at' = "search" /\ s5 # NULL /\ from' = Skip(aml, s5)
    BY <1>9 DEF acpi_search_s5, Finish
  <2>2. /\ from \in Nat /\ from < Searches
        /\ at' = "search" => from' \in Nat
    BY <1>1, <2>1, WorkIsNat, WorkStaysNat DEF WorkFacts
  <2>3. at' = "search" => from < from'
    <3> SUFFICES ASSUME s5 # NULL, from' = Skip(aml, s5) PROVE from < from'
      BY <2>1
    <3>1. aml \in Seq(Bytes) /\ from >= 1
      BY <2>1 DEF WInv, Searching
    <3>2. s5 \in Hits(aml, from)
      BY <2>2, <3>1, MemmemFirst
    <3>3. Len(aml) \in Nat /\ Len(Needle) \in Nat /\ Len(Needle) >= 1
      BY <3>1, NeedleType
    <3>4. s5 \in Nat /\ s5 >= from
      BY <2>2, <3>2, <3>3 DEF Hits
    <3> HIDE DEF s5
    <3> QED BY <2>2, <3>3, <3>4 DEF Skip
  <2> QED BY <1>2, <2>1, <2>2, <2>3 DEF Work
<1>10. CASE Waiting
  <2>1. pc # "out" /\ UNCHANGED <<at, i>> /\ Depth' = Depth + 1
    BY <1>10 DEF Waiting, Delay, Claim, Arm, Return, acpiVars, Depth
  <2>2. at = "delay"
    BY <2>1 DEF WInv, AInv, Delaying
  <2>3. Turns' = Turns
    BY <2>1 DEF Turns, Searches
  <2> QED BY <1>2, <2>1, <2>2, <2>3 DEF Work
<1> QED BY <1>4, <1>5, <1>6, <1>7, <1>8, <1>9, <1>10 DEF Thread

(* The boot never gets stuck in acpi_init() for want of an answer: every   *)
(* step of the thread leaves it less to do, and neither the timer's        *)
(* interrupts nor the hardware's answer can add to it.  With CountExact,   *)
(* by which each wait ends at its last tick, that bounds the time.         *)
THEOREM AcpiWorkShrinks ==
  AcpiSpec => /\ [](Work \in Nat)
              /\ [][Work' <= Work /\ (Thread \/ Waiting => Work' < Work)]_allVars
<1>1. WInv => Work \in Nat
  BY WorkIsNat DEF WorkFacts
<1>2. ASSUME WInv, [AcpiNext]_allVars
      PROVE  Work' <= Work /\ (Thread \/ Waiting => Work' < Work)
  <2>1. Work \in Nat /\ Work' \in Nat
    BY <1>2, WorkStep, WorkIsNat, WorkStaysNat DEF WorkFacts
  <2>2. CASE Thread \/ Waiting
    BY <1>2, <2>1, <2>2, WorkShrinks
  <2>3. CASE ~ (Thread \/ Waiting) /\ (Hardware \/ Tick \/ UNCHANGED allVars)
    <3>1. UNCHANGED <<at, i, from, pc>>
      BY <2>3 DEF Hardware, Tick, pit_irq, vars, allVars, acpiVars
    <3>2. Work' = Work
      BY <3>1 DEF Work, Turns, Searches, Depth
    <3> QED BY <2>1, <2>3, <3>2
  <2>4. CASE ~ (Thread \/ Waiting) /\ (Leave \/ acpi_shutdown)
    <3>1. Work' = 0
      BY <2>4 DEF Leave, acpi_shutdown, Work
    <3> QED BY <2>1, <2>4, <3>1
  <2> QED BY <1>2, <2>2, <2>3, <2>4 DEF AcpiNext
<1>3. WInv /\ [AcpiNext]_allVars
        => [Work' <= Work /\ (Thread \/ Waiting => Work' < Work)]_allVars
  BY <1>2
<1> QED BY <1>1, <1>3, WorkInit, WorkStep, PTL DEF AcpiSpec

(***************************************************************************)
(* What acpi_shutdown() relies on                                          *)
(***************************************************************************)

(* acpi_enable() has read the ports; the machine is in ACPI mode or cannot *)
(* be told to enter it; a sleep type was found.                            *)
PortsKnown == fw.fadt /\ PM1a_CNT = fw.pm1a /\ PM1b_CNT = fw.pm1b
AcpiMode   == sci = 1 \/ ~ fw.smi
Orders     == {<<port, SLP_TYP>> : port \in {fw.pm1a, fw.pm1b} \ {0}}

Preparing ==
  /\ fw \in Firmware /\ sci \in {0, 1} /\ no_shutdown \in BOOLEAN
  /\ at = "enable" => fw.fadt
  /\ at \in {"poll", "delay", "s5", "search"} => PortsKnown
  /\ at \in {"s5", "search"} => AcpiMode
  /\ ~ no_shutdown =>
       /\ at \in {"shell", "halting", "halted"}
       /\ PortsKnown /\ AcpiMode /\ SLP_TYP \in 1 .. Len(aml)
  /\ at # "halted" \/ no_shutdown => off = {}
  /\ at = "halted" /\ ~ no_shutdown => off = Orders

LEMMA PrepareInit == AcpiInit => Preparing
  BY DEF AcpiInit, Preparing

LEMMA PrepareStep == Preparing /\ Searching /\ [AcpiNext]_allVars => Preparing'
<1> SUFFICES ASSUME Preparing, Searching, [AcpiNext]_allVars PROVE Preparing'
  OBVIOUS
<1>1. CASE CheckTables \/ EnableStart \/ Poll \/ Polled \/ ShutdownInit
  <2>1. /\ UNCHANGED <<fw, sci, no_shutdown, off>> /\ no_shutdown /\ off = {}
        /\ at \notin {"shell", "halting", "halted"} /\ at' \notin {"shell", "halting", "halted"}
    BY <1>1 DEF Preparing, CheckTables, EnableStart, Poll, Polled, ShutdownInit, Goto, tables
  <2>2. at' = "enable" => fw.fadt
    BY <1>1 DEF CheckTables, EnableStart, Poll, Polled, ShutdownInit, Goto
  <2>3. at' \in {"poll", "delay", "s5", "search"} => PortsKnown'
    BY <1>1, <2>1 DEF Preparing, PortsKnown, CheckTables, EnableStart, Poll, Polled, ShutdownInit,
                      Goto, tables
  <2>4. at' \in {"s5", "search"} => AcpiMode'
    BY <1>1, <2>1 DEF Preparing, AcpiMode, CheckTables, EnableStart, Poll, Polled, ShutdownInit,
                      Goto
  <2> QED BY <2>1, <2>2, <2>3, <2>4 DEF Preparing
<1>2. CASE acpi_search_s5
  <2> DEFINE s5 == memmem(aml, from)
  <2>1. /\ at = "search" /\ aml' = aml /\ UNCHANGED <<fw, sci, off, PM1a_CNT, PM1b_CNT>>
        /\ at' \in {"search", "shell"}
    BY <1>2 DEF acpi_search_s5, Finish
  <2>4. no_shutdown = TRUE
    BY <2>1 DEF Preparing
  <2>5. no_shutdown' \in BOOLEAN /\ (~ no_shutdown' => at' = "shell" /\ SLP_TYP' = s5 /\ s5 # NULL)
    <3>1. CASE s5 = NULL
      BY <1>2, <3>1 DEF acpi_search_s5, Finish
    <3>2. CASE s5 # NULL /\ Accepted(aml, from, s5)
      BY <1>2, <3>2 DEF acpi_search_s5, Finish
    <3>3. CASE s5 # NULL /\ ~ Accepted(aml, from, s5)
      BY <1>2, <2>4, <3>3 DEF acpi_search_s5, Finish
    <3> QED BY <3>1, <3>2, <3>3
  <2>2. PortsKnown' /\ AcpiMode' /\ off' = {} /\ fw' \in Firmware /\ sci' \in {0, 1}
    BY <2>1 DEF Preparing, PortsKnown, AcpiMode
  <2>3. s5 # NULL => s5 \in 1 .. Len(aml)
    <3>1. aml \in Seq(Bytes) /\ from \in 1 .. Len(aml) + 1
      BY <2>1 DEF Searching
    <3>2. from \in Nat /\ from >= 1
      BY <3>1
    <3>3. s5 # NULL => s5 \in Hits(aml, from)
      BY <3>1, <3>2, MemmemFirst
    <3> QED BY <3>1, <3>2, <3>3, NeedleType DEF Hits
  <2> QED BY <2>1, <2>2, <2>3, <2>5 DEF Preparing
<1>3. CASE Hardware
  BY <1>3 DEF Hardware, Preparing, PortsKnown, AcpiMode, tables, Firmware
<1>4. CASE Leave
  BY <1>4 DEF Leave, Preparing, PortsKnown, AcpiMode, tables
<1>5. CASE acpi_shutdown
  <2>1. /\ at = "halting" /\ at' = "halted" /\ off = {}
        /\ UNCHANGED <<fw, sci, aml, PM1a_CNT, PM1b_CNT, SLP_TYP, no_shutdown>>
    BY <1>5 DEF acpi_shutdown, Preparing, tables
  <2>2. CASE no_shutdown
    <3>1. off' = {}
      BY <1>5, <2>1, <2>2 DEF acpi_shutdown
    <3> QED BY <2>1, <2>2, <3>1 DEF Preparing
  <2>3. CASE ~ no_shutdown
    <3>1. PM1a_CNT = fw.pm1a /\ PM1b_CNT = fw.pm1b /\ fw.pm1a = 1 /\ fw.pm1b \in {0, 2}
      BY <2>3 DEF Preparing, PortsKnown, Firmware
    <3>2. off' = {<<PM1a_CNT, SLP_TYP>>}
                   \cup (IF PM1b_CNT # 0 THEN {<<PM1b_CNT, SLP_TYP>>} ELSE {})
      BY <1>5, <2>1, <2>3 DEF acpi_shutdown
    <3>3. off' = Orders
      BY <3>1, <3>2 DEF Orders
    <3>4. off' = Orders'
      BY <2>1, <3>3 DEF Orders
    <3> QED BY <2>1, <2>3, <3>4 DEF Preparing, PortsKnown, AcpiMode
  <2> QED BY <2>2, <2>3 DEF Preparing
<1>6. CASE Waiting \/ Tick \/ UNCHANGED allVars
  <2>1. UNCHANGED acpiVars
    BY <1>6 DEF Waiting, Tick, allVars
  <2> QED BY <2>1 DEF acpiVars, tables, Preparing, PortsKnown, AcpiMode, Orders
<1> QED BY <1>1, <1>2, <1>3, <1>4, <1>5, <1>6 DEF AcpiNext, Thread

(* The machine is only told to power off with a sleep type from its        *)
(* tables, on the FADT's ports and in ACPI mode, wherever acpi_init() gave *)
(* up and although kernel_main() ignores that it did.                      *)
THEOREM AcpiShutdownPrepared == AcpiSpec => []ShutdownPrepared
<1>1. Preparing => ShutdownPrepared
  BY DEF Preparing, PortsKnown, AcpiMode, Orders, ShutdownPrepared
<1>2. AcpiInit => Preparing /\ Searching
  BY PrepareInit, SearchInit
<1>3. Preparing /\ Searching /\ [AcpiNext]_allVars => (Preparing /\ Searching)'
  BY PrepareStep, SearchStep
<1> QED BY <1>1, <1>2, <1>3, PTL DEF AcpiSpec

=============================================================================
