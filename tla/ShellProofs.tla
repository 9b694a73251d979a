---------------------------- MODULE ShellProofs ----------------------------
(***************************************************************************)
(* Proofs about Timer and about Shell, which extends it: for every width   *)
(* of the tick counter and every request, a sleep lasts as many ticks as   *)
(* asked, or one more; for every set of lines and every scale of time, so  *)
(* does a sleep of a command, through resets as well; a command that       *)
(* pauses is not over early; and a scan leaves the devices that were       *)
(* there.                                                                  *)
(***************************************************************************)
EXTENDS Shell, Basics, FiniteSetTheorems, TLAPS

-----------------------------------------------------------------------------
(* The timer.                                                              *)

LEMMA Bounds ==
    /\ WORD \in Nat /\ WORD >= 3
    /\ \A request \in Requests : request \in Nat /\ request <= WORD - 2
  BY TimerAssumption

\* Below WORD, % is the identity; from there on it takes WORD off.
LEMMA ModOnce ==
    ASSUME NEW x \in 0 .. 2 * WORD - 1
    PROVE  x % WORD = IF x < WORD THEN x ELSE x - WORD
<1> DEFINE q == x \div WORD
           r == x % WORD
<1>1. q \in Int /\ r \in 0 .. WORD - 1 /\ x = WORD * q + r
  BY Bounds
<1> HIDE DEF q, r
<1>2. CASE q >= 2
  <2>1. WORD * q >= WORD * 2
    BY Bounds, <1>1, <1>2
  <2> QED
    BY Bounds, <1>1, <2>1
<1>3. CASE q <= -1
  <2>1. WORD * q <= WORD * (-1)
    BY Bounds, <1>1, <1>3
  <2> QED
    BY Bounds, <1>1, <2>1
<1>4. CASE q = 0
  BY Bounds, <1>1, <1>4 DEF r
<1>5. CASE q = 1
  BY Bounds, <1>1, <1>5 DEF r
<1> QED
  BY <1>1, <1>2, <1>3, <1>4, <1>5

\* The counter stays in its word.
LEMMA CountInWord ==
    ASSUME NEW t \in 0 .. WORD - 1
    PROVE  Count(t) = IF t = WORD - 1 THEN 0 ELSE t + 1
<1>1. t + 1 \in 0 .. 2 * WORD - 1
  BY Bounds
<1> QED
  BY Bounds, <1>1, ModOnce DEF Count

(***************************************************************************)
(* The inductive invariant: during a sleep the counter is elapsed ticks    *)
(* past start, modulo WORD; elapsed is below ms where the loop is about to *)
(* halt, one more being possible before hlt itself and after it.           *)
(***************************************************************************)
Since == IF start <= ticks_count THEN ticks_count - start
                                 ELSE ticks_count + WORD - start

Clock ==
    pc # "away" =>
        /\ elapsed = Since
        /\ elapsed <= ms + 1
        /\ pc \in {"hlt", "halted"} \/ ran = TRUE => elapsed <= ms
        /\ pc = "hlt" /\ ran = TRUE => elapsed < ms

Inv == TypeOK /\ Clock

LEMMA WaitsIsSince ==
    ASSUME TypeOK
    PROVE  Waits <=> Since < ms
<1> DEFINE x == WORD + ticks_count - start
<1>1. x \in 0 .. 2 * WORD - 1
  BY Bounds DEF TypeOK
<1>2. x % WORD = IF x < WORD THEN x ELSE x - WORD
  <2> HIDE DEF x
  <2> QED
    BY <1>1, ModOnce
<1>3. (WORD + ticks_count - start) % WORD = Since
  BY <1>2, Bounds DEF Since, TypeOK
<1> QED
  BY <1>3 DEF Waits

LEMMA InitInv == Init => Inv
  BY Bounds DEF Init, Inv, TypeOK, Clock

LEMMA NextInv == Inv /\ [Next]_vars => Inv'
<1> SUFFICES ASSUME Inv, [Next]_vars PROVE Inv'
  OBVIOUS
<1> USE Bounds DEF Inv, TypeOK, Clock
<1>1. ms \in Nat /\ ms <= WORD - 2
  OBVIOUS
<1>2. CASE Tick
  <2>1. ticks_count' = IF ticks_count = WORD - 1 THEN 0 ELSE ticks_count + 1
    BY <1>2, CountInWord DEF Tick
  <2>2. ticks_count' \in 0 .. WORD - 1
    BY <2>1
  <2>3. CASE pc = "away"
    BY <1>2, <2>2, <2>3 DEF Tick
  <2>4. CASE pc # "away"
    <3>1. elapsed = Since /\ elapsed <= ms /\ elapsed' = elapsed + 1 /\ start' = start
      BY <1>1, <1>2, <2>4 DEF Tick
    <3>2. Since' = Since + 1
      BY <1>1, <2>1, <3>1 DEF Since
    <3>3. TypeOK'
      BY <1>2, <2>2, <2>4 DEF Tick
    <3>4. Clock'
      <4>1. elapsed' = Since' /\ elapsed' <= ms' + 1
        BY <1>1, <1>2, <3>1, <3>2 DEF Tick
      <4>2. ran' = FALSE /\ pc' # "halted"
        BY <1>2, <2>4 DEF Tick
      <4>3. CASE pc' = "hlt"
        <5>1. pc = "hlt" /\ ran = TRUE
          BY <1>2, <4>3 DEF Tick
        <5>2. elapsed < ms
          BY <5>1
        <5>3. elapsed' <= ms'
          BY <1>1, <1>2, <3>1, <5>2 DEF Tick
        <5> QED
          BY <4>1, <4>2, <5>3
      <4>4. CASE pc' # "hlt"
        BY <4>1, <4>2, <4>4
      <4> QED
        BY <4>3, <4>4
    <3> QED
      BY <3>3, <3>4
  <2> QED
    BY <2>3, <2>4
<1>3. CASE OtherIrq
  BY <1>1, <1>3 DEF OtherIrq, Since
<1>4. ASSUME NEW request \in Requests, Sleep(request) PROVE Inv'
  BY <1>4 DEF Sleep, Since
<1>5. CASE Test
  <2>1. Waits <=> Since < ms
    BY WaitsIsSince
  <2>2. UNCHANGED <<ticks_count, start, ms, elapsed>> /\ Since' = Since
    BY <1>5 DEF Test, Since
  <2>3. pc = "test" /\ ran' = TRUE /\ pc' = IF Since < ms THEN "hlt" ELSE "away"
    BY <1>5, <2>1 DEF Test
  <2> QED
    BY <1>1, <2>2, <2>3
<1>6. CASE Hlt
  BY <1>1, <1>6 DEF Hlt, Since
<1>7. CASE UNCHANGED vars
  BY <1>7 DEF vars, Since
<1> QED
  BY <1>2, <1>3, <1>4, <1>5, <1>6, <1>7 DEF Next

\* timer_sleep returns as many ticks after it was called as it was asked to, or one more.
LEMMA TestOnTime ==
    ASSUME Inv, Test, pc' = "away"
    PROVE  elapsed \in {ms, ms + 1}
<1>1. ~(Since < ms)
  BY WaitsIsSince DEF Test, Inv
<1>2. ms \in Nat /\ elapsed \in Nat /\ elapsed = Since /\ elapsed <= ms + 1
  BY Bounds DEF Inv, TypeOK, Clock, Test
<1> QED
  BY <1>1, <1>2

\* The counter and the locals of timer_sleep stay in their words.
THEOREM TypeCorrect == Spec => []TypeOK
<1>1. Inv => TypeOK
  BY DEF Inv
<1> QED
  BY <1>1, InitInv, NextInv, PTL DEF Spec

\* A sleep is over after as many ticks as asked, or one more, for any width of
\* the counter and wherever it wraps.
THEOREM SleepsOnTime == Spec => OnTime
<1>1. Inv /\ [Next]_vars
        => [(pc = "test" /\ pc' = "away") => elapsed \in {ms, ms + 1}]_vars
  <2> SUFFICES ASSUME Inv, [Next]_vars, pc = "test", pc' = "away"
               PROVE  elapsed \in {ms, ms + 1}
    OBVIOUS
  <2>1. Test
    BY DEF Next, Tick, OtherIrq, Sleep, Hlt, vars
  <2> QED
    BY <2>1, TestOnTime
<1> QED
  BY <1>1, InitInv, NextInv, PTL DEF Spec, OnTime

-----------------------------------------------------------------------------
(* The shell.                                                              *)

\* Detection ends with a controller whichever ports answer: enumeration finds
\* the same devices each time.
LEMMA SameDevices ==
    ASSUME NEW up \in SUBSET Ports
    PROVE  Detected(up) \in Nat /\ Enumerated(Detected(up)) = 1 .. 3
<1>1. IsFiniteSet(up)
  BY ShellAssumption, FS_Subset
<1>2. Cardinality(up) \in Nat /\ (Cardinality(up) = 0 <=> up = {})
  BY <1>1, FS_CardinalityType, FS_EmptySet
<1> QED
  BY <1>2 DEF Detected, Enumerated

(***************************************************************************)
(* The inductive invariant adds three parts to the timer's: the types of   *)
(* the machine, the devices, which are those of enumeration from the first *)
(* one on, and the trusted files, which are paths and fit in their array.  *)
(***************************************************************************)
Machine ==
    /\ at \in {"boot", "prompt", "run", "halted", "entry"}
    /\ line \in Lines \cup {NoLine}
    /\ rest \in Seq(Requests)
    /\ lasted \in 0 .. MaxLasted

Devices ==
    /\ controllers \in Nat
    /\ devices = 1 .. 3

Paths == {"/bin", "/etc", "/dev"} \cup {l.arg : l \in Lines \cup {NoLine}}

Trusted == trusted \in Seq(Paths) /\ Len(trusted) <= MAX_TRUSTED

ShellInv == Inv /\ Machine /\ Devices /\ Trusted

LEMMA FirstTrusted ==
    /\ <<"/bin", "/etc", "/dev">> \in Seq(Paths)
    /\ Len(<<"/bin", "/etc", "/dev">>) <= MAX_TRUSTED
  BY ShellAssumption DEF Paths

LEMMA ShellInitInv == ShellInit => ShellInv
<1> SUFFICES ASSUME ShellInit PROVE ShellInv
  OBVIOUS
<1>1. Inv
  BY InitInv DEF ShellInit
<1>2. Machine
  BY ShellAssumption DEF ShellInit, Machine
<1>3. Devices
  BY SameDevices DEF ShellInit, Devices
<1>4. Trusted
  BY FirstTrusted DEF ShellInit, Trusted
<1> QED
  BY <1>1, <1>2, <1>3, <1>4 DEF ShellInv

\* Whatever the machine does, the timer takes a step of its own or stands still,
\* unless the machine is reset, which happens outside timer_sleep.
LEMMA TimerSteps ==
    ASSUME ShellInv, [ShellNext]_shellVars
    PROVE  [Next]_vars \/ Reset
<1>1. CASE ClockTick
  BY <1>1 DEF ClockTick, Next
<1>2. CASE Irq
  BY <1>2 DEF Irq, Next
<1>3. CASE \E l \in Lines : ReadLine(l)
  BY <1>3 DEF ReadLine
<1>4. CASE InSleep
  BY <1>4 DEF InSleep, Next
<1>5. CASE Pause
  <2>1. Head(rest) \in Requests
    BY <1>5 DEF Pause, ShellInv, Machine
  <2> QED
    BY <1>5, <2>1 DEF Pause, Next
<1>6. CASE Booted
  BY <1>6 DEF Booted
<1>7. CASE Return
  BY <1>7 DEF Return
<1>8. CASE Halt
  BY <1>8 DEF Halt
<1>9. CASE Done \/ Frame
  BY <1>9 DEF Done, Frame
<1>10. CASE UNCHANGED shellVars
  BY <1>10 DEF shellVars
<1> QED
  BY <1>1, <1>2, <1>3, <1>4, <1>5, <1>6, <1>7, <1>8, <1>9, <1>10 DEF ShellNext, Thread

LEMMA ShellNextInv == ShellInv /\ [ShellNext]_shellVars => ShellInv'
<1> SUFFICES ASSUME ShellInv, [ShellNext]_shellVars PROVE ShellInv'
  OBVIOUS
<1>1. Inv'
  <2>1. CASE [Next]_vars
    BY <2>1, NextInv DEF ShellInv
  <2>2. CASE Reset
    <3>1. pc' = "away" /\ ran' \in BOOLEAN
      BY <2>2 DEF Reset, Ending, ShellInv, Inv, TypeOK
    <3>2. ticks_count' = 0 /\ start' = 0 /\ ms' = 0 /\ elapsed' = 0
      BY <2>2 DEF Reset
    <3> QED
      BY <3>1, <3>2, Bounds DEF Inv, TypeOK, Clock
  <2> QED
    BY <2>1, <2>2, TimerSteps
<1>2. Machine'
  <2> USE DEF ShellInv, Machine
  <2>1. CASE ClockTick
    BY <2>1, ShellAssumption DEF ClockTick
  <2>2. CASE Irq \/ InSleep
    BY <2>2 DEF Irq, InSleep, machine
  <2>3. ASSUME NEW l \in Lines, ReadLine(l) PROVE Machine'
    <3>1. rest' \in Seq(Requests)
      BY <2>3, ShellAssumption DEF ReadLine
    <3> QED
      BY <2>3, <3>1 DEF ReadLine
  <2>4. CASE Pause
    BY <2>4 DEF Pause
  <2>5. CASE Booted \/ Return \/ Halt
    BY <2>5 DEF Booted, Return, Halt
  <2>6. CASE Reset
    BY <2>6, ShellAssumption DEF Reset
  <2>7. CASE Done
    BY <2>7, ShellAssumption DEF Done
  <2>8. CASE Frame
    BY <2>8, ShellAssumption DEF Frame
  <2>9. CASE UNCHANGED shellVars
    BY <2>9 DEF shellVars, machine
  <2> QED
    BY <2>1, <2>2, <2>3, <2>4, <2>5, <2>6, <2>7, <2>8, <2>9 DEF ShellNext, Thread
<1>3. UNCHANGED lists \/ Reset \/ Done
  BY DEF ShellNext, Thread, ClockTick, Irq, InSleep, ReadLine, Pause, Booted, Frame,
         Return, Halt, shellVars
<1>4. Devices'
  <2>1. CASE UNCHANGED lists
    BY <2>1 DEF lists, ShellInv, Devices
  <2>2. CASE Reset
    BY <2>2, SameDevices DEF Reset, Devices
  <2>3. CASE Done
    BY <2>3, SameDevices DEF Done, ShellInv, Devices
  <2> QED
    BY <1>3, <2>1, <2>2, <2>3
<1>5. Trusted'
  <2>1. CASE UNCHANGED lists
    BY <2>1 DEF lists, ShellInv, Trusted
  <2>2. CASE Reset
    BY <2>2, FirstTrusted DEF Reset, Trusted
  <2>3. CASE Done
    <3>1. line.arg \in Paths
      BY DEF Paths, ShellInv, Machine
    <3>2. trusted \in Seq(Paths) /\ Len(trusted) <= MAX_TRUSTED
      BY DEF ShellInv, Trusted
    <3>3. trusted' = trusted \/ Trust(line.arg)
      BY <2>3 DEF Done
    <3>4. CASE trusted' = trusted
      BY <3>2, <3>4 DEF Trusted
    <3>5. CASE Trust(line.arg)
      <4> DEFINE path == line.arg
      <4>1. trusted' = IF Len(trusted) >= MAX_TRUSTED THEN trusted
                       ELSE Append(trusted, path)
        BY <3>5 DEF Trust
      <4> HIDE DEF path
      <4>2. Append(trusted, path) \in Seq(Paths)
            /\ Len(Append(trusted, path)) = Len(trusted) + 1
        BY <3>1, <3>2 DEF path
      <4> QED
        BY <3>2, <4>1, <4>2, ShellAssumption DEF Trusted
    <3> QED
      BY <3>3, <3>4, <3>5
  <2> QED
    BY <1>3, <2>1, <2>2, <2>3
<1> QED
  BY <1>1, <1>2, <1>4, <1>5 DEF ShellInv

-----------------------------------------------------------------------------
\* Types, and the trusted files inside their array however many are added.
THEOREM ShellTypeCorrect == ShellSpec => []ShellTypeOK
<1>1. ShellInv => ShellTypeOK
  BY DEF ShellInv, Inv, Machine, Devices, Trusted, ShellTypeOK
<1> QED
  BY <1>1, ShellInitInv, ShellNextInv, PTL DEF ShellSpec

\* A scan, and a reset, find the same three devices, whatever the number of
\* ports and whichever of them answer.
THEOREM DevicesAreKept == ShellSpec => []DevicesStay
<1>1. ShellInv => DevicesStay
  BY DEF ShellInv, Devices, DevicesStay
<1> QED
  BY <1>1, ShellInitInv, ShellNextInv, PTL DEF ShellSpec

\* Each pause of a command lasts as many ticks as it asks for, or one more, in a
\* machine that is reset in between and whose counter then starts again.
THEOREM PausesOnTime == ShellSpec => OnTime
<1>1. ShellInv /\ [ShellNext]_shellVars
        => [(pc = "test" /\ pc' = "away") => elapsed \in {ms, ms + 1}]_vars
  <2> SUFFICES ASSUME ShellInv, [ShellNext]_shellVars, pc = "test", pc' = "away"
               PROVE  elapsed \in {ms, ms + 1}
    OBVIOUS
  <2>1. Test
    <3>1. ~Reset
      BY DEF Reset, Ending
    <3>2. [Next]_vars
      BY <3>1, TimerSteps
    <3> QED
      BY <3>2 DEF Next, Tick, OtherIrq, Sleep, Hlt, vars
  <2> QED
    BY <2>1, TestOnTime DEF ShellInv
<1> QED
  BY <1>1, ShellInitInv, ShellNextInv, PTL DEF ShellSpec, OnTime

-----------------------------------------------------------------------------
(* How long a command takes.                                               *)

\* The ticks of the first i pauses, for each i.
Sums(u, s) ==
    /\ u \in [Nat -> Nat]
    /\ u[0] = 0
    /\ \A i \in Nat \ {0} : u[i] = u[i - 1] + (IF i \in DOMAIN s THEN s[i] ELSE 0)

LEMMA TotalIs ==
    ASSUME NEW s \in Seq(Nat)
    PROVE  \E u : Sums(u, s) /\ Total(s) = u[Len(s)]
<1> DEFINE nth == [i \in Nat |-> IF i \in DOMAIN s THEN s[i] ELSE 0]
           g == [z \in Nat \X Nat |-> z[1] + nth[z[2]]]
           P == CHOOSE upTo : upTo = [i \in Nat |->
                  IF i = 0 THEN 0
                  ELSE upTo[i - 1] + (IF i \in DOMAIN s THEN s[i] ELSE 0)]
<1>1. Total(s) = P[Len(s)]
  BY DEF Total
<1>o. \A i \in Nat : nth[i] = (IF i \in DOMAIN s THEN s[i] ELSE 0) /\ nth[i] \in Nat
  OBVIOUS
<1> HIDE DEF nth
<1>2. g \in [Nat \X Nat -> Nat]
  BY <1>o
<1>3. PICK e : Recurs(e, Nat, 0, g)
  <2> HIDE DEF g, P
  <2> QED
    BY <1>2, Recursion
<1>4. \A i \in Nat : e[i] = IF i = 0 THEN 0 ELSE e[i - 1] + nth[i]
  <2> SUFFICES ASSUME NEW i \in Nat, i # 0 PROVE e[i] = e[i - 1] + nth[i]
    BY <1>3 DEF Recurs
  <2> HIDE DEF g, P
  <2>1. i - 1 \in Nat /\ e[i] = g[<<e[i - 1], i>>]
    BY <1>3 DEF Recurs
  <2>2. <<e[i - 1], i>> \in Nat \X Nat
    BY <1>3, <2>1 DEF Recurs
  <2> QED
    BY <2>1, <2>2 DEF g
<1>5. e \in [Nat -> Nat]
  BY <1>3 DEF Recurs
<1>6. e = [i \in Nat |-> IF i = 0 THEN 0
                         ELSE e[i - 1] + (IF i \in DOMAIN s THEN s[i] ELSE 0)]
  <2>1. \A i \in Nat : e[i] = IF i = 0 THEN 0
                              ELSE e[i - 1] + (IF i \in DOMAIN s THEN s[i] ELSE 0)
    BY <1>4, <1>o
  <2> HIDE DEF P, g
  <2> QED
    BY <1>5, <2>1
<1>7. P = [i \in Nat |-> IF i = 0 THEN 0
                         ELSE P[i - 1] + (IF i \in DOMAIN s THEN s[i] ELSE 0)]
  BY <1>6, Zenon
<1> HIDE DEF P, g
<1>8. P[0] = 0 /\ \A i \in Nat \ {0} : P[i] = P[i - 1] + nth[i]
  BY <1>7, <1>o
<1>9. P \in [Nat -> Nat]
  <2> DEFINE S == {i \in Nat : P[i] \in Nat}
  <2>1. 0 \in S
    BY <1>8
  <2>2. ASSUME NEW i \in Nat \ {0}, i - 1 \in S PROVE i \in S
    <3>1. P[i] = P[i - 1] + nth[i] /\ P[i - 1] \in Nat /\ nth[i] \in Nat
      BY <1>8, <1>o, <2>2
    <3> QED
      BY <3>1
  <2>3. ASSUME NEW n \in Nat PROVE n \in S
    <3> HIDE DEF S
    <3>1. \A i \in 1 .. n : i - 1 \in S => i \in S
      BY <2>2
    <3>2. \A i \in 0 .. n : i \in S
      BY <2>1, <3>1, Climb
    <3> QED
      BY <3>2
  <2>4. \A n \in Nat : P[n] \in Nat
    BY <2>3
  <2> QED
    BY <1>7, <2>4
<1>10. Sums(P, s)
  BY <1>8, <1>9, <1>o DEF Sums
<1> QED
  BY <1>1, <1>10

\* No pauses take no time, and the first of some is taken off by the rest.
LEMMA TotalOf ==
    /\ Total(<<>>) = 0
    /\ \A s \in Seq(Nat) : Total(s) \in Nat
    /\ \A s \in Seq(Nat) : s # <<>> => Total(s) = Head(s) + Total(Tail(s))
<1>1. Total(<<>>) = 0
  <2>1. <<>> \in Seq(Nat) /\ Len(<<>>) = 0
    OBVIOUS
  <2> QED
    BY <2>1, TotalIs DEF Sums
<1>2. ASSUME NEW s \in Seq(Nat) PROVE Total(s) \in Nat
  <2>1. PICK u : Sums(u, s) /\ Total(s) = u[Len(s)]
    BY TotalIs
  <2> QED
    BY <2>1 DEF Sums
<1>3. ASSUME NEW s \in Seq(Nat), s # <<>>
      PROVE  Total(s) = Head(s) + Total(Tail(s))
  <2> DEFINE t == Tail(s)
             n == Len(t)
  <2>1. /\ t \in Seq(Nat) /\ n \in Nat /\ Len(s) = n + 1
        /\ Head(s) = s[1] /\ s[1] \in Nat
        /\ DOMAIN s = 1 .. n + 1 /\ DOMAIN t = 1 .. n
        /\ \A i \in 1 .. n : t[i] = s[i + 1]
    BY <1>3
  <2> HIDE DEF t
  <2>2. PICK u : Sums(u, s) /\ Total(s) = u[n + 1]
    BY <2>1, TotalIs
  <2>3. PICK v : Sums(v, t) /\ Total(t) = v[n]
    BY <2>1, TotalIs
  <2> HIDE DEF n
  <2> DEFINE S == {i \in 0 .. n : u[i + 1] = s[1] + v[i]}
  <2>4. 0 \in S
    <3>1. u[0] = 0 /\ v[0] = 0 /\ u[1] = u[1 - 1] + s[1]
      BY <2>1, <2>2, <2>3 DEF Sums
    <3> QED
      BY <2>1, <3>1
  <2>5. ASSUME NEW i \in 1 .. n, i - 1 \in S PROVE i \in S
    <3>1. u[i] = s[1] + v[i - 1]
      BY <2>1, <2>5
    <3>2. u[i + 1] = u[i] + s[i + 1]
      <4>1. i + 1 \in Nat \ {0} /\ (i + 1) - 1 = i /\ i + 1 \in DOMAIN s
        BY <2>1
      <4> QED
        BY <2>2, <4>1 DEF Sums
    <3>3. v[i] = v[i - 1] + s[i + 1]
      <4>1. i \in Nat \ {0} /\ i \in DOMAIN t /\ t[i] = s[i + 1]
        BY <2>1
      <4> QED
        BY <2>3, <4>1 DEF Sums
    <3>4. v[i - 1] \in Nat /\ s[i + 1] \in Nat
      <4>1. i - 1 \in Nat /\ i + 1 \in 1 .. Len(s)
        BY <2>1
      <4>2. s[i + 1] \in Nat
        BY <4>1, ElementOfSeq
      <4>3. v \in [Nat -> Nat]
        BY <2>3 DEF Sums
      <4> QED
        BY <4>1, <4>2, <4>3
    <3>5. i \in 0 .. n
      BY <2>1
    <3>6. u[i] \in Nat /\ v[i] \in Nat /\ s[1] \in Nat
      <4>1. u \in [Nat -> Nat] /\ v \in [Nat -> Nat]
        BY <2>2, <2>3 DEF Sums
      <4>2. i \in Nat
        BY <2>1
      <4> QED
        BY <2>1, <4>1, <4>2
    <3>7. u[i + 1] = s[1] + v[i]
      <4> DEFINE a == s[1]
                 b == v[i - 1]
                 c == s[i + 1]
                 d == u[i]
                 e == v[i]
      <4>1. /\ {a, b, c, d, e} \subseteq Nat
            /\ d = a + b /\ u[i + 1] = d + c /\ e = b + c
        BY <3>1, <3>2, <3>3, <3>4, <3>6
      <4> HIDE DEF a, b, c, d, e
      <4>2. d + c = a + e
        BY <4>1
      <4>3. u[i + 1] = a + e
        BY <4>1, <4>2
      <4> QED
        BY <4>3 DEF a, e
    <3> QED
      BY <3>5, <3>7
  <2>6. n \in S
    <3> HIDE DEF S
    <3>1. \A i \in 1 .. n : i - 1 \in S => i \in S
      BY <2>5
    <3>2. \A i \in 0 .. n : i \in S
      BY <2>1, <2>4, <3>1, Climb
    <3> QED
      BY <2>1, <3>2
  <2> QED
    BY <2>1, <2>2, <2>3, <2>6 DEF t
<1> QED
  BY <1>1, <1>2, <1>3

(***************************************************************************)
(* What a command still has to wait: its pauses to come, and the rest of   *)
(* the one it is in, which a late tick makes negative.  With the ticks     *)
(* counted so far, it is never less than all pauses of the command, unless *)
(* so many were counted that the count stands still.                       *)
(***************************************************************************)
Due(l) == Total(Scaled(Pauses(l)))

Left == Total(rest) + (IF pc = "away" THEN 0 ELSE ms - elapsed)

Owing ==
    /\ at = "prompt" => pc = "away" /\ rest = <<>>
    /\ at = "run" => line \in Lines
    /\ (at = "run" /\ ~Misused(line) /\ lasted < MaxLasted) => lasted + Left >= Due(line)

LastsInv == ShellInv /\ Owing

LEMMA RequestsAreNumbers == Seq(Requests) \subseteq Seq(Nat)
<1>1. Requests \subseteq Nat
  BY TimerAssumption
<1> SUFFICES ASSUME NEW s \in Seq(Requests) PROVE s \in Seq(Nat)
  OBVIOUS
<1>2. Len(s) \in Nat /\ s = [i \in 1 .. Len(s) |-> s[i]] /\ \A i \in 1 .. Len(s) : s[i] \in Nat
  BY <1>1, ElementOfSeq, LenProperties
<1> QED
  BY <1>2, IsASeq

LEMMA DueIs == \A l \in Lines : Due(l) \in Nat /\ Due(l) <= MaxLasted
<1> SUFFICES ASSUME NEW l \in Lines PROVE Due(l) \in Nat /\ Due(l) <= MaxLasted
  OBVIOUS
<1>1. Scaled(Pauses(l)) \in Seq(Nat)
  BY ShellAssumption, RequestsAreNumbers
<1> QED
  BY <1>1, TotalOf, ShellAssumption DEF Due

\* What the variables hold, for arithmetic.
LEMMA Numbers ==
    ShellInv =>
        /\ ms \in Nat /\ elapsed \in Nat /\ MaxLasted \in Nat /\ lasted \in 0 .. MaxLasted
        /\ rest \in Seq(Nat) /\ Total(rest) \in Nat
        /\ Left \in Int
<1> SUFFICES ASSUME ShellInv
             PROVE  /\ ms \in Nat /\ elapsed \in Nat /\ MaxLasted \in Nat
                    /\ lasted \in 0 .. MaxLasted
                    /\ rest \in Seq(Nat) /\ Total(rest) \in Nat
                    /\ Left \in Int
  OBVIOUS
<1>1. ms \in Nat /\ elapsed \in Nat /\ lasted \in 0 .. MaxLasted /\ MaxLasted \in Nat
  BY Bounds, ShellAssumption DEF ShellInv, Inv, TypeOK, Machine
<1>2. rest \in Seq(Nat)
  BY RequestsAreNumbers DEF ShellInv, Machine
<1>3. Total(rest) \in Nat
  BY <1>2, TotalOf
<1> QED
  BY <1>1, <1>2, <1>3 DEF Left

\* While the line stays the same, the count and what is left balance.
LEMMA Balances ==
    ASSUME ShellInv, Owing, at' = at, line' = line,
           at = "prompt" => pc' = "away" /\ rest' = <<>>,
           lasted' \in 0 .. MaxLasted, Left' \in Int,
           (at = "run" /\ lasted < MaxLasted) => lasted' + Left' >= lasted + Left,
           lasted <= lasted'
    PROVE  Owing'
<1>1. at = "run" => line \in Lines
  BY DEF Owing
<1>2. ASSUME at = "run", ~Misused(line), lasted' < MaxLasted
      PROVE  lasted' + Left' >= Due(line)
  <2>1. lasted < MaxLasted /\ lasted \in Nat /\ Left \in Int /\ Due(line) \in Nat
    BY <1>1, <1>2, Numbers, DueIs
  <2>2. lasted + Left >= Due(line)
    BY <1>2, <2>1 DEF Owing
  <2>3. lasted' + Left' >= lasted + Left
    BY <1>2, <2>1, Zenon
  <2>4. \A a, x, b, y, d \in Int : a + x >= b + y /\ b + y >= d => a + x >= d
    OBVIOUS
  <2>5. {lasted', Left', lasted, Left, Due(line)} \subseteq Int
    BY <2>1
  <2> QED
    BY <2>2, <2>3, <2>4, <2>5, Zenon
<1>3. (Misused(line))' = Misused(line) /\ Due(line)' = Due(line)
  BY DEF Misused, Due, Scaled, Pauses, Hangs, Resolves
<1> QED
  BY <1>1, <1>2, <1>3 DEF Owing

LEMMA OwingStep ==
    ASSUME ShellInv, ShellInv', Owing, [ShellNext]_shellVars
    PROVE  Owing'
<1>1. /\ ms \in Nat /\ elapsed \in Nat /\ MaxLasted \in Nat /\ lasted \in 0 .. MaxLasted
      /\ rest \in Seq(Nat) /\ Total(rest) \in Nat /\ Left \in Int
  BY Numbers
<1>2. lasted' \in 0 .. MaxLasted /\ Left' \in Int /\ Total(rest)' \in Nat
  <2>1. (/\ ms \in Nat /\ elapsed \in Nat /\ MaxLasted \in Nat /\ lasted \in 0 .. MaxLasted
         /\ rest \in Seq(Nat) /\ Total(rest) \in Nat
         /\ Left \in Int)'
    BY Numbers, PTL
  <2> QED
    BY <2>1
<1>3. CASE ClockTick
  <2>1. /\ at' = at /\ line' = line /\ rest' = rest /\ ms' = ms
        /\ lasted' = IF at = "run" /\ lasted < MaxLasted THEN lasted + 1 ELSE lasted
        /\ elapsed' = IF pc = "away" THEN elapsed ELSE elapsed + 1
        /\ pc' = "away" <=> pc = "away"
    BY <1>3 DEF ClockTick, Tick
  <2>2. Left' = IF pc = "away" THEN Left ELSE Left - 1
    BY <1>1, <2>1 DEF Left
  <2>3. (at = "run" /\ lasted < MaxLasted) => lasted' + Left' >= lasted + Left
    <3> HIDE DEF Left
    <3> QED
      BY <1>1, <2>1, <2>2
  <2>4. lasted <= lasted'
    BY <1>1, <2>1
  <2>5. at = "prompt" => pc' = "away" /\ rest' = <<>>
    BY <2>1 DEF Owing
  <2> QED
    BY <1>2, <2>1, <2>3, <2>4, <2>5, Balances
<1>4. CASE InSleep
  <2>1. at' = at /\ line' = line /\ rest' = rest /\ lasted' = lasted /\ pc # "away"
        /\ ms' = ms /\ elapsed' = elapsed
    BY <1>4 DEF InSleep, machine, Test, Hlt
  <2>2. Left' >= Left
    <3>1. CASE pc' # "away"
      BY <1>1, <2>1, <3>1 DEF Left
    <3>2. CASE pc' = "away"
      <4>1. Test
        BY <1>4, <3>2 DEF InSleep, Hlt
      <4>2. elapsed \in {ms, ms + 1}
        BY <3>2, <4>1, TestOnTime DEF ShellInv
      <4>3. Left' = Total(rest) + 0 /\ Left = Total(rest) + (ms - elapsed)
        BY <2>1, <3>2 DEF Left
      <4> QED
        BY <1>1, <4>2, <4>3
    <3> QED
      BY <3>1, <3>2
  <2>3. lasted <= lasted' /\ lasted' + Left' >= lasted + Left
    <3>1. \A x, y \in Int, b \in Nat : x >= y => b <= b /\ b + x >= b + y
      OBVIOUS
    <3>2. lasted' = lasted /\ lasted \in Nat /\ Left \in Int /\ Left' \in Int
      BY <1>1, <1>2, <2>1
    <3> QED
      BY <2>2, <3>1, <3>2, Zenon
  <2>4. at # "prompt"
    BY <2>1 DEF Owing
  <2> QED
    BY <1>2, <2>1, <2>3, <2>4, Balances
<1>5. CASE Pause
  <2>1. /\ at' = at /\ line' = line /\ lasted' = lasted /\ rest # <<>> /\ pc = "away"
        /\ rest' = Tail(rest) /\ ms' = Head(rest) /\ elapsed' = 0 /\ pc' = "test"
    BY <1>5 DEF Pause, Sleep
  <2>2. Total(rest) = Head(rest) + Total(Tail(rest))
    BY <1>1, <2>1, TotalOf
  <2>3. Head(rest) \in Nat /\ Total(Tail(rest)) \in Nat
    <3>1. Head(rest) \in Nat /\ Tail(rest) \in Seq(Nat)
      BY <1>1, <2>1, HeadTailProperties
    <3> QED
      BY <3>1, TotalOf
  <2>4. Left = Total(rest) + 0 /\ Left' = Total(Tail(rest)) + (Head(rest) - 0)
    BY <2>1 DEF Left
  <2>5. Left' = Left
    BY <1>1, <2>2, <2>3, <2>4
  <2>6. lasted <= lasted' /\ lasted' + Left' >= lasted + Left
    <3> HIDE DEF Left
    <3> QED
      BY <1>1, <2>1, <2>5
  <2>7. at # "prompt"
    BY <2>1 DEF Owing
  <2> QED
    BY <1>2, <2>1, <2>6, <2>7, Balances
<1>6. CASE Irq \/ UNCHANGED shellVars
  <2>1. /\ at' = at /\ line' = line /\ rest' = rest /\ lasted' = lasted
        /\ ms' = ms /\ elapsed' = elapsed /\ (pc' = "away" <=> pc = "away")
    BY <1>6 DEF Irq, OtherIrq, machine, shellVars, vars
  <2>2. Left' = Left
    BY <2>1 DEF Left
  <2>3. lasted <= lasted' /\ lasted' + Left' >= lasted + Left
    <3> HIDE DEF Left
    <3> QED
      BY <1>1, <2>1, <2>2
  <2>4. at = "prompt" => pc' = "away" /\ rest' = <<>>
    BY <2>1 DEF Owing
  <2> QED
    BY <1>2, <2>1, <2>3, <2>4, Balances
<1>7. ASSUME NEW l \in Lines, ReadLine(l) PROVE Owing'
  <2>1. /\ at' = "run" /\ line' = l /\ lasted' = lasted /\ pc' = "away"
        /\ ~Misused(l) => rest' = Scaled(Pauses(l))
    BY <1>7 DEF ReadLine, vars, Owing
  <2>2. ~Misused(l) => Left' = Due(l)
    <3>1. Due(l) \in Nat
      BY DueIs
    <3>2. ~Misused(l) => Left' = Due(l) + 0
      BY <2>1 DEF Left, Due
    <3> QED
      BY <3>1, <3>2
  <2>3. ~Misused(l) => lasted' + Left' >= Due(l)
    <3>1. Due(l) \in Nat
      BY DueIs
    <3> HIDE DEF Left
    <3> QED
      BY <1>1, <2>1, <2>2, <3>1
  <2>4. (Misused(line))' = Misused(l) /\ Due(line)' = Due(l)
    BY <2>1 DEF Misused, Due, Scaled, Pauses, Hangs, Resolves
  <2> QED
    BY <2>1, <2>3, <2>4 DEF Owing
<1>8. CASE Frame
  <2>1. /\ at' = at /\ at = "run" /\ line' = line /\ lasted' = lasted /\ pc' = "away"
        /\ line.cmd = "doom"
    BY <1>8 DEF Frame, Ending, vars
  <2>2. line \in Lines
    BY <2>1 DEF Owing
  <2>3. Due(line) = 0
    <3>1. Pauses(line) = <<>>
      BY <2>1 DEF Pauses
    <3>2. Scaled(<<>>) = <<>>
      BY DEF Scaled
    <3> QED
      BY <3>1, <3>2, TotalOf DEF Due
  <2>4. Left' \in Nat
    <3>1. Total(rest)' \in Nat
      BY <1>2
    <3> QED
      BY <2>1, <3>1 DEF Left
  <2>5. lasted' + Left' >= Due(line)
    <3>1. \A x, b \in Nat : b + x >= 0
      OBVIOUS
    <3>2. lasted' = lasted /\ lasted \in Nat
      BY <1>1, <2>1
    <3> QED
      BY <2>3, <2>4, <3>1, <3>2, Zenon
  <2>6. Due(line)' = Due(line)
    BY <2>1 DEF Due, Scaled, Pauses, Hangs, Resolves
  <2> QED
    BY <2>1, <2>2, <2>5, <2>6 DEF Owing
<1>9. CASE Booted
  BY <1>9 DEF Booted, vars, Owing
<1>10. CASE Return
  BY <1>10 DEF Return, Owing
<1>11. CASE Halt
  BY <1>11 DEF Halt, Owing
<1>12. CASE Reset
  BY <1>12 DEF Reset, Owing
<1>13. CASE Done
  BY <1>13 DEF Done, Ending, vars, Owing
<1> QED
  BY <1>3, <1>4, <1>5, <1>6, <1>7, <1>8, <1>9, <1>10, <1>11, <1>12, <1>13
  DEF ShellNext, Thread

THEOREM LastsInvariance == ShellSpec => []LastsInv
<1>1. ShellInit => LastsInv
  <2>1. ShellInit => Owing
    BY DEF ShellInit, Owing
  <2> QED
    BY <2>1, ShellInitInv DEF LastsInv
<1>2. LastsInv /\ [ShellNext]_shellVars => LastsInv'
  BY ShellNextInv, OwingStep DEF LastsInv
<1> QED
  BY <1>1, <1>2, PTL DEF ShellSpec

\* Whichever pauses the commands make, at whatever length and scale, a command is
\* not over before as many ticks were counted as all its pauses take together.
THEOREM CommandsLast == ShellSpec => Lasts
<1>1. LastsInv /\ [ShellNext]_shellVars
        => [(Ending /\ ~Misused(line) /\ at' # at)
              => lasted >= Total(Scaled(Pauses(line)))]_shellVars
  <2> SUFFICES ASSUME LastsInv, Ending, ~Misused(line)
               PROVE  lasted >= Due(line)
    BY DEF Due
  <2>1. at = "run" /\ pc = "away" /\ rest = <<>> /\ line \in Lines
    BY DEF Ending, LastsInv, Owing
  <2>2. Due(line) \in Nat /\ Due(line) <= MaxLasted /\ MaxLasted \in Nat
        /\ lasted \in 0 .. MaxLasted
    BY <2>1, DueIs, Numbers DEF LastsInv
  <2>3. Left = 0
    BY <2>1, TotalOf DEF Left
  <2>4. lasted < MaxLasted => lasted + Left >= Due(line)
    BY <2>1 DEF LastsInv, Owing
  <2> QED
    BY <2>2, <2>3, <2>4
<1> QED
  BY <1>1, LastsInvariance, PTL DEF ShellSpec, Lasts
=============================================================================
