------------------------------- MODULE Timer -------------------------------
(***************************************************************************)
(* The tick counter of timer.c and the loop of timer_sleep that waits on   *)
(* it.  The test of the loop and hlt are two steps: a tick that comes      *)
(* between them does not wake the CPU.  The counter is a uint32_t and      *)
(* wraps; the loop compares a difference, which is meant to survive that.  *)
(***************************************************************************)
EXTENDS Integers

CONSTANTS
    WORD,      \* the counter is modulo WORD (2^32)
    Requests   \* arguments of timer_sleep

\* A request of WORD - 1 is left out: a tick between test and hlt takes the
\* difference past it, to 0, and the sleep starts over.
ASSUME TimerAssumption ==
    /\ WORD \in Nat /\ WORD >= 3
    /\ Requests \subseteq 0 .. WORD - 2

VARIABLES
    ticks_count,
    pc,        \* the thread: "away", or in timer_sleep at "test", "hlt", "halted"
    start,     \* timer_sleep's local variable
    ms,        \* its argument
    elapsed,   \* history: ticks since the call
    ran        \* the thread has executed something since the last tick

vars == <<ticks_count, pc, start, ms, elapsed, ran>>

Init ==
    /\ ticks_count = 0
    /\ pc = "away"
    /\ start = 0
    /\ ms = 0
    /\ elapsed = 0
    /\ ran = TRUE

Count(t) == (t + 1) % WORD

\* timer_callback, reached from irq_handler; scheduler_tick does nothing.  A tick
\* lasts 10 ms, so a thread that can run takes a step between two of them.
Tick ==
    /\ ran \/ pc = "halted"
    /\ ticks_count' = Count(ticks_count)
    /\ elapsed' = IF pc = "away" THEN elapsed ELSE elapsed + 1
    /\ pc' = IF pc = "halted" THEN "test" ELSE pc
    /\ ran' = (pc = "away")
    /\ UNCHANGED <<start, ms>>

\* Any other interrupt, the keyboard's for one, ends hlt as well.
OtherIrq ==
    /\ pc = "halted"
    /\ pc' = "test"
    /\ UNCHANGED <<ticks_count, start, ms, elapsed, ran>>

Sleep(request) ==
    /\ pc = "away"
    /\ pc' = "test"
    /\ start' = ticks_count
    /\ ms' = request
    /\ elapsed' = 0
    /\ ran' = TRUE
    /\ UNCHANGED ticks_count

\* Mutant: the loop compares with the tick to wake at.
WaitsForTick == ticks_count < (start + ms) % WORD

\* ticks_count - start < ms, in unsigned arithmetic.
Waits == (WORD + ticks_count - start) % WORD < ms

Test ==
    /\ pc = "test"
    /\ pc' = IF Waits THEN "hlt" ELSE "away"
    /\ ran' = TRUE
    /\ UNCHANGED <<ticks_count, start, ms, elapsed>>

\* Mutant: interrupts are off when hlt is reached.
HltForGood ==
    /\ pc = "hlt"
    /\ pc' = "off"
    /\ ran' = TRUE
    /\ UNCHANGED <<ticks_count, start, ms, elapsed>>

Hlt ==
    /\ pc = "hlt"
    /\ pc' = "halted"
    /\ ran' = TRUE
    /\ UNCHANGED <<ticks_count, start, ms, elapsed>>

Next ==
    \/ Tick
    \/ OtherIrq
    \/ \E request \in Requests : Sleep(request)
    \/ Test
    \/ Hlt

\* The thread runs whenever it is not halted, and IRQ0 keeps coming.
Spec == Init /\ [][Next]_vars /\ WF_vars(Test \/ Hlt) /\ WF_vars(Tick)

-----------------------------------------------------------------------------
(* Properties.                                                             *)

TypeOK ==
    /\ ticks_count \in 0 .. WORD - 1
    /\ pc \in {"away", "test", "hlt", "halted"}
    /\ start \in 0 .. WORD - 1
    /\ ms \in Requests \cup {0}
    /\ elapsed \in Nat
    /\ ran \in BOOLEAN

\* timer_sleep(n) returns when n ticks have passed since the call, or one more
\* if one fell between the test and hlt: never earlier, whichever interrupts
\* end hlt and wherever the counter wraps meanwhile (timer.c:17-21).
OnTime ==
    [][(pc = "test" /\ pc' = "away") => elapsed \in {ms, ms + 1}]_vars
=============================================================================
