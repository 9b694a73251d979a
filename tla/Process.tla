------------------------------ MODULE Process ------------------------------
(***************************************************************************)
(* The process table of process.c, the operations of signal.c and of the   *)
(* shell on it, and the timer tick that should schedule it.                *)
(*                                                                         *)
(* current_proc is NULL from process_init on: nothing in the kernel ever   *)
(* sets it to a process.  So scheduler_tick returns at its second test,    *)
(* and process_exit, process_sleep, process_block, scheduler_yield and     *)
(* the default action of a signal return without doing anything; they are  *)
(* no actions here.  The shell runs one command at a time, and the tick    *)
(* touches nothing the commands touch, so a command is one step.           *)
(*                                                                         *)
(* Memory is the set of clear pages of pmm.c, taken lowest first; the heap *)
(* is what process_create does to it.                                      *)
(***************************************************************************)
EXTENDS Integers, FiniteSets, FiniteSetsExt

CONSTANTS
    MAX_PROCESSES,  \* slots (32)
    STACK_PAGES,    \* PROCESS_KERNEL_STACK / PMM_PAGE_SIZE (2)
    HEAP_PAGES,     \* pages heap_expand takes for a user stack (3)
    KERNEL_PAGES,   \* pages of the kernel image
    BASE_PAGE,      \* the page of the address create_kernel_stack computes
    Pools,          \* the clear pages when the shell starts
    Names,          \* names processes are given; fork's is "child"
    MaxPid,         \* bound: no process is created after this pid
    MaxTicks        \* bound: ticks_count is kept modulo this

ASSUME ProcessAssumption ==
    /\ {MAX_PROCESSES, STACK_PAGES, HEAP_PAGES, MaxPid, MaxTicks} \subseteq Nat \ {0}
    /\ BASE_PAGE \in KERNEL_PAGES /\ KERNEL_PAGES \subseteq Nat \ {0}
    /\ \A clear \in Pools : clear \subseteq Nat /\ IsFiniteSet(clear)

VARIABLES
    proc,      \* processes[]: slot -> [pid, state, name, kernel_stack]
    next_pid,
    pool,      \* clear pages
    wiped,     \* kernel pages that were filled with zeroes
    ticks,     \* ticks_count
    born       \* history: pids process_create returned

vars == <<proc, next_pid, pool, wiped, ticks, born>>

Slots == 0 .. MAX_PROCESSES - 1

\* The empty string, in a slot that memset has cleared.
NoName == "none"

States == {"READY", "RUNNING", "BLOCKED", "TERMINATED"}

Signals == {"KILL", "STOP", "CONT", "TERM"}

Live(s) == proc[s].state # "TERMINATED"

Init ==
    /\ proc = [s \in Slots |-> [pid |-> 0, state |-> "TERMINATED", name |-> NoName,
                                kernel_stack |-> 0]]
    /\ next_pid = 1
    /\ pool \in Pools
    /\ wiped = {}
    /\ ticks = 0
    /\ born = {}

-----------------------------------------------------------------------------
(* Memory.                                                                 *)

\* n times pmm_alloc_page, stopping at the first 0: page 0, or no page at all.
Take(clear, n) ==
    LET wanted == {p \in clear : Cardinality({q \in clear : q < p}) < n}
    IN  IF 0 \in clear
        THEN [ok |-> FALSE, left |-> clear \ {0}, zeroed |-> {}]
        ELSE [ok |-> Cardinality(wanted) = n, left |-> clear \ wanted, zeroed |-> wanted]

\* Mutant: a kernel process gets a user stack, too.
StacksBoth(clear, user) ==
    LET kernel == Take(clear, STACK_PAGES)
        heap == Take(kernel.left, HEAP_PAGES)
        zeroed == kernel.zeroed \cup heap.zeroed
    IN  IF ~kernel.ok THEN kernel
        ELSE [ok |-> heap.ok, left |-> heap.left, zeroed |-> zeroed]

\* What process_create takes: a kernel stack and, for a user process, a stack on
\* the heap, whose free blocks are all smaller.  Pages taken before a refusal stay
\* taken; when the heap refuses, pmm_free_page is given the address of a page of
\* the kernel image, and clears its bit if it is set.
Stacks(clear, user) ==
    LET kernel == Take(clear, STACK_PAGES)
        heap == Take(kernel.left, HEAP_PAGES)
        zeroed == kernel.zeroed \cup heap.zeroed
    IN  IF ~kernel.ok \/ ~user THEN kernel
        ELSE IF heap.ok
        THEN [ok |-> TRUE, left |-> heap.left, zeroed |-> zeroed]
        ELSE [ok |-> FALSE, left |-> heap.left \cup {BASE_PAGE}, zeroed |-> zeroed]

-----------------------------------------------------------------------------
(* process.c, and the shell commands "fork" and "exec".                    *)

\* find_slot.
FirstDead(s) == ~Live(s) /\ \A t \in Slots : t < s => Live(t)

\* Mutant: the new pid is not consumed.
FillSamePid(s, name) ==
    /\ proc' = [proc EXCEPT ![s] = [pid |-> next_pid, state |-> "READY",
                                    name |-> name, kernel_stack |-> BASE_PAGE]]
    /\ next_pid' = next_pid
    /\ born' = born \cup {next_pid}

Fill(s, name) ==
    /\ proc' = [proc EXCEPT ![s] = [pid |-> next_pid, state |-> "READY",
                                    name |-> name, kernel_stack |-> BASE_PAGE]]
    /\ next_pid' = next_pid + 1
    /\ born' = born \cup {next_pid}

\* The slot was cleared first, which made it READY with pid 0; it stays that way
\* when there is no memory.
Abandon(s) ==
    /\ proc' = [proc EXCEPT ![s] = [pid |-> 0, state |-> "READY",
                                    name |-> NoName, kernel_stack |-> 0]]
    /\ UNCHANGED <<next_pid, born>>

Create(name, user) ==
    LET got == Stacks(pool, user)
    IN  /\ next_pid <= MaxPid
        /\ \E s \in Slots :
             /\ FirstDead(s)
             /\ IF got.ok THEN Fill(s, name) ELSE Abandon(s)
        /\ pool' = got.left
        /\ wiped' = wiped \cup (got.zeroed \cap KERNEL_PAGES)
        /\ UNCHANGED ticks

\* Mutant: process_get does not look at the state.
MatchesDead(pid) == {s \in Slots : proc[s].pid = pid}

\* process_get: the first slot with this pid that is not terminated.
Matches(pid) == {s \in Slots : proc[s].pid = pid /\ Live(s)}

Get(pid) == Min(Matches(pid))

SetState(pid, state) == proc' = [proc EXCEPT ![Get(pid)].state = state]

Unblock(pid) ==
    /\ Matches(pid) # {}
    /\ proc[Get(pid)].state = "BLOCKED"
    /\ SetState(pid, "READY")
    /\ UNCHANGED <<next_pid, pool, wiped, ticks, born>>

-----------------------------------------------------------------------------
(* The shell commands "kill" and "killall".                                *)

Kill(pid) ==
    /\ Matches(pid) # {}
    /\ SetState(pid, "TERMINATED")
    /\ UNCHANGED <<next_pid, pool, wiped, ticks, born>>

\* The loops of ps, top, killall and pgrep: i counts slots and is used as a pid.
Listed == {Get(i) : i \in {j \in Slots : Matches(j) # {}}}

KillAll(name) ==
    /\ proc' = [s \in Slots |-> IF s \in Listed /\ proc[s].name = name
                                THEN [proc[s] EXCEPT !.state = "TERMINATED"]
                                ELSE proc[s]]
    /\ UNCHANGED <<next_pid, pool, wiped, ticks, born>>

-----------------------------------------------------------------------------
(* signal.c.  No handler can be installed, so every other signal takes its *)
(* default action, which is done to the current process: to nobody.        *)

SignalSend(pid, sig) ==
    /\ Matches(pid) # {}
    /\ CASE sig = "KILL" -> SetState(pid, "TERMINATED")
         [] sig = "STOP" -> SetState(pid, "BLOCKED")
         [] sig = "CONT" /\ proc[Get(pid)].state = "BLOCKED" -> SetState(pid, "READY")
         [] OTHER -> UNCHANGED proc
    /\ UNCHANGED <<next_pid, pool, wiped, ticks, born>>

\* timer_callback: count, and call scheduler_tick, which finds no current process.
Tick ==
    /\ ticks' = (ticks + 1) % MaxTicks
    /\ UNCHANGED <<proc, next_pid, pool, wiped, born>>

-----------------------------------------------------------------------------
\* Nothing can be said of the machine once a page of the kernel is overwritten.
KernelIntact == wiped = {}

Fork == Create("child", FALSE)
Exec == \E name \in Names : Create(name, TRUE)

Command ==
    \/ Fork
    \/ Exec
    \/ \E pid \in 0 .. MaxPid : Kill(pid) \/ Unblock(pid)
    \/ \E name \in Names \cup {"child"} : KillAll(name)
    \/ \E pid \in 0 .. MaxPid, sig \in Signals : SignalSend(pid, sig)

Next == KernelIntact /\ (Command \/ Tick)

Spec == Init /\ [][Next]_vars

-----------------------------------------------------------------------------
(* Properties.                                                             *)

TypeOK ==
    /\ proc \in [Slots -> [pid : 0 .. MaxPid, state : States,
                           name : Names \cup {"child", NoName},
                           kernel_stack : {0, BASE_PAGE}]]
    /\ next_pid \in 1 .. MaxPid + 1
    /\ pool \subseteq Nat /\ IsFiniteSet(pool)
    /\ wiped \subseteq KERNEL_PAGES
    /\ ticks \in 0 .. MaxTicks - 1
    /\ born \subseteq 1 .. MaxPid

\* A pid names one process: process_get cannot pick between two, whatever was
\* terminated, failed or reused in between (process.c:18-25, 69-132).
PidsUnique ==
    \A s, t \in Slots :
        (Live(s) /\ Live(t) /\ proc[s].pid = proc[t].pid /\ proc[s].pid # 0) => s = t

\* A process that was terminated does not come back: a slot becomes live again
\* only for a pid never seen before, or for none.
NoResurrection ==
    [][\A s \in Slots : (~Live(s) /\ proc'[s].state # "TERMINATED")
         => proc'[s].pid \notin born]_vars

\* A slot becomes live, and no pid is returned.
LosesSlot == born' = born /\ \E s \in Slots : ~Live(s) /\ Live(s)'

\* When fork and exec cost a slot and give no process (process.c:46-91).  While page
\* 0 is clear they always do, however much memory there is: the address of that page
\* reads as a refusal.  It is in use afterwards, and no failure gives it back, so
\* one slot is lost to it and no more: to the first fork or exec after entry.asm
\* (line 21) kept pmm_init from being called.  While page 0 is in use, they do when
\* fewer pages are clear than the command asks for, fork for a kernel stack and exec
\* for both, and not otherwise.  Nothing else loses a slot, and pid 0 finds the
\* slots that are lost.
SlotLoss ==
    [][/\ 0 \in pool /\ (Fork \/ Exec) => LosesSlot /\ 0 \notin pool'
       /\ 0 \notin pool =>
            /\ 0 \notin pool'
            /\ Fork => (LosesSlot <=> Cardinality(pool) < STACK_PAGES)
            /\ Exec => (LosesSlot <=> Cardinality(pool) < STACK_PAGES + HEAP_PAGES)
       /\ LosesSlot =>
            /\ Fork \/ Exec
            /\ \A s \in Slots : ~Live(s) /\ proc'[s].state # "TERMINATED"
                               => proc'[s].pid = 0]_vars
=============================================================================
