--------------------------- MODULE ProcessProofs ---------------------------
(***************************************************************************)
(* Proofs about Process, for every number of slots, stack and pool sizes:  *)
(* the type invariant, that pids are unique, that a terminated process     *)
(* does not come back, and when a creation loses its slot.                 *)
(***************************************************************************)
EXTENDS Process, Basics, FiniteSetTheorems, TLAPS

\* What pmm has to give is finitely many pages.
Pages == {c \in SUBSET Nat : IsFiniteSet(c)}

LEMMA Bounds ==
    /\ MaxPid \in Nat \ {0} /\ MaxTicks \in Nat \ {0}
    /\ BASE_PAGE \in Nat
    /\ Pools \subseteq Pages
  BY ProcessAssumption DEF Pages

\* process_get returns a live slot with the pid it was asked for.
LEMMA GetFinds ==
    \A pid : Matches(pid) # {} =>
        /\ Get(pid) \in Slots
        /\ Live(Get(pid))
        /\ proc[Get(pid)].pid = pid
<1> SUFFICES ASSUME NEW pid, Matches(pid) # {}
             PROVE  Get(pid) \in Matches(pid)
  BY DEF Matches
<1>1. Matches(pid) \in SUBSET Nat
  BY ProcessAssumption DEF Matches, Slots
<1> QED
  BY <1>1, MinIs DEF Get

-----------------------------------------------------------------------------
(* Memory: which pages n allocations take, and when a creation gets its own. *)

\* The lowest k pages of a set.
Lowest(c, T, k) ==
    /\ T \subseteq c
    /\ IsFiniteSet(T) /\ Cardinality(T) = k
    /\ \A t \in T, q \in c : q < t => q \in T

LEMMA LowestExist ==
    ASSUME NEW c \in Pages, NEW n \in Nat, n <= Cardinality(c)
    PROVE  \E T : Lowest(c, T, n)
<1> DEFINE S == {k \in 0 .. n : \E T : Lowest(c, T, k)}
<1>1. 0 \in S
  <2>1. Lowest(c, {}, 0)
    BY FS_EmptySet DEF Lowest
  <2> QED
    BY <2>1
<1>2. ASSUME NEW i \in 1 .. n, i - 1 \in S PROVE i \in S
  <2>1. PICK T : Lowest(c, T, i - 1)
    BY <1>2
  <2>2. c \subseteq Nat /\ IsFiniteSet(c) /\ Cardinality(c) \in Nat
    BY FS_CardinalityType DEF Pages
  <2>3. c \ T # {}
    <3>1. SUFFICES ASSUME c \ T = {} PROVE FALSE
      OBVIOUS
    <3>2. T = c
      BY <2>1, <3>1 DEF Lowest
    <3>3. Cardinality(c) = i - 1
      BY <2>1, <3>2 DEF Lowest
    <3> QED
      BY <2>2, <3>3
  <2>4. PICK m \in c \ T : \A q \in c \ T : m <= q
    <3>1. c \ T \in SUBSET Nat
      BY <2>2
    <3> QED
      BY <2>3, <3>1, Least
  <2>5. IsFiniteSet(T \cup {m}) /\ Cardinality(T \cup {m}) = i
    <3>1. IsFiniteSet(T) /\ Cardinality(T) = i - 1 /\ m \notin T
      BY <2>1, <2>4 DEF Lowest
    <3>2. IsFiniteSet(T \cup {m}) /\ Cardinality(T \cup {m}) = Cardinality(T) + 1
      BY <3>1, FS_AddElement
    <3> QED
      BY <3>1, <3>2
  <2>6. ASSUME NEW t \in T \cup {m}, NEW q \in c, q < t PROVE q \in T \cup {m}
    <3>1. CASE t \in T
      BY <2>1, <2>6, <3>1 DEF Lowest
    <3>2. CASE t = m
      <4>1. ~(m <= q)
        BY <2>2, <2>4, <2>6, <3>2
      <4> QED
        BY <2>4, <2>6, <4>1
    <3> QED
      BY <3>1, <3>2
  <2>7. Lowest(c, T \cup {m}, i)
    BY <2>1, <2>4, <2>5, <2>6 DEF Lowest
  <2> QED
    BY <2>7
<1>3. \A i \in 0 .. n : i \in S
  <2> HIDE DEF S
  <2> QED
    BY <1>1, <1>2, Climb
<1> QED
  BY <1>3

\* The pages pmm_alloc_page takes in n calls are the lowest n.
LEMMA WantedAreLowest ==
    ASSUME NEW c \in Pages, NEW n \in Nat, n <= Cardinality(c)
    PROVE  Lowest(c, {p \in c : Cardinality({q \in c : q < p}) < n}, n)
<1>1. PICK T : Lowest(c, T, n)
  BY LowestExist
<1> DEFINE below(p) == {q \in c : q < p}
<1>2. c \subseteq Nat /\ IsFiniteSet(c) /\ Cardinality(c) \in Nat
  BY FS_CardinalityType DEF Pages
<1>3. \A p \in c : IsFiniteSet(below(p)) /\ Cardinality(below(p)) \in Nat
  <2> TAKE p \in c
  <2>1. below(p) \in SUBSET c
    OBVIOUS
  <2> HIDE DEF below
  <2> QED
    BY <1>2, <2>1, FS_Subset, FS_CardinalityType
<1>4. ASSUME NEW p \in T PROVE Cardinality(below(p)) < n
  <2>1. below(p) \in SUBSET (T \ {p})
    <3> SUFFICES ASSUME NEW q \in c, q < p PROVE q \in T /\ q # p
      OBVIOUS
    <3>1. p \in Nat /\ q \in Nat /\ q \in T
      BY <1>1, <1>2 DEF Lowest
    <3> QED
      BY <3>1
  <2>2. IsFiniteSet(T \ {p}) /\ Cardinality(T \ {p}) = n - 1
    <3>1. IsFiniteSet(T) /\ Cardinality(T) = n /\ p \in T
      BY <1>1 DEF Lowest
    <3> QED
      BY <3>1, FS_RemoveElement
  <2>3. p \in c
    BY <1>1 DEF Lowest
  <2> HIDE DEF below
  <2>4. Cardinality(below(p)) <= n - 1
    BY <2>1, <2>2, FS_Subset
  <2> QED
    BY <1>3, <2>3, <2>4
<1>5. ASSUME NEW p \in c \ T PROVE ~(Cardinality(below(p)) < n)
  <2>1. T \in SUBSET below(p)
    <3> SUFFICES ASSUME NEW t \in T PROVE t < p
      BY <1>1 DEF Lowest
    <3>1. t \in c /\ t # p /\ ~(p < t)
      BY <1>1, <1>5 DEF Lowest
    <3> QED
      BY <1>2, <3>1
  <2> HIDE DEF below
  <2>2. Cardinality(T) <= Cardinality(below(p)) /\ Cardinality(T) = n
    BY <1>1, <1>3, <2>1, FS_Subset DEF Lowest
  <2> QED
    BY <1>3, <2>2
<1>6. {p \in c : Cardinality({q \in c : q < p}) < n} = T
  <2>1. {p \in c : Cardinality(below(p)) < n} = T
    <3>1. T \subseteq c
      BY <1>1 DEF Lowest
    <3> HIDE DEF below
    <3> QED
      BY <1>4, <1>5, <3>1
  <2> QED
    BY <2>1
<1> QED
  BY <1>1, <1>6

\* n calls are answered when page 0 is in use and n pages are clear, and not
\* otherwise; page 0 is in use afterwards.
LEMMA TakeTakes ==
    ASSUME NEW c \in Pages, NEW n \in Nat
    PROVE  /\ Take(c, n).left \in Pages
           /\ 0 \notin Take(c, n).left
           /\ Take(c, n).ok <=> 0 \notin c /\ n <= Cardinality(c)
           /\ Take(c, n).ok => Cardinality(Take(c, n).left) = Cardinality(c) - n
<1> DEFINE wanted == {p \in c : Cardinality({q \in c : q < p}) < n}
<1>1. c \subseteq Nat /\ IsFiniteSet(c) /\ Cardinality(c) \in Nat
  BY FS_CardinalityType DEF Pages
<1>2. wanted \subseteq c /\ IsFiniteSet(c \ {0}) /\ IsFiniteSet(c \ wanted)
  BY <1>1, FS_Difference
<1>3. CASE 0 \in c
  <2>1. ~Take(c, n).ok /\ Take(c, n).left = c \ {0}
    BY <1>3 DEF Take
  <2> QED
    BY <1>1, <1>2, <1>3, <2>1 DEF Pages
<1>4. CASE 0 \notin c
  <2>1. Take(c, n).left = c \ wanted /\ (Take(c, n).ok <=> Cardinality(wanted) = n)
    BY <1>4 DEF Take
  <2>2. n <= Cardinality(c) => Cardinality(wanted) = n
    BY WantedAreLowest DEF Lowest
  <2>3. c \cap wanted = wanted
    OBVIOUS
  <2> HIDE DEF wanted
  <2>4. /\ Cardinality(wanted) <= Cardinality(c)
        /\ Cardinality(c \ wanted) = Cardinality(c) - Cardinality(wanted)
    BY <1>1, <1>2, <2>3, FS_Difference, FS_Subset
  <2>5. c \ wanted \in Pages
    BY <1>1, <1>2 DEF Pages
  <2> QED
    BY <1>1, <1>4, <2>1, <2>2, <2>4, <2>5
<1> QED
  BY <1>3, <1>4

\* The pages process_create asks for.
Wants(user) == IF user THEN STACK_PAGES + HEAP_PAGES ELSE STACK_PAGES

\* Whatever process_create takes, what is left in pmm is finitely many pages, and
\* not page 0; it gets what it asks for when page 0 was in use and as many pages
\* were clear, and not otherwise.
LEMMA StacksGive ==
    ASSUME NEW clear \in Pages, NEW user \in BOOLEAN
    PROVE  /\ Stacks(clear, user).left \in Pages
           /\ 0 \notin Stacks(clear, user).left
           /\ Stacks(clear, user).ok <=> 0 \notin clear /\ Wants(user) <= Cardinality(clear)
<1> DEFINE kernel == Take(clear, STACK_PAGES)
           heap == Take(kernel.left, HEAP_PAGES)
<1>1. STACK_PAGES \in Nat /\ HEAP_PAGES \in Nat /\ BASE_PAGE \in Nat /\ BASE_PAGE # 0
  BY ProcessAssumption
<1>2. Cardinality(clear) \in Nat
  BY FS_CardinalityType DEF Pages
<1>3. /\ kernel.left \in Pages /\ 0 \notin kernel.left
      /\ kernel.ok <=> 0 \notin clear /\ STACK_PAGES <= Cardinality(clear)
      /\ kernel.ok => Cardinality(kernel.left) = Cardinality(clear) - STACK_PAGES
  BY <1>1, TakeTakes
<1>4. /\ heap.left \in Pages /\ 0 \notin heap.left
      /\ heap.ok <=> HEAP_PAGES <= Cardinality(kernel.left)
  BY <1>1, <1>3, TakeTakes
<1>5. heap.left \cup {BASE_PAGE} \in Pages /\ 0 \notin heap.left \cup {BASE_PAGE}
  <2> HIDE DEF heap
  <2> QED
    BY <1>1, <1>4, FS_AddElement DEF Pages
<1>6. Stacks(clear, user).left \in {kernel.left, heap.left, heap.left \cup {BASE_PAGE}}
  BY DEF Stacks
<1>7. Stacks(clear, user).ok <=> kernel.ok /\ (user => heap.ok)
  BY DEF Stacks
<1> HIDE DEF kernel, heap
<1>8. Stacks(clear, user).ok <=> 0 \notin clear /\ Wants(user) <= Cardinality(clear)
  BY <1>1, <1>2, <1>3, <1>4, <1>7 DEF Wants
<1> QED
  BY <1>3, <1>4, <1>5, <1>6, <1>8

-----------------------------------------------------------------------------
(* What a step does to the table.                                          *)

\* What every step but a creation does: states of slots, and no dead one revived.
Relabel ==
    /\ proc' \in [Slots -> [pid : 0 .. MaxPid, state : States,
                            name : Names \cup {"child", NoName},
                            kernel_stack : {0, BASE_PAGE}]]
    /\ \A s \in Slots : /\ proc'[s].pid = proc[s].pid
                        /\ Live(s)' => Live(s)
    /\ UNCHANGED <<next_pid, pool, wiped, born>>

\* What a creation does to the table: the slot it takes was dead, and holds
\* next_pid or no pid afterwards.
Created ==
    \E s \in Slots, r \in [pid : {0, next_pid}, state : {"READY"},
                           name : Names \cup {"child", NoName},
                           kernel_stack : {0, BASE_PAGE}] :
        /\ next_pid <= MaxPid
        /\ ~Live(s)
        /\ proc' = [proc EXCEPT ![s] = r]
        /\ \/ r.pid = 0 /\ UNCHANGED <<next_pid, born>>
           \/ r.pid = next_pid /\ next_pid' = next_pid + 1 /\ born' = born \cup {next_pid}

LEMMA SetStateRelabels ==
    ASSUME TypeOK, NEW pid, Matches(pid) # {}, NEW st \in States, SetState(pid, st),
           UNCHANGED <<next_pid, pool, wiped, born>>
    PROVE  Relabel
<1>1. Get(pid) \in Slots /\ Live(Get(pid))
  BY GetFinds
<1> QED
  BY <1>1 DEF TypeOK, SetState, Relabel, Live

LEMMA KillAllRelabels ==
    ASSUME TypeOK, NEW name, KillAll(name)
    PROVE  Relabel
<1>1. \A s \in Slots : proc'[s] = IF s \in Listed /\ proc[s].name = name
                                  THEN [proc[s] EXCEPT !.state = "TERMINATED"]
                                  ELSE proc[s]
  BY DEF KillAll
<1>2. \A s \in Slots : /\ proc'[s] \in [pid : 0 .. MaxPid, state : States,
                                        name : Names \cup {"child", NoName},
                                        kernel_stack : {0, BASE_PAGE}]
                       /\ proc'[s].pid = proc[s].pid
                       /\ Live(s)' => Live(s)
  BY <1>1 DEF TypeOK, States, Live
<1>3. proc' = [s \in Slots |-> proc'[s]]
  BY DEF KillAll
<1> QED
  BY <1>2, <1>3 DEF KillAll, Relabel

LEMMA SignalSendRelabels ==
    ASSUME TypeOK, NEW pid, NEW sig \in Signals, SignalSend(pid, sig)
    PROVE  Relabel
<1>1. Matches(pid) # {} /\ UNCHANGED <<next_pid, pool, wiped, born>>
  BY DEF SignalSend
<1>2. CASE UNCHANGED proc
  BY <1>1, <1>2 DEF Relabel, TypeOK, Live
<1>3. CASE \E st \in States : SetState(pid, st)
  BY <1>1, <1>3, SetStateRelabels
<1> QED
  BY <1>2, <1>3 DEF SignalSend, Signals, States

LEMMA CreateCreates ==
    ASSUME TypeOK, NEW name \in Names \cup {"child"}, NEW user \in BOOLEAN, Create(name, user)
    PROVE  /\ Created
           /\ pool' \in Pages
           /\ wiped' \subseteq KERNEL_PAGES
           /\ UNCHANGED ticks
<1>1. pool' \in Pages /\ wiped' \subseteq KERNEL_PAGES /\ UNCHANGED ticks
  <2>1. pool' = Stacks(pool, user).left
    BY DEF Create
  <2>2. pool \in Pages
    BY DEF TypeOK, Pages
  <2> QED
    BY <2>1, <2>2, StacksGive DEF Create, TypeOK
<1>2. PICK s \in Slots :
        /\ next_pid <= MaxPid
        /\ ~Live(s)
        /\ \/ /\ proc' = [proc EXCEPT ![s] = [pid |-> next_pid, state |-> "READY",
                                              name |-> name, kernel_stack |-> BASE_PAGE]]
              /\ next_pid' = next_pid + 1
              /\ born' = born \cup {next_pid}
           \/ /\ proc' = [proc EXCEPT ![s] = [pid |-> 0, state |-> "READY",
                                              name |-> NoName, kernel_stack |-> 0]]
              /\ UNCHANGED <<next_pid, born>>
  BY DEF Create, Fill, Abandon, FirstDead
<1> DEFINE R == [pid : {0, next_pid}, state : {"READY"}, name : Names \cup {"child", NoName},
                 kernel_stack : {0, BASE_PAGE}]
           given == [pid |-> next_pid, state |-> "READY", name |-> name,
                     kernel_stack |-> BASE_PAGE]
           none == [pid |-> 0, state |-> "READY", name |-> NoName, kernel_stack |-> 0]
<1>3. given \in R /\ given.pid = next_pid /\ none \in R /\ none.pid = 0
  OBVIOUS
<1>4. CASE proc' = [proc EXCEPT ![s] = given] /\ next_pid' = next_pid + 1
           /\ born' = born \cup {next_pid}
  <2> HIDE DEF given
  <2> QED
    BY <1>1, <1>2, <1>3, <1>4 DEF Created
<1>5. CASE proc' = [proc EXCEPT ![s] = none] /\ UNCHANGED <<next_pid, born>>
  <2> HIDE DEF none
  <2> QED
    BY <1>1, <1>2, <1>3, <1>5 DEF Created
<1> QED
  BY <1>2, <1>4, <1>5

Creates == Fork \/ Exec

\* Every step but a creation relabels, and may count a tick.
LEMMA Relabels ==
    ASSUME TypeOK, [Next]_vars, ~Creates
    PROVE  Relabel /\ ticks' \in 0 .. MaxTicks - 1
<1>1. ASSUME NEW pid \in 0 .. MaxPid, Kill(pid) PROVE Relabel
  BY <1>1, SetStateRelabels DEF Kill, States
<1>2. ASSUME NEW pid \in 0 .. MaxPid, Unblock(pid) PROVE Relabel
  BY <1>2, SetStateRelabels DEF Unblock, States
<1>3. CASE Tick
  <2>1. MaxTicks \in Nat \ {0} /\ ticks \in 0 .. MaxTicks - 1
    BY Bounds DEF TypeOK
  <2>2. (ticks + 1) % MaxTicks \in 0 .. MaxTicks - 1
    BY <2>1
  <2> QED
    BY <1>3, <2>2 DEF Tick, Relabel, TypeOK, Live
<1>4. CASE UNCHANGED vars
  BY <1>4 DEF vars, Relabel, TypeOK, Live
<1>5. CASE Command
  <2>1. ~Fork /\ ~Exec
    BY DEF Creates
  <2>2. CASE \E pid \in 0 .. MaxPid : Kill(pid) \/ Unblock(pid)
    BY <1>1, <1>2, <2>2 DEF Kill, Unblock, TypeOK
  <2>3. CASE \E name \in Names \cup {"child"} : KillAll(name)
    BY <2>3, KillAllRelabels DEF KillAll, TypeOK
  <2>4. CASE \E pid \in 0 .. MaxPid, sig \in Signals : SignalSend(pid, sig)
    BY <2>4, SignalSendRelabels DEF SignalSend, TypeOK
  <2> QED
    BY <1>5, <2>1, <2>2, <2>3, <2>4 DEF Command
<1> QED
  BY <1>3, <1>4, <1>5 DEF Next

StepEffect ==
    /\ Created \/ Relabel
    /\ pool' \in Pages
    /\ wiped' \subseteq KERNEL_PAGES
    /\ ticks' \in 0 .. MaxTicks - 1

\* Every step creates, or relabels.
LEMMA Steps ==
    ASSUME TypeOK, [Next]_vars
    PROVE  StepEffect
<1>1. CASE Creates
  <2>1. PICK name \in Names \cup {"child"}, user \in BOOLEAN : Create(name, user)
    BY <1>1 DEF Creates, Fork, Exec
  <2> QED
    BY <2>1, CreateCreates DEF TypeOK, StepEffect
<1>2. CASE ~Creates
  <2>1. Relabel /\ ticks' \in 0 .. MaxTicks - 1
    BY <1>2, Relabels
  <2> QED
    BY <2>1 DEF Relabel, TypeOK, StepEffect, Pages
<1> QED
  BY <1>1, <1>2

(***************************************************************************)
(* The inductive invariant.  That pids are unique is inductive only with   *)
(* the fact that next_pid is past every pid in the table, and past every   *)
(* pid ever returned, dead or alive.                                       *)
(***************************************************************************)
BelowNext ==
    /\ \A s \in Slots : proc[s].pid < next_pid
    /\ \A pid \in born : pid < next_pid

Inv == TypeOK /\ BelowNext /\ PidsUnique

LEMMA InitInv == Init => Inv
<1> SUFFICES ASSUME Init PROVE Inv
  OBVIOUS
<1>1. /\ pool \in Pages
      /\ ticks \in 0 .. MaxTicks - 1
      /\ next_pid \in 1 .. MaxPid + 1
  BY Bounds DEF Init
<1>2. 0 \in 0 .. MaxPid
  BY Bounds
<1>3. TypeOK
  BY <1>1, <1>2 DEF Init, TypeOK, States, Pages
<1>4. BelowNext /\ PidsUnique
  BY DEF Init, BelowNext, PidsUnique, Live
<1> QED
  BY <1>3, <1>4 DEF Inv

LEMMA NextInv == Inv /\ [Next]_vars => Inv'
<1> SUFFICES ASSUME Inv, [Next]_vars PROVE Inv'
  OBVIOUS
<1> USE DEF Inv
<1>1. StepEffect
  BY Steps
<1>2. CASE Relabel
  <2>1. TypeOK'
    BY <1>1, <1>2 DEF Relabel, TypeOK, StepEffect, Pages
  <2>2. BelowNext'
    BY <1>2 DEF Relabel, BelowNext
  <2>3. PidsUnique'
    BY <1>2 DEF Relabel, PidsUnique, Live
  <2> QED
    BY <2>1, <2>2, <2>3
<1>3. CASE Created
  <2>1. MaxPid \in Nat /\ next_pid \in 1 .. MaxPid + 1
    BY Bounds DEF TypeOK
  <2>2. PICK s \in Slots, r \in [pid : {0, next_pid}, state : {"READY"},
                                 name : Names \cup {"child", NoName},
                                 kernel_stack : {0, BASE_PAGE}] :
          /\ next_pid <= MaxPid
          /\ ~Live(s)
          /\ proc' = [proc EXCEPT ![s] = r]
          /\ \/ r.pid = 0 /\ UNCHANGED <<next_pid, born>>
             \/ r.pid = next_pid /\ next_pid' = next_pid + 1 /\ born' = born \cup {next_pid}
    BY <1>3 DEF Created
  <2>3. \A t \in Slots : proc'[t] = IF t = s THEN r ELSE proc[t]
    BY <2>2 DEF TypeOK
  <2>4. r \in [pid : 0 .. MaxPid, state : States, name : Names \cup {"child", NoName},
               kernel_stack : {0, BASE_PAGE}]
    BY <2>1, <2>2 DEF States
  <2>5. TypeOK'
    <3>1. proc' \in [Slots -> [pid : 0 .. MaxPid, state : States,
                               name : Names \cup {"child", NoName},
                               kernel_stack : {0, BASE_PAGE}]]
      BY <2>2, <2>4 DEF TypeOK
    <3>2. next_pid' \in 1 .. MaxPid + 1 /\ born' \subseteq 1 .. MaxPid
      <4>1. born \subseteq 1 .. MaxPid
        BY DEF TypeOK
      <4>2. born' = born \/ born' = born \cup {next_pid}
        BY <2>2
      <4>3. next_pid \in 1 .. MaxPid
        BY <2>1, <2>2
      <4>4. born' \subseteq 1 .. MaxPid
        BY <4>1, <4>2, <4>3
      <4> QED
        BY <2>1, <2>2, <4>4
    <3> QED
      BY <1>1, <3>1, <3>2 DEF TypeOK, StepEffect, Pages
  <2>6. \A t \in Slots : proc[t].pid \in Nat
    BY <2>1 DEF TypeOK
  <2>7. born \subseteq Nat
    BY <2>1 DEF TypeOK
  <2>8. BelowNext'
    <3>1. next_pid \in Nat \ {0} /\ next_pid' \in Nat /\ next_pid <= next_pid'
      BY <2>1, <2>2
    <3>2. r.pid < next_pid'
      BY <2>2, <3>1
    <3>3. \A t \in Slots : proc'[t].pid < next_pid'
      BY <2>3, <2>6, <3>1, <3>2 DEF BelowNext
    <3>4. ASSUME NEW pid \in born' PROVE pid < next_pid'
      <4>1. \/ pid \in born
            \/ pid = next_pid /\ next_pid' = next_pid + 1
        BY <2>2, <3>4
      <4>2. CASE pid \in born
        <5>1. pid < next_pid /\ pid \in Nat
          BY <2>7, <4>2 DEF BelowNext
        <5> QED
          BY <3>1, <5>1
      <4>3. CASE pid = next_pid /\ next_pid' = next_pid + 1
        BY <3>1, <4>3
      <4> QED
        BY <4>1, <4>2, <4>3
    <3> QED
      BY <3>3, <3>4 DEF BelowNext
  <2>9. PidsUnique'
    BY <2>1, <2>2, <2>3, <2>6 DEF BelowNext, PidsUnique, Live
  <2> QED
    BY <2>5, <2>8, <2>9
<1> QED
  BY <1>1, <1>2, <1>3 DEF StepEffect

THEOREM Invariance == Spec => []Inv
  BY InitInv, NextInv, PTL DEF Spec

\* Every variable keeps its type through every sequence of commands, signals
\* and ticks (process.h:8-33).
THEOREM TypeCorrect == Spec => []TypeOK
<1>1. Inv => TypeOK
  BY DEF Inv
<1> QED
  BY <1>1, Invariance, PTL

\* At any number of slots and under any failures, process_get finds at most one
\* process of a pid (process.c:18-25, 69-132).
THEOREM PidsAreUnique == Spec => []PidsUnique
<1>1. Inv => PidsUnique
  BY DEF Inv
<1> QED
  BY <1>1, Invariance, PTL

\* A slot that becomes live holds no pid that was ever returned before.
THEOREM DeadStayDead == Spec => NoResurrection
<1>1. Inv /\ [Next]_vars =>
        [\A s \in Slots : (~Live(s) /\ proc'[s].state # "TERMINATED")
           => proc'[s].pid \notin born]_vars
  <2> SUFFICES ASSUME Inv, [Next]_vars, NEW s \in Slots,
                      ~Live(s), proc'[s].state # "TERMINATED"
               PROVE  proc'[s].pid \notin born
    OBVIOUS
  <2>1. StepEffect
    BY Steps DEF Inv
  <2>2. ~Relabel
    BY DEF Relabel, Live
  <2>3. proc'[s].pid \in {0, next_pid}
    BY <2>1, <2>2 DEF StepEffect, Created, Inv, TypeOK, Live
  <2>4. born \subseteq 1 .. MaxPid /\ MaxPid \in Nat /\ next_pid \in 1 .. MaxPid + 1
    BY Bounds DEF Inv, TypeOK
  <2> QED
    BY <2>3, <2>4 DEF Inv, BelowNext
<1> QED
  BY <1>1, Invariance, PTL DEF Spec, NoResurrection

\* A creation loses the slot it takes when it does not get its stacks.
LEMMA CreateLoses ==
    ASSUME Inv, NEW name \in Names \cup {"child"}, NEW user \in BOOLEAN, Create(name, user)
    PROVE  /\ LosesSlot <=> 0 \in pool \/ Cardinality(pool) < Wants(user)
           /\ 0 \notin pool'
<1>1. pool \in Pages /\ Cardinality(pool) \in Nat /\ Wants(user) \in Nat
  BY FS_CardinalityType, ProcessAssumption DEF Inv, TypeOK, Pages, Wants
<1>2. PICK got : got = Stacks(pool, user)
  OBVIOUS
<1>3. /\ 0 \notin got.left
      /\ got.ok <=> 0 \notin pool /\ Wants(user) <= Cardinality(pool)
  BY <1>1, <1>2, StacksGive
<1>4. /\ pool' = got.left
      /\ \E t \in Slots : FirstDead(t) /\ IF got.ok THEN Fill(t, name) ELSE Abandon(t)
  BY <1>2 DEF Create
<1>5. PICK t \in Slots : ~Live(t) /\ IF got.ok THEN Fill(t, name) ELSE Abandon(t)
  BY <1>4 DEF FirstDead
<1>6. LosesSlot <=> ~got.ok
  <2>1. next_pid \notin born
    <3>1. born \subseteq 1 .. MaxPid /\ MaxPid \in Nat /\ next_pid \in 1 .. MaxPid + 1
      BY Bounds DEF Inv, TypeOK
    <3> QED
      BY <3>1 DEF Inv, BelowNext
  <2>2. CASE got.ok
    BY <1>5, <2>1, <2>2 DEF Fill, LosesSlot
  <2>3. CASE ~got.ok
    <3>1. Live(t)' /\ born' = born
      BY <1>5, <2>3 DEF Abandon, Live, Inv, TypeOK
    <3> QED
      BY <1>5, <2>3, <3>1 DEF LosesSlot
  <2> QED
    BY <2>2, <2>3
<1> QED
  BY <1>1, <1>3, <1>4, <1>6

\* A lost slot was taken by a creation, and holds no pid.
LEMMA LostHasNoPid ==
    ASSUME Inv, [Next]_vars, LosesSlot
    PROVE  /\ Creates
           /\ \A s \in Slots : ~Live(s) /\ proc'[s].state # "TERMINATED"
                              => proc'[s].pid = 0
<1>1. PICK s \in Slots : ~Live(s) /\ Live(s)'
  BY DEF LosesSlot
<1>2. ~Relabel
  BY <1>1 DEF Relabel
<1>3. Created
  BY <1>2, Steps DEF Inv, StepEffect
<1>4. next_pid \notin born
  <2>1. born \subseteq 1 .. MaxPid /\ MaxPid \in Nat /\ next_pid \in 1 .. MaxPid + 1
    BY Bounds DEF Inv, TypeOK
  <2> QED
    BY <2>1 DEF Inv, BelowNext
<1>5. \A t \in Slots : ~Live(t) /\ proc'[t].state # "TERMINATED" => proc'[t].pid = 0
  BY <1>3, <1>4 DEF Created, LosesSlot, Live, Inv, TypeOK
<1> QED
  BY <1>2, <1>5, Relabels DEF Inv

\* For every number of slots, stack sizes and pool: page 0 costs a slot and is
\* gone with it, and no other slot is lost but for want of the pages that fork or
\* exec needs (process.c:46-91).
THEOREM SlotsAreLost == Spec => SlotLoss
<1> DEFINE Loss ==
      /\ 0 \in pool /\ (Fork \/ Exec) => LosesSlot /\ 0 \notin pool'
      /\ 0 \notin pool =>
           /\ 0 \notin pool'
           /\ Fork => (LosesSlot <=> Cardinality(pool) < STACK_PAGES)
           /\ Exec => (LosesSlot <=> Cardinality(pool) < STACK_PAGES + HEAP_PAGES)
      /\ LosesSlot =>
           /\ Fork \/ Exec
           /\ \A s \in Slots : ~Live(s) /\ proc'[s].state # "TERMINATED"
                              => proc'[s].pid = 0
<1>1. ASSUME Inv, Fork
      PROVE  /\ LosesSlot <=> 0 \in pool \/ Cardinality(pool) < STACK_PAGES
             /\ 0 \notin pool'
  BY <1>1, CreateLoses DEF Fork, Wants
<1>2. ASSUME Inv, Exec
      PROVE  /\ LosesSlot <=> 0 \in pool \/ Cardinality(pool) < STACK_PAGES + HEAP_PAGES
             /\ 0 \notin pool'
  <2>1. PICK name \in Names : Create(name, TRUE)
    BY <1>2 DEF Exec
  <2> QED
    BY <1>2, <2>1, CreateLoses DEF Wants
<1>3. ASSUME Inv, [Next]_vars, ~(Fork \/ Exec) PROVE pool' = pool
  BY <1>3, Relabels DEF Inv, Relabel, Creates
<1>4. Inv /\ [Next]_vars => [Loss]_vars
  <2> SUFFICES ASSUME Inv, [Next]_vars PROVE Loss
    OBVIOUS
  <2>1. LosesSlot => Fork \/ Exec
    BY LostHasNoPid DEF Creates
  <2> QED
    BY <1>1, <1>2, <1>3, <2>1, LostHasNoPid
<1> QED
  BY <1>4, Invariance, PTL DEF Spec, SlotLoss
=============================================================================
