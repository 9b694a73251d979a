------------------------------- MODULE Shell -------------------------------
(***************************************************************************)
(* The machine from init_run on: the pauses of the boot messages, then     *)
(* shell_run, which reads a line, does its command and reads the next one. *)
(* The commands that pause do so in timer_sleep, this thread's only way to *)
(* let time pass; a few stop the machine, and some return from shell_run,  *)
(* after which kernel_main returns too and entry.asm halts.                *)
(*                                                                         *)
(* A line is its first two words, how many words it has, and the argument  *)
(* after them.  What the commands print is left out, and so is what they   *)
(* do to the files (Vfs), to processes and signals (Process), to pages     *)
(* (Pmm) and to the packet counters, which are only printed.               *)
(***************************************************************************)
EXTENDS Timer, Sequences, FiniteSets

CONSTANTS
    SCALE,        \* ticks of the program per tick of the model: 1 in the program
    MAX_TRUSTED,  \* 64
    Ports,        \* io_ports: where a USB controller may answer (4)
    Lines,        \* records [cmd, sub, argc, arg]; sub is None if argc is 1
    Hosts,        \* what net_resolve makes an address of: names it knows, addresses
    None,
    MaxLasted     \* bound: ticks counted in one command

\* net_resolve returns.
Resolves(name) == name \in Hosts

\* parse_ip goes on only past digits and dots: it stays at any other character.
Hangs(l) == l.cmd = "ping" /\ l.argc >= 2 /\ ~Resolves(l.sub)

\* net_ping of four packets.
PingPauses == [i \in 1 .. 4 |-> 100]

\* The pauses of a command; of its names one is taken.  sleep's argument is a
\* number of ticks, whatever its help says.
Pauses(l) ==
    CASE l.cmd = "ping" /\ ~Hangs(l)               -> PingPauses
      [] l.cmd = "wifi" /\ l.sub = "connect"       -> <<500, 300>>
      [] l.cmd = "bt" /\ l.sub = "on"              -> <<300>>
      [] l.cmd = "bt" /\ l.sub = "scan"            -> <<800>>
      [] l.cmd = "bt" /\ l.sub = "pair"            -> <<1000>>
      [] l.cmd = "bt" /\ l.sub = "connect"         -> <<500>>
      [] l.cmd = "orangepkg" /\ l.sub = "install"  -> <<200, 400, 300>>
      [] l.cmd = "orangepkg" /\ l.sub = "remove"   -> <<200>>
      [] l.cmd = "orangepkg" /\ l.sub = "update"   -> <<500, 300>>
      [] l.cmd = "usb" /\ l.sub = "scan"           -> <<300>>
      [] l.cmd = "reboot"                          -> <<500>>
      [] l.cmd = "sleep" /\ l.argc >= 2            -> <<l.arg>>
      [] OTHER                                     -> <<>>

\* One pause after each line of boot_log.
BootPauses == [i \in 1 .. 12 |-> 50]

\* The pause of doom_run between two frames.
FramePause == <<33>>

Scaled(pauses) == [i \in 1 .. Len(pauses) |-> pauses[i] \div SCALE]

\* The ticks of some pauses together; what is past their end adds none.
Total(pauses) ==
    LET upTo[i \in Nat] ==
          IF i = 0 THEN 0
          ELSE upTo[i - 1] + (IF i \in DOMAIN pauses THEN pauses[i] ELSE 0)
    IN  upTo[Len(pauses)]

ASSUME ShellAssumption ==
    /\ SCALE \in Nat \ {0}
    /\ MAX_TRUSTED \in Nat /\ MAX_TRUSTED >= 3
    /\ MaxLasted \in Nat
    /\ \A l \in Lines : Total(Scaled(Pauses(l))) <= MaxLasted
    /\ IsFiniteSet(Ports)
    /\ {Scaled(BootPauses), Scaled(FramePause)} \subseteq Seq(Requests)
    /\ \A l \in Lines : Scaled(Pauses(l)) \in Seq(Requests)

VARIABLES
    at,           \* "boot", "prompt", "run", "halted" (cli; hlt) or "entry"
    line,
    rest,         \* pauses to come
    lasted,       \* history: ticks since the line was read
    controllers,  \* controller_count of usb.c
    devices,      \* addresses of its devices
    trusted       \* paths in trusted_files, one that was trusted twice twice

machine == <<at, line, rest, lasted>>
lists == <<controllers, devices, trusted>>
shellVars == <<vars, machine, lists>>

NoLine == [cmd |-> None, sub |-> None, argc |-> 0, arg |-> None]

\* usb_detect_controllers, when those at the ports up answer.
Detected(up) == IF up = {} THEN 2 ELSE Cardinality(up)

\* usb_enumerate.
Enumerated(n) == IF n > 0 THEN 1 .. 3 ELSE {}

\* What kernel_main leaves when it calls init_run: security_init and usb_init.
\* After a reset all of it is as it was: entry.asm clears the variables.
ShellInit ==
    /\ Init
    /\ at = "boot"
    /\ line = NoLine
    /\ rest = Scaled(BootPauses)
    /\ lasted = 0
    /\ \E up \in SUBSET Ports : controllers = Detected(up)
    /\ devices = Enumerated(controllers)
    /\ trusted = <<"/bin", "/etc", "/dev">>

-----------------------------------------------------------------------------
\* Interrupts are off for good in a halted machine.
On == at \notin {"halted", "entry"}

ClockTick ==
    /\ On
    /\ Tick
    /\ lasted' = IF at = "run" /\ lasted < MaxLasted THEN lasted + 1 ELSE lasted
    /\ UNCHANGED <<at, line, rest, lists>>

Irq == OtherIrq /\ UNCHANGED <<machine, lists>>

InSleep == (Test \/ Hlt) /\ UNCHANGED <<machine, lists>>

\* Mutant: the next pause is left out.
PauseButNext ==
    /\ pc = "away"
    /\ rest # <<>>
    /\ Sleep(Head(rest))
    /\ rest' = IF Len(rest) > 1 THEN Tail(Tail(rest)) ELSE <<>>
    /\ UNCHANGED <<at, line, lasted, lists>>

Pause ==
    /\ pc = "away"
    /\ rest # <<>>
    /\ Sleep(Head(rest))
    /\ rest' = Tail(rest)
    /\ UNCHANGED <<at, line, lasted, lists>>

\* init_run returns.
Booted ==
    /\ at = "boot" /\ pc = "away" /\ rest = <<>>
    /\ at' = "prompt"
    /\ UNCHANGED <<vars, line, rest, lasted, lists>>

\* Too few words, and the command returns from shell_run instead of going on.
Misused(l) ==
    \/ l.argc < 2 /\ l.cmd \in {"usb", "security", "firewall", "exec", "stat",
                                "file", "sort", "uniq"}
    \/ l.argc < 3 /\ \/ l.cmd = "chmod"
                     \/ l.cmd = "usb" /\ l.sub = "info"
                     \/ l.cmd = "security" /\ l.sub = "trust"
                     \/ l.cmd = "orangepkg" /\ l.sub \in {"search", "install", "remove"}

\* An empty line is read over.  A misused command does not pause.
ReadLine(l) ==
    /\ at = "prompt"
    /\ at' = "run"
    /\ line' = l
    /\ rest' = IF Misused(l) THEN <<>> ELSE Scaled(Pauses(l))
    /\ UNCHANGED <<vars, lasted, lists>>

\* The command has come to its end, the game to the end of a frame.
Ending == at = "run" /\ pc = "away" /\ rest = <<>> /\ ~Hangs(line)

\* No q among the keys of this frame; where they lead is left out.
Frame ==
    /\ Ending
    /\ line.cmd = "doom"
    /\ rest' = Scaled(FramePause)
    /\ UNCHANGED <<vars, at, line, lasted, lists>>

\* vfs_lookup may find the path or not, except du's default ".", which it takes
\* for a name.  No node that it finds has contents to execute or to sort, and
\* usb info takes its argument modulo 256.
Fails(found) ==
    \/ line.cmd \in {"exec", "sort", "uniq"}
    \/ line.cmd \in {"stat", "file", "chmod"} /\ ~found
    \/ line.cmd = "du" /\ (line.argc < 2 \/ ~found)
    \/ line.cmd = "usb" /\ line.sub = "info" /\ line.arg % 256 \notin devices

\* shell_run returns, and kernel_main, to cli and hlt in entry.asm.
Return ==
    /\ Ending
    /\ Misused(line) \/ \E found \in BOOLEAN : Fails(found)
    /\ at' = "entry"
    /\ UNCHANGED <<vars, line, rest, lasted, lists>>

Halt ==
    /\ Ending
    /\ line.cmd \in {"poweroff", "halt", "shutdown", "exit", "reboot"}
    /\ at' = "halted"
    /\ UNCHANGED <<vars, line, rest, lasted, lists>>

\* The keyboard controller resets the processor, if it does.
Reset ==
    /\ Ending
    /\ line.cmd = "reboot"
    /\ at' = "boot"
    /\ line' = NoLine
    /\ rest' = Scaled(BootPauses)
    /\ \E up \in SUBSET Ports :
         controllers' = Detected(up) /\ devices' = Enumerated(Detected(up))
    /\ trusted' = <<"/bin", "/etc", "/dev">>
    /\ lasted' = 0
    /\ ticks_count' = 0 /\ start' = 0 /\ ms' = 0 /\ elapsed' = 0
    /\ UNCHANGED <<pc, ran>>

\* Mutant: one entry more than there is room for.
TrustPastEnd(path) ==
    trusted' = IF Len(trusted) > MAX_TRUSTED THEN trusted ELSE Append(trusted, path)

\* security_add_trusted: a full list is left alone, and a path the tree does not
\* have is entered all the same.
Trust(path) ==
    trusted' = IF Len(trusted) >= MAX_TRUSTED THEN trusted ELSE Append(trusted, path)

\* Every other command, those that failed in a "continue", and the game on a q.
Done ==
    /\ Ending
    /\ ~Misused(line)
    /\ \E found \in BOOLEAN : ~Fails(found)
    /\ line.cmd \notin {"poweroff", "halt", "shutdown", "exit", "reboot"}
    /\ at' = "prompt"
    /\ IF line.cmd = "usb" /\ line.sub = "scan"
       THEN \E up \in SUBSET Ports :
              controllers' = Detected(up) /\ devices' = Enumerated(Detected(up))
       ELSE UNCHANGED <<controllers, devices>>
    /\ IF line.cmd = "security" /\ line.sub = "trust"
       THEN Trust(line.arg) ELSE UNCHANGED trusted
    /\ line' = NoLine
    /\ lasted' = 0
    /\ UNCHANGED <<vars, rest>>

Thread == InSleep \/ Pause \/ Booted \/ Frame \/ Return \/ Halt \/ Reset \/ Done

ShellNext ==
    \/ ClockTick
    \/ Irq
    \/ \E l \in Lines : ReadLine(l)
    \/ Thread

\* A command keeps running, and IRQ0 keeps coming.  Nobody need type, not in the
\* game either.
ShellSpec ==
    ShellInit /\ [][ShellNext]_shellVars
      /\ WF_shellVars(Thread) /\ WF_shellVars(ClockTick)

-----------------------------------------------------------------------------
(* Properties.                                                             *)

\* The timer's types, and the list of trusted files inside its array.
ShellTypeOK ==
    /\ TypeOK
    /\ at \in {"boot", "prompt", "run", "halted", "entry"}
    /\ line \in Lines \cup {NoLine}
    /\ rest \in Seq(Requests)
    /\ lasted \in 0 .. MaxLasted
    /\ controllers \in Nat
    /\ devices \subseteq 1 .. 3
    /\ Len(trusted) <= MAX_TRUSTED

\* Whatever interrupts end its hlts and wherever the counter wraps, a command
\* that pauses is not over before all its pauses have passed.
Lasts ==
    [][(Ending /\ ~Misused(line) /\ at' # at)
         => lasted >= Total(Scaled(Pauses(line)))]_shellVars

\* Every command ends, at the prompt or with the machine stopped or reset, but
\* the game, which goes on until a q, and a ping of what net_resolve does not
\* know and is no address (net.c:10-19).  What find does is in Vfs (FindWhole).
Answers == (at = "run" /\ line.cmd # "doom" /\ ~Hangs(line)) ~> (at # "run")

\* A scan finds the three devices again whichever controllers answer, so that
\* "usb info" of one of them never takes the machine down.
DevicesStay == at = "prompt" => devices = 1 .. 3

\* The machine stops for the commands whose help says so (shell.c:74, README.md:102
\* and 103) and for nothing else.
StopsAsTold ==
    [][(On /\ ~On') => line.cmd \in {"exit", "halt", "shutdown", "poweroff", "reboot"}]_shellVars
=============================================================================
