------------------------------ MODULE Tracers -------------------------------
(***************************************************************************)
(* Three small tracers of homework4, each a loop around waitpid:           *)
(*   counter        countme/counter.cpp: single steps, counts instructions *)
(*   count_syscall  Syscall/count_syscall.cpp: logs the system calls       *)
(*   write_tracee   NoMoreTraps/write_tracee.cpp: fills in a program whose *)
(*                  instructions were overwritten by int3, from a list     *)
(* They begin alike (fork, TRACEME, execvp, a first waitpid, SETOPTIONS)   *)
(* and differ in the loop.  A tool never looks at why its child stopped    *)
(* beyond what its code tests.                                             *)
(***************************************************************************)
EXTENDS Tracee, FiniteSets

CONSTANTS
    Tools,       \* the tools to run
    Syscalls,    \* the instructions that enter the kernel
    Holes,       \* the instructions the prepared program has an int3 for
    UsesRdx, SetsRdx, \* the instructions that read rdx; that only set it
    Listed,      \* how many bytes no_more_traps.txt lists
    inject_byte, \* and the bytes, in the order they are to be used
    ToolFaults,  \* a subset of {"exec", "file", "interrupt"}
    MaxSignals   \* bound: signals the program gets in one run

ASSUME TracersAssumption ==
    /\ Tools \subseteq {"counter", "count_syscall", "write_tracee"}
    /\ Exits \subseteq Syscalls /\ Syscalls \subseteq Starts
    /\ Holes \subseteq Starts
    /\ UsesRdx \subseteq Starts /\ SetsRdx \subseteq Starts \ Syscalls
    /\ Listed \in Nat /\ inject_byte \in [0..(Listed - 1) -> Image]
    /\ ToolFaults \subseteq {"exec", "file", "interrupt"}
    /\ MaxSignals \in Nat

VARIABLES
    tool,
    tpc,         \* where the tool is; got: between waitpid and its ptraces
    exitkill,    \* PTRACE_O_EXITKILL is set
    counter,
    enter,       \* count_syscall: the next system call stop is an entry
    idx,         \* write_tracee: the next element of inject_byte
    rdx,         \* who gave rdx the value it holds: the program or the tool
    why,         \* the kind of the last stop, as bit 7 of its signal shows
    insys,       \* the program is inside a system call (kernel)
    executed, entered, signalled,  \* history: instructions executed, system
    killed                         \* calls entered, signals received, SIGKILL

toolVars == <<tool, tpc, exitkill, counter, enter, idx>>
stopVars == <<why, insys, executed, entered, signalled, killed>>
kernVars == <<rdx, why, insys, executed, entered, signalled, killed>>
vars == <<traceeVars, toolVars, kernVars>>

ToolPhase == {"fork", "first", "loop", "waiting", "got", "done", "exited"}

TypeOK ==
    /\ TraceeTypeOK
    /\ tool \in Tools /\ tpc \in ToolPhase
    /\ exitkill \in BOOLEAN /\ insys \in BOOLEAN
    /\ counter \in Nat /\ enter \in {0, 1} /\ idx \in 0..Listed
    /\ why \in {"syscall", "other"} /\ rdx \in {"program", "tool"}
    /\ executed \in Nat /\ entered \in Nat /\ signalled \in 0..MaxSignals
    /\ killed \in BOOLEAN

Init ==
    /\ NoTracee
    /\ tool \in Tools /\ tpc = "fork" /\ exitkill = FALSE
    /\ counter = 0 /\ enter = 1 /\ idx = 0
    /\ why = "other" /\ insys = FALSE /\ rdx = "program"
    /\ executed = 0 /\ entered = 0 /\ signalled = 0 /\ killed = FALSE

-----------------------------------------------------------------------------
(* The common beginning.                                                   *)

ForkChild ==
    /\ tpc = "fork" /\ tpc' = "first" /\ Fork
    /\ UNCHANGED <<tool, exitkill, counter, enter, idx, kernVars>>

ForkFails ==
    /\ "fork" \in Faults
    /\ tpc = "fork" /\ tpc' = "exited"
    /\ UNCHANGED <<traceeVars, tool, exitkill, counter, enter, idx, kernVars>>

\* write_tracee opens its list after the fork and leaves the child behind.
ListMissing ==
    /\ "file" \in ToolFaults /\ tool = "write_tracee"
    /\ tpc = "first" /\ tpc' = "exited"
    /\ UNCHANGED <<traceeVars, tool, exitkill, counter, enter, idx, kernVars>>

\* PTRACE_CONT, SINGLESTEP or SYSCALL of a stopped child.
Go(step) == /\ tracee' = "running" /\ single' = step
            /\ UNCHANGED <<mem, bias, trip, trapped>>

\* The first stop: options, and write_tracee starts the program at once.
\* (Mutant: the options are forgotten.)
FirstStopNoOptions ==
    /\ tpc = "first" /\ tracee = "stopped"
    /\ IF tool = "write_tracee" THEN Go(FALSE) /\ tpc' = "waiting"
                                ELSE UNCHANGED traceeVars /\ tpc' = "loop"
    /\ UNCHANGED <<tool, exitkill, counter, enter, idx, kernVars>>

FirstStop ==
    /\ tpc = "first" /\ tracee = "stopped"
    /\ exitkill' = TRUE
    /\ IF tool = "write_tracee" THEN Go(FALSE) /\ tpc' = "waiting"
                                ELSE UNCHANGED traceeVars /\ tpc' = "loop"
    /\ UNCHANGED <<tool, counter, enter, idx, kernVars>>

\* The child ended before it stopped: nothing to report, or a failed assert.
FirstEnd ==
    /\ tpc = "first" /\ tracee = "zombie" /\ Reap
    /\ tpc' = IF tool = "write_tracee" THEN "exited" ELSE "done"
    /\ UNCHANGED <<tool, exitkill, counter, enter, idx, kernVars>>

\* A ptrace of the loop fails: exit(-n), and the kernel reaps the child.
GiveUp == tpc' = "exited" /\ Reap

-----------------------------------------------------------------------------
(* The loops.                                                              *)

CountAndStep ==
    /\ tool = "counter" /\ tpc = "loop"
    /\ counter' = counter + 1
    /\ IF tracee = "stopped" THEN Go(TRUE) /\ tpc' = "waiting" ELSE GiveUp
    /\ UNCHANGED <<tool, exitkill, enter, idx, kernVars>>

ToNextSyscall ==
    /\ tool = "count_syscall" /\ tpc = "loop"
    /\ IF tracee = "stopped" THEN Go(FALSE) /\ tpc' = "waiting" ELSE GiveUp
    /\ UNCHANGED <<tool, exitkill, counter, enter, idx, kernVars>>

\* !(WSTOPSIG(wait_status) & 0x80) is the only test of a stop that a tool
\* makes.  (Mutant: no test.)
AnyStop == TRUE

SyscallStop == why = "syscall"

WaitStop ==
    /\ tpc = "waiting" /\ tracee = "stopped"
    /\ tpc' = IF \/ tool = "write_tracee"
                 \/ tool = "count_syscall" /\ SyscallStop
              THEN "got" ELSE "loop"
    /\ UNCHANGED <<traceeVars, tool, exitkill, counter, enter, idx, kernVars>>

\* The loop ends and the count is printed; write_tracee ends with the ECHILD
\* of one more waitpid.  (Mutant: the end is counted like a stop.)
WaitEndCounted ==
    /\ tpc = "waiting" /\ tracee = "zombie" /\ Reap
    /\ tpc' = "done" /\ counter' = counter + 1
    /\ UNCHANGED <<tool, exitkill, enter, idx, kernVars>>

WaitEnd ==
    /\ tpc = "waiting" /\ tracee = "zombie" /\ Reap
    /\ tpc' = "done"
    /\ UNCHANGED <<tool, exitkill, counter, enter, idx, kernVars>>

\* enter ^= 0x01.  (Mutant: |=, an entry never becomes an exit.)
Or1(e) == IF e = 0 THEN 1 ELSE e + 1

Xor1(e) == 1 - e

LogSyscall ==
    /\ tool = "count_syscall" /\ tpc = "got"
    /\ IF tracee = "stopped"
       THEN /\ counter' = counter + enter /\ enter' = Xor1(enter)
            /\ tpc' = "loop" /\ UNCHANGED traceeVars
       ELSE GiveUp /\ UNCHANGED <<counter, enter>>
    /\ UNCHANGED <<tool, exitkill, idx, kernVars>>

\* The byte that goes in: the next of the list, anything beyond its end.
\* (Mutant: the byte that is there.)
InjectSame == {CC}

InjectByte == IF idx < Listed THEN {inject_byte[idx]} ELSE {BadByte}

\* Where it goes.  (Mutant: where the instruction pointer is.)
PatchAtRip == trip

PatchAt == trip - 1

\* The registers the program goes on with: rip at the byte filled in, and rax
\* copied over rdx.  (Mutant: rip as it stopped.)
GoOnPast == UNCHANGED <<trip, trapped>> /\ rdx' = "tool"

GoOnAt == trip' = trip - 1 /\ trapped' = FALSE /\ rdx' = "tool"

Patch ==
    /\ tool = "write_tracee" /\ tpc = "got"
    /\ IF tracee = "stopped" /\ PatchAt - bias \in Image
       THEN /\ \E b \in InjectByte : mem' = Poke(mem, PatchAt, b)
            /\ idx' = IF idx < Listed THEN idx + 1 ELSE idx
            /\ GoOnAt
            /\ tracee' = "running" /\ single' = FALSE /\ UNCHANGED bias
            /\ tpc' = "waiting"
       ELSE GiveUp /\ UNCHANGED <<idx, rdx>>
    /\ UNCHANGED <<tool, exitkill, counter, enter, stopVars>>

-----------------------------------------------------------------------------
(* The child and the program.                                              *)

Loaded == IF tool = "write_tracee"
          THEN [x \in Image |-> IF x \in Holes THEN CC ELSE x] ELSE Own

ChildExec ==
    /\ \E b \in Biases : ExecSucceeds(b, Loaded)
    /\ UNCHANGED <<toolVars, kernVars>>

ChildExecFails ==
    /\ "exec" \in ToolFaults
    /\ tracee = "forked" /\ tracee' = "zombie"
    /\ UNCHANGED <<mem, bias, trip, single, trapped, toolVars, kernVars>>

AtSyscall == tool = "count_syscall" /\ here \in Syscalls

\* What an instruction of the program leaves in rdx.
RdxAfter == IF Intact /\ here \in SetsRdx THEN "program" ELSE rdx

\* An instruction, counted where a tool counts it.
ProgramRuns ==
    /\ ~AtSyscall /\ Runs
    /\ why' = "other" /\ rdx' = RdxAfter
    /\ executed' = IF tool = "counter" THEN executed + 1 ELSE executed
    /\ UNCHANGED <<toolVars, insys, entered, signalled, killed>>

\* PTRACE_SYSCALL: the program stops when it enters the kernel and again when
\* it comes back; exit does not come back.
EnterKernel ==
    /\ AtSyscall /\ tracee = "running" /\ Intact /\ ~insys
    /\ tracee' = "stopped" /\ why' = "syscall" /\ insys' = TRUE
    /\ entered' = entered + 1
    /\ UNCHANGED <<mem, bias, trip, single, trapped, toolVars, rdx, executed,
                   signalled, killed>>

LeaveKernel ==
    /\ AtSyscall /\ tracee = "running" /\ Intact /\ insys
    /\ \/ here \in Exits /\ tracee' = "zombie" /\ UNCHANGED <<trip, insys, why>>
       \/ /\ here \notin Exits
          /\ \E a \in Succ[here] : trip' = a + bias
          /\ tracee' = "stopped" /\ why' = "syscall" /\ insys' = FALSE
    /\ UNCHANGED <<mem, bias, single, trapped, toolVars, rdx, executed,
                   entered, signalled, killed>>

\* Signals are delivered on the way back to the program.
ProgramSignal ==
    /\ signalled < MaxSignals /\ ~insys
    /\ SignalStop
    /\ why' = "other" /\ signalled' = signalled + 1
    /\ UNCHANGED <<toolVars, rdx, insys, executed, entered, killed>>

ProgramKilled ==
    /\ Killed /\ killed' = TRUE
    /\ UNCHANGED <<toolVars, rdx, why, insys, executed, entered, signalled>>

\* A signal ends the tool itself: what it traced is killed if EXITKILL says
\* so, and goes its own way otherwise, where the model does not follow.
Interrupted ==
    /\ "interrupt" \in ToolFaults
    /\ tpc \in {"first", "loop", "waiting", "got"} /\ tpc' = "exited"
    /\ IF exitkill THEN Reap ELSE UNCHANGED traceeVars
    /\ UNCHANGED <<tool, exitkill, counter, enter, idx, kernVars>>

Tool == ForkChild \/ FirstStop \/ FirstEnd \/ CountAndStep \/ ToNextSyscall
        \/ WaitStop \/ WaitEnd \/ LogSyscall \/ Patch

Fails == ForkFails \/ ListMissing \/ ChildExecFails \/ ProgramSignal
         \/ ProgramKilled \/ Interrupted

Traced == ChildExec \/ ProgramRuns \/ EnterKernel \/ LeaveKernel

ToolEnded == tpc \in {"done", "exited"}

Next == (~ToolEnded /\ (Tool \/ Traced \/ Fails)) \/ (ToolEnded /\ UNCHANGED vars)

\* The scheduler runs the tool, and the child when it can run.
Spec == Init /\ [][Next]_vars /\ WF_vars(Tool) /\ WF_vars(Traced)

-----------------------------------------------------------------------------
(* Properties.                                                             *)

\* Instructions executed and signals received.
Accounted == executed + signalled

\* The number counter prints accounts for every resume: each is one
\* instruction, one signal, or the one under way, the last of which a kill
\* may have cut short.  Without signals and kills it is the number of
\* instructions executed ("## %lld instruction(s) executed").
CountAccounts ==
    tool = "counter" =>
        \/ counter = Accounted /\ ~(tpc = "waiting" /\ tracee = "running")
        \/ counter = Accounted + 1 /\ tpc = "waiting" /\ tracee = "running"
        \/ counter = Accounted + 1 /\ ~(tpc \in {"loop", "got"})
              /\ (killed \/ tpc = "exited")

\* count_syscall tells entries from exits by a toggle alone; at every log line
\* the toggle is right: an entry is logged inside the kernel, an exit outside,
\* whatever signals come between, and each entry is counted once.
ToggleAgrees ==
    tool = "count_syscall" /\ tracee = "stopped" =>
        /\ tpc = "got" => ((enter = 1) <=> insys)
        /\ tpc = "loop" => ((enter = 0) <=> insys) /\ counter = entered

\* What no_more_traps.txt must be for the program.  R holds the places the
\* program comes to, each with the holes filled by then: an open hole is the
\* next on the list, and no other open hole is inside the instruction.
Fits(R) ==
    /\ R \subseteq Starts \X SUBSET Holes /\ <<Entry, {}>> \in R
    /\ \A a \in Starts, P \in SUBSET Holes : <<a, P>> \in R =>
          IF a \in Holes \ P
          THEN /\ Cardinality(P) < Listed /\ inject_byte[Cardinality(P)] = a
               /\ <<a, P \cup {a}>> \in R
          ELSE /\ \A x \in a..(a + Length[a] - 1) : x \notin Holes \ P
               /\ a \notin Exits => \A b \in Succ[a] : <<b, P>> \in R

\* As long as every stop is an int3, each replaced byte is the byte of its
\* own instruction: the list is never out of step with the program.
PatchesRight ==
    tool = "write_tracee" /\ signalled = 0 /\ tracee \in {"stopped", "running"} =>
        /\ \A x \in Image : mem[x] \in {x} \cup (IF x \in Holes THEN {CC} ELSE {})
        /\ idx = Cardinality({x \in Holes : mem[x] = x})

\* No tool leaves a program behind that has run under it ("child will be
\* killed after parent leave"): what may stay is a child that has not executed
\* its first instruction.
NotLeftBehind ==
    ToolEnded => \/ tracee \in {"none", "forked", "zombie"}
                 \/ tracee = "stopped" /\ trip = Entry + bias /\ mem = Loaded

\* Where the program under a tool is in its file.
ProgramAt == IF tracee \in {"none", "forked"} THEN -1
             ELSE IF tracee = "zombie" THEN -2
             ELSE IF trapped THEN here - 1 ELSE here

Untraced == INSTANCE Program WITH at <- ProgramAt

\* T holds the places a program may come to with rdx overwritten at a hole; a
\* program spares rdx if no instruction at such a place reads it.
Overwritten(T) == Holes \subseteq T /\ \A a \in T \ SetsRdx : Succ[a] \subseteq T

RdxSpared == \E T \in SUBSET (Starts \ UsesRdx) : Overwritten(T)

\* The program under a tool executes the instructions of its file along the
\* control flow of the file, also when the file held int3s for some and the
\* tool filled them in, and each instruction that reads rdx reads what the
\* program put there.  write_tracee copies rax over rdx at every hole, so the
\* second half holds under it only of a program that spares rdx.
RunsTheProgram ==
    [][(tool = "write_tracee" => signalled' = 0) =>
          /\ Untraced!Next
          /\ (tool = "write_tracee" => RdxSpared) /\ ProgramAt \in UsesRdx
                => rdx = "program"]_ProgramAt

\* Every tool ends when its program does.  A program whose patches are out of
\* step may run anywhere, for ever.
ToolEnds == <>(ToolEnded \/ (tool = "write_tracee" /\ signalled > 0))
=============================================================================
