------------------------------- MODULE Tracee -------------------------------
(***************************************************************************)
(* The process on the other side of ptrace(2): a program, the memory and   *)
(* the instruction pointer it runs with, and the ptrace requests a tracer  *)
(* sends it.  Nothing here is code of the repository: the module says what *)
(* the tracers of homework4 use of the kernel and of x86, as they use it.  *)
(*                                                                         *)
(* Addresses are integers.  Code is the executable segment of one ELF      *)
(* file, SegLo..SegHi-1 at link time, mapped at a load bias the kernel     *)
(* chooses at every exec.  A byte of the file is named by its own link     *)
(* address, so a byte of memory is intact when it still has its own name;  *)
(* CC is the int3 opcode 0xcc, BadByte the 0xff a failed PEEK leaves.      *)
(***************************************************************************)
EXTENDS Integers

CONSTANTS
    SegLo, SegHi,   \* link-time bounds of the executable segment
    Biases,         \* the load biases exec may choose ({0}: not PIE)
    Starts,         \* link addresses where an instruction starts
    Length,         \* the length in bytes of each instruction
    Succ,           \* the instructions that may execute next
    Entry,          \* where the program is stopped by exec
    Exits,          \* the instructions that end the process
    Faults          \* what may go wrong: a subset of {"fork", "signal", "kill"}

Image   == SegLo..(SegHi - 1)
CC      == -1
BadByte == -2
Byte    == Image \cup {CC, BadByte}
Own     == [x \in Image |-> x]

ASSUME ProgramAssumption ==
    /\ SegLo \in Nat /\ SegHi \in Nat
    /\ Biases \subseteq Nat /\ Biases # {}
    /\ Starts \subseteq Image /\ Entry \in Starts /\ Exits \subseteq Starts
    /\ Length \in [Starts -> Nat \ {0}]
    /\ \A a \in Starts : a + Length[a] <= SegHi
    /\ Succ \in [Starts -> SUBSET Starts]
    /\ \A a \in Starts \ Exits : Succ[a] # {}
    /\ Faults \subseteq {"fork", "signal", "kill"}

VARIABLES
    tracee,    \* none, forked, repl, stopped, running or zombie
    mem,       \* the bytes of the segment, by link address
    bias,      \* the load bias of this process
    trip,      \* the instruction pointer (a run-time address)
    single,    \* resumed by PTRACE_SINGLESTEP rather than PTRACE_CONT
    trapped    \* history: trip is one past an int3 this process executed

traceeVars == <<tracee, mem, bias, trip, single, trapped>>

TraceeStatus == {"none", "forked", "repl", "stopped", "running", "zombie"}

TraceeTypeOK ==
    /\ tracee \in TraceeStatus
    /\ mem \in [Image -> Byte]
    /\ bias \in Int
    /\ trip \in Int
    /\ single \in BOOLEAN
    /\ trapped \in BOOLEAN

NoTracee ==
    /\ tracee = "none" /\ mem = Own /\ bias = 0 /\ trip = 0
    /\ single = FALSE /\ trapped = FALSE

-----------------------------------------------------------------------------
(* Requests of the tracer.  Every one of them needs the tracee in a ptrace *)
(* stop and fails with ESRCH, changing nothing, when it is not.            *)

\* The byte PTRACE_PEEKTEXT puts in the low byte of its result for address a.
Peek(a) == IF tracee = "stopped" /\ a - bias \in Image THEN mem[a - bias]
                                                       ELSE BadByte

\* Memory m after PTRACE_POKETEXT of byte b at address a.
Poke(m, a, b) == IF tracee = "stopped" /\ a - bias \in Image
                 THEN [m EXCEPT ![a - bias] = b] ELSE m

\* PTRACE_SETREGS with instruction pointer r, the other registers aside.
SetTrip(r) ==
    /\ trip' = IF tracee = "stopped" THEN r ELSE trip
    /\ trapped' = (trapped /\ trip' = trip)

\* waitpid has reaped the process.
Reap ==
    /\ tracee' = "none" /\ mem' = Own /\ bias' = 0 /\ trip' = 0
    /\ single' = FALSE /\ trapped' = FALSE

Fork == tracee' = "forked" /\ UNCHANGED <<mem, bias, trip, single, trapped>>

-----------------------------------------------------------------------------
(* Steps of the process itself.                                            *)

\* execvp succeeded: the new image is mapped and stopped by SIGTRAP.
ExecSucceeds(b, image) ==
    /\ tracee = "forked"
    /\ tracee' = "stopped" /\ mem' = image /\ bias' = b /\ trip' = Entry + b
    /\ single' = FALSE /\ trapped' = FALSE

here == trip - bias

Intact == /\ here \in Starts
          /\ \A x \in here..(here + Length[here] - 1) : mem[x] = x

\* int3: the process stops with the instruction pointer past the byte.
Trap ==
    /\ tracee = "running" /\ here \in Image /\ mem[here] = CC
    /\ tracee' = "stopped" /\ trip' = trip + 1 /\ trapped' = TRUE
    /\ UNCHANGED <<mem, bias, single>>

StopIfSingle == tracee' = IF single THEN "stopped" ELSE "running"

Execute ==
    /\ tracee = "running" /\ Intact /\ here \notin Exits
    /\ \E a \in Succ[here] : trip' = a + bias
    /\ StopIfSingle /\ trapped' = FALSE
    /\ UNCHANGED <<mem, bias, single>>

Exit ==
    /\ tracee = "running" /\ Intact /\ here \in Exits
    /\ tracee' = "zombie"
    /\ UNCHANGED <<mem, bias, trip, single, trapped>>

\* The bytes at the instruction pointer are not an instruction of the program:
\* whatever they decode to goes somewhere, or faults where it is.
Misexecute ==
    /\ tracee = "running" /\ ~Intact
    /\ ~(here \in Image /\ mem[here] = CC)
    /\ \/ \E a \in Image : trip' = a + bias /\ StopIfSingle
       \/ trip' = trip /\ tracee' = "stopped"
    /\ trapped' = FALSE
    /\ UNCHANGED <<mem, bias, single>>

\* A signal stops a running tracee between two instructions.
SignalStop ==
    /\ "signal" \in Faults
    /\ tracee = "running" /\ tracee' = "stopped"
    /\ UNCHANGED <<mem, bias, trip, single, trapped>>

\* SIGKILL from outside ends the process in any state.
Killed ==
    /\ "kill" \in Faults
    /\ tracee \in {"forked", "stopped", "running"} /\ tracee' = "zombie"
    /\ UNCHANGED <<mem, bias, trip, single, trapped>>

Runs == Trap \/ Execute \/ Exit \/ Misexecute
=============================================================================
