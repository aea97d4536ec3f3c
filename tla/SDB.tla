-------------------------------- MODULE SDB ---------------------------------
(***************************************************************************)
(* The debugger of homework4/0756706_samuel/sdb.cpp: class SDB, its        *)
(* command loop, and the process it traces.  One action is one command up  *)
(* to its first blocking call or to the point where the tracee runs beside *)
(* it; the code after that point is an action of its own.  A command the   *)
(* code refuses with a message changes nothing and is a stuttering step.   *)
(***************************************************************************)
EXTENDS Tracee, FiniteSets

CONSTANTS
    ShAddr, ShOffset, ShSize,  \* the .text section header of the loaded file
    Paths,        \* how the user spells the file name in `load'
    BreakAddrs,   \* link addresses the user asks a break point for
    RipTargets,   \* link addresses the user stores in rip
    LookAddrs,    \* link addresses the user asks disasm and dump for
    MaxBP,        \* bound: break points in the list at one time
    MaxDrift,     \* bound: a failed run drives no address beyond this one
    MaxLook,      \* bound: bytes one disasm shows (112 in the code)
    MaxLines,     \* bound: lines one dump shows (5 in the code)
    Garbage       \* values an uninitialised member may hold

\* "plain": prog, as /proc/pid/maps spells it after the directory.
\* "dotted": ./prog, the same file, but not the spelling of maps.
\* "absolute": /dir/prog, which execvp(cwd + "/" + name) does not find.
PathKind == {"plain", "dotted", "absolute"}

Slot == 0..(MaxBP - 1)

ASSUME DebuggerAssumption ==
    /\ ShAddr \in Int /\ ShOffset \in Int /\ ShSize \in Int
    /\ ShAddr..(ShAddr + ShSize - 1) \subseteq Image
    /\ Paths \subseteq PathKind
    /\ BreakAddrs \subseteq Int /\ RipTargets \subseteq Int
    /\ LookAddrs \subseteq Int
    /\ MaxBP \in Nat \ {0}
    /\ MaxDrift \in Int /\ MaxLook \in Nat /\ MaxLines \in Nat
    /\ Garbage \subseteq Int /\ Garbage # {}

VARIABLES
    pc,         \* where the command loop is
    path,       \* the kind of eh->filename
    current,    \* BEGIN, LOADED or RUNNING
    slots,      \* the memory of break_points, what erase left behind included
    nbp,        \* break_points.size()
    base_addr, last_addr,
    rip,        \* regs.rip, the cached register the user reads and sets
    bp_idx,     \* index of the break point the tracee is stopped at, or -1
    status,     \* the last waitpid status of run()
    missed,     \* history: break points whose re-arming came too late
    last_disasm, last_dump  \* where the next disasm and dump go on, or -1

looks == <<last_disasm, last_dump>>
sdbVars == <<pc, path, current, slots, nbp, base_addr, last_addr, rip, bp_idx,
             status, missed, looks>>
vars == <<traceeVars, sdbVars>>

Phase == {"prompt", "exec_start", "exec_run", "resumed", "waiting",
          "done", "aborted"}

BPs == [addr : Int, original_byte : Byte]

TypeOK ==
    /\ TraceeTypeOK
    /\ pc \in Phase
    /\ path \in PathKind
    /\ current \in {"BEGIN", "LOADED", "RUNNING"}
    /\ slots \in [Slot -> BPs]
    /\ nbp \in 0..MaxBP
    /\ base_addr \in Int /\ last_addr \in Int
    /\ rip \in Int
    /\ bp_idx \in Slot \cup {-1}
    /\ status \in {"unset", "stopped", "ended"}
    /\ missed \subseteq Int
    /\ last_disasm \in Int /\ last_dump \in Int

Init ==
    /\ NoTracee
    /\ pc = "prompt" /\ path = "plain" /\ current = "BEGIN"
    /\ slots = [i \in Slot |-> [addr |-> 0, original_byte |-> BadByte]]
    /\ nbp = 0
    /\ base_addr = -1 /\ last_addr \in Garbage
    /\ rip \in Garbage /\ bp_idx = -1
    /\ status = "unset" /\ missed = {}
    /\ last_disasm = -1 /\ last_dump = -1

Live == 0..(nbp - 1)

-----------------------------------------------------------------------------
(* Pieces several commands share.                                          *)

\* Every break point in the list moved by d; what lies past the end stays.
Shifted(d) == [i \in Slot |-> IF i \in Live
                              THEN [slots[i] EXCEPT !.addr = @ + d]
                              ELSE slots[i]]

\* check_if_bp: the registers are fetched (regs keeps its old value when that
\* fails) and the first break point one byte below rip is taken for the reason
\* of the stop.  The rewound rip stays in regs until the next SETREGS.
HitAt(s, r) == {i \in Live : s[i].addr = r - 1}

CheckIfBp(s, fetched) ==
    \/ HitAt(s, fetched) = {} /\ bp_idx' = -1 /\ rip' = fetched
    \/ \E i \in HitAt(s, fetched) :
          /\ \A j \in HitAt(s, fetched) : i <= j
          /\ bp_idx' = i /\ rip' = fetched - 1

Fetched == IF tracee = "stopped" THEN trip ELSE rip

\* The memory in which the tracee is resumed: at a break point the original
\* byte goes back.  (Mutant: it stays an int3.)
LiftedNever(m, s) == m

Lifted(m, s) == IF bp_idx = -1 THEN m
                ELSE Poke(m, s[bp_idx].addr, s[bp_idx].original_byte)

\* The registers it is resumed with: at a break point regs, rip rewound.
\* (Mutant: those it stopped with.)
StoreNever == UNCHANGED <<trip, trapped>>

StoreRegs == IF bp_idx = -1 THEN UNCHANGED <<trip, trapped>> ELSE SetTrip(rip)

\* continue_impl up to the point where the tracee runs.
Resume(m, s, step) ==
    /\ mem' = Lifted(m, s)
    /\ StoreRegs
    /\ IF tracee = "stopped" THEN tracee' = "running" /\ single' = step
                             ELSE UNCHANGED <<tracee, single>>
    /\ pc' = IF bp_idx = -1 THEN "waiting" ELSE "resumed"

\* The place of the next disasm, moved by d.
DisasmMoved(d) == IF last_disasm = -1 THEN -1 ELSE last_disasm + d

\* program_terminated: back to LOADED, addresses are link addresses again.
\* (Mutants: the state is not reset; the base is reset first.)
TerminatedStillRunning ==
    /\ slots' = Shifted(-base_addr) /\ base_addr' = -1 /\ bp_idx' = -1
    /\ last_disasm' = DisasmMoved(-base_addr) /\ last_dump' = -1
    /\ UNCHANGED current

TerminatedResetFirst ==
    /\ current' = "LOADED" /\ base_addr' = -1 /\ bp_idx' = -1
    /\ slots' = Shifted(-base_addr')
    /\ last_disasm' = DisasmMoved(-base_addr') /\ last_dump' = -1

ProgramTerminated ==
    /\ current' = "LOADED" /\ base_addr' = -1 /\ bp_idx' = -1
    /\ slots' = Shifted(-base_addr)
    /\ last_disasm' = DisasmMoved(-base_addr) /\ last_dump' = -1

-----------------------------------------------------------------------------
(* Commands at the prompt.                                                 *)

\* load: only the first load counts; failures leave BEGIN (stuttering).
Load(k) ==
    /\ pc = "prompt" /\ current = "BEGIN"
    /\ current' = "LOADED" /\ path' = k
    /\ UNCHANGED <<traceeVars, pc, slots, nbp, base_addr, last_addr, rip,
                   bp_idx, status, missed, looks>>

\* break begins with a search of the list.  (Mutant: it skips the first.)
NotListedButFirst(addr) == \A i \in Live \ {0} : slots[i].addr # addr

NotListed(addr) == \A i \in Live : slots[i].addr # addr

\* The byte of the file at link address a.  (Mutant: lseek to the section.)
FileByteOfSection(a) == Own[ShAddr]

FileByte(a) == Own[a]

\* break on a program that does not run.
BreakLoaded(a) ==
    /\ pc = "prompt" /\ current = "LOADED" /\ nbp < MaxBP
    /\ NotListed(a)
    /\ a \in ShAddr..(ShAddr + ShSize - 1)
    /\ slots' = [slots EXCEPT ![nbp] = [addr |-> a, original_byte |-> FileByte(a)]]
    /\ nbp' = nbp + 1
    /\ UNCHANGED <<traceeVars, pc, path, current, base_addr, last_addr, rip,
                   bp_idx, status, missed, looks>>

\* break on a running program: the user types the run-time address; the byte
\* is read from the tracee, and last_addr itself passes the range check.
BreakRunning(a) ==
    /\ pc = "prompt" /\ current = "RUNNING" /\ nbp < MaxBP
    /\ LET addr == a + bias IN
       /\ NotListed(addr)
       /\ ShAddr + base_addr <= addr /\ addr <= last_addr
       /\ slots' = [slots EXCEPT
              ![nbp] = [addr |-> addr, original_byte |-> Peek(addr)]]
       /\ mem' = Poke(mem, addr, CC)
       /\ missed' = missed \ {addr}
    /\ nbp' = nbp + 1
    /\ UNCHANGED <<tracee, bias, trip, single, trapped, pc, path, current,
                   base_addr, last_addr, rip, bp_idx, status, looks>>

\* vector::erase: the tail moves down, the last element stays behind the end.
Erased(i) == [k \in Slot |-> IF i <= k /\ k < nbp - 1 THEN slots[k + 1]
                                                      ELSE slots[k]]

\* The check of the index.  (Mutant: > for >=.)
IsIndexOrEnd(i) == i <= nbp

IsIndex(i) == i < nbp

\* The byte of a running program.  (Mutant: the entry goes, the int3 stays.)
DisarmedNever(i) == mem

Disarmed(i) == IF current = "RUNNING"
               THEN Poke(mem, slots[i].addr, slots[i].original_byte) ELSE mem

\* The break point the program stands at; bp_idx is looked at only when it is
\* the deleted one.  (Mutant: the rewound registers are not stored.)
LeaveOnly(i) ==
    /\ bp_idx' = IF current = "RUNNING" /\ bp_idx = i THEN -1 ELSE bp_idx
    /\ UNCHANGED <<trip, trapped>>

Leave(i) == IF current = "RUNNING" /\ bp_idx = i
            THEN bp_idx' = -1 /\ SetTrip(rip)
            ELSE UNCHANGED <<bp_idx, trip, trapped>>

\* delete.
Delete(i) ==
    /\ pc = "prompt" /\ IsIndex(i)
    /\ mem' = Disarmed(i)
    /\ Leave(i)
    /\ slots' = Erased(i) /\ nbp' = nbp - 1
    /\ UNCHANGED <<tracee, bias, single, pc, path, current, base_addr,
                   last_addr, rip, status, missed, looks>>

\* set, of a register other than rip: regs goes to the tracee as a whole.
SetReg ==
    /\ pc = "prompt" /\ current = "RUNNING"
    /\ SetTrip(rip)
    /\ UNCHANGED <<tracee, mem, bias, single, sdbVars>>

\* set rip: the new value is stored, then check_if_bp looks at it.
SetRip(a) ==
    /\ pc = "prompt" /\ current = "RUNNING"
    /\ SetTrip(a + bias)
    /\ CheckIfBp(slots, a + bias)
    /\ UNCHANGED <<tracee, mem, bias, single, pc, path, current, slots, nbp,
                   base_addr, last_addr, status, missed, looks>>

\* Where a disasm or dump begins: at an address, or where the last one ended
\* (bound: in a running program only within its segment).
Beginnings(last) ==
    {a + bias : a \in LookAddrs}
    \cup {a \in {last} \ {-1} : current = "RUNNING" => a - bias \in Image}

\* Where a disasm of at most ten instructions that begins at s may end: the
\* bytes are those of the file, or what PTRACE_PEEKTEXT gets, which may be
\* nothing or no instruction.
DisasmEnds(s) == IF current = "LOADED" \/ tracee = "stopped" THEN s..(s + MaxLook)
                 ELSE {s}

\* disasm.
DisasmFrom(s) ==
    /\ pc = "prompt" /\ current # "BEGIN"
    /\ current = "LOADED" => s \in ShAddr..(ShAddr + ShSize - 1)
    /\ last_disasm' \in DisasmEnds(s)
    /\ UNCHANGED <<traceeVars, pc, path, current, slots, nbp, base_addr,
                   last_addr, rip, bp_idx, status, missed, last_dump>>

Disasm == \E s \in Beginnings(last_disasm) : DisasmFrom(s)

\* dump: lines of two words, of a running program only; a line whose first word
\* cannot be read is the end of it.
DumpEnds(s) == IF tracee = "stopped" THEN {s + 16 * k : k \in 0..MaxLines} ELSE {s}

DumpFrom(s) ==
    /\ pc = "prompt" /\ current = "RUNNING"
    /\ last_dump' \in DumpEnds(s)
    /\ UNCHANGED <<traceeVars, pc, path, current, slots, nbp, base_addr,
                   last_addr, rip, bp_idx, status, missed, last_disasm>>

Dump == \E s \in Beginnings(last_dump) : DumpFrom(s)

\* The byte disasm shows of a running program: at a break point in the list the
\* original one.  (Mutant: as the list of a program that does not run.)
ShownRaw(addr) == Peek(addr)

Shown(addr) ==
    IF \E i \in Live : slots[i].addr = addr
    THEN LET last == CHOOSE i \in Live : /\ slots[i].addr = addr
                                       /\ \A j \in Live : slots[j].addr = addr => j <= i
         IN slots[last].original_byte
    ELSE Peek(addr)

\* cont and si.
Continue(step) ==
    /\ pc = "prompt" /\ current = "RUNNING"
    /\ Resume(mem, slots, step)
    /\ UNCHANGED <<bias, path, current, slots, nbp, base_addr, last_addr, rip,
                   bp_idx, status, missed, looks>>

Cont == Continue(FALSE)
Si   == Continue(TRUE)

\* start, or run, of a program that runs already: start only looks again at
\* the registers, run continues.
StartAgain ==
    /\ pc = "prompt" /\ current = "RUNNING"
    /\ CheckIfBp(slots, Fetched)
    /\ UNCHANGED <<traceeVars, pc, path, current, slots, nbp, base_addr,
                   last_addr, status, missed, looks>>

\* start or run of a loaded program: fork, and wait for the child to exec.
Launch(phase) ==
    /\ pc = "prompt" /\ current = "LOADED"
    /\ pc' = phase
    /\ Fork
    /\ UNCHANGED <<path, current, slots, nbp, base_addr, last_addr, rip,
                   bp_idx, status, missed, looks>>

Start == Launch("exec_start")
Run   == Launch("exec_run")

\* fork() failed under start: check_if_bp looks at whatever regs holds.
StartForkFails ==
    /\ "fork" \in Faults /\ pc = "prompt" /\ current = "LOADED"
    /\ CheckIfBp(slots, Fetched)
    /\ UNCHANGED <<traceeVars, pc, path, current, slots, nbp, base_addr,
                   last_addr, status, missed, looks>>

\* fork() failed under run: target_pid is -1, there is nothing to continue, but
\* exec_impl answers true and run() calls waitpid (WaitNobody).
RunForkFails ==
    /\ "fork" \in Faults /\ pc = "prompt" /\ current = "LOADED"
    /\ last_disasm < MaxDrift /\ \A i \in Live : slots[i].addr < MaxDrift
    /\ pc' = "waiting"
    /\ UNCHANGED <<traceeVars, path, current, slots, nbp, base_addr, last_addr,
                   rip, bp_idx, status, missed, looks>>

\* exit: the tracee dies with its tracer (PTRACE_O_EXITKILL).
Quit ==
    /\ pc = "prompt" /\ pc' = "done"
    /\ Reap
    /\ UNCHANGED <<path, current, slots, nbp, base_addr, last_addr, rip,
                   bp_idx, status, missed, looks>>

-----------------------------------------------------------------------------
(* The rest of a command, after the tracee has had a chance to run.        *)

\* parse_maps(true) finds the mapping only under the spelling of maps, and
\* the base of a mapping that is where the file says becomes 0.
FoundBase == IF path = "plain" THEN bias + SegLo ELSE base_addr
FoundLast == IF path = "plain" THEN bias + SegHi ELSE last_addr

\* (Mutant: a fixed-address program is moved too.)
ExecBaseFound == FoundBase

ExecBase == IF FoundBase + ShOffset = ShAddr THEN 0 ELSE FoundBase

\* Memory with an int3 at every break point of s.  (Mutant: but the last.)
ArmedButLast(s) == [x \in Image |-> IF \E i \in Live \ {nbp - 1} : s[i].addr = x + bias
                                    THEN CC ELSE mem[x]]

Armed(s) == [x \in Image |-> IF \E i \in Live : s[i].addr = x + bias
                             THEN CC ELSE mem[x]]

\* exec_impl after its waitpid: the base address, the break points moved and
\* armed, and then check_if_bp (start) or continue_impl (run).
ExecStop ==
    /\ pc \in {"exec_start", "exec_run"} /\ tracee = "stopped"
    /\ base_addr' = ExecBase /\ last_addr' = FoundLast
    /\ slots' = Shifted(ExecBase)
    /\ last_disasm' = DisasmMoved(ExecBase) /\ UNCHANGED last_dump
    /\ current' = "RUNNING"
    /\ missed' = {}
    /\ \/ /\ pc = "exec_start" /\ pc' = "prompt"
          /\ mem' = Armed(slots')
          /\ CheckIfBp(slots', Fetched)
          /\ UNCHANGED <<tracee, trip, single, trapped>>
       \/ /\ pc = "exec_run"
          /\ Resume(Armed(slots'), slots', FALSE)
          /\ UNCHANGED <<rip, bp_idx>>
    /\ UNCHANGED <<bias, path, nbp, status>>

\* SIGKILL meets exec_impl after its waitpid and before parse_maps: the maps of
\* a process that has ended are empty, and every request to it fails.
GoneBase == IF base_addr + ShOffset = ShAddr THEN 0 ELSE base_addr

ExecKilled ==
    /\ pc \in {"exec_start", "exec_run"} /\ tracee = "stopped" /\ Killed
    /\ base_addr' = GoneBase /\ slots' = Shifted(GoneBase)
    /\ last_disasm' = DisasmMoved(GoneBase) /\ UNCHANGED last_dump
    /\ current' = "RUNNING" /\ missed' = {}
    /\ \/ /\ pc = "exec_start" /\ pc' = "prompt"
          /\ CheckIfBp(slots', rip)
       \/ /\ pc = "exec_run" /\ pc' = IF bp_idx = -1 THEN "waiting" ELSE "resumed"
          /\ UNCHANGED <<rip, bp_idx>>
    /\ UNCHANGED <<path, nbp, last_addr, status>>

\* assert(WIFSTOPPED(status)): the child ended before any exec stop.
ExecAbort ==
    /\ pc \in {"exec_start", "exec_run"} /\ tracee = "zombie"
    /\ pc' = "aborted"
    /\ Reap
    /\ UNCHANGED <<path, current, slots, nbp, base_addr, last_addr, rip,
                   bp_idx, status, missed, looks>>

\* continue_impl after the tracee was resumed over a break point: the int3
\* goes back if the tracee is in its next stop by now; errno 3 is ignored.
\* (Mutant: the POKE is tried again until it succeeds.)
RearmRetried ==
    /\ pc = "resumed"
    /\ pc' = IF tracee = "stopped" THEN "waiting" ELSE pc
    /\ mem' = Poke(mem, slots[bp_idx].addr, CC)
    /\ UNCHANGED <<tracee, bias, trip, single, trapped, path, current, slots,
                   nbp, base_addr, last_addr, rip, bp_idx, status, missed, looks>>

Rearm ==
    /\ pc = "resumed" /\ bp_idx # -1 /\ pc' = "waiting"
    /\ mem' = Poke(mem, slots[bp_idx].addr, CC)
    /\ missed' = IF tracee = "stopped" THEN missed \ {slots[bp_idx].addr}
                                       ELSE missed \cup {slots[bp_idx].addr}
    /\ UNCHANGED <<tracee, bias, trip, single, trapped, path, current, slots,
                   nbp, base_addr, last_addr, rip, bp_idx, status, looks>>

\* run(): waitpid reports a stop.
WaitStop ==
    /\ pc = "waiting" /\ tracee = "stopped"
    /\ pc' = "prompt" /\ status' = "stopped"
    /\ CheckIfBp(slots, Fetched)
    /\ UNCHANGED <<traceeVars, path, current, slots, nbp, base_addr,
                   last_addr, missed, looks>>

\* run(): waitpid reports the end of the process.
WaitEnd ==
    /\ pc = "waiting" /\ tracee = "zombie"
    /\ pc' = "prompt" /\ status' = "ended"
    /\ ProgramTerminated
    /\ Reap
    /\ missed' = {}
    /\ UNCHANGED <<path, nbp, last_addr, rip>>

\* run() after a failed fork: waitpid(-1) finds no child and leaves in status
\* what an earlier wait left there, or nothing did.
WaitNobody ==
    /\ pc = "waiting" /\ tracee = "none" /\ pc' = "prompt"
    /\ \/ /\ status \in {"unset", "ended"}
          /\ ProgramTerminated /\ UNCHANGED rip
       \/ /\ status \in {"unset", "stopped"}
          /\ CheckIfBp(slots, Fetched)
          /\ UNCHANGED <<current, slots, base_addr, looks>>
    /\ UNCHANGED <<traceeVars, path, nbp, last_addr, status, missed>>

-----------------------------------------------------------------------------
(* The child between fork and exec, and the program.                       *)

ChildExec ==
    /\ path # "absolute"
    /\ \E b \in Biases : ExecSucceeds(b, Own)
    /\ UNCHANGED sdbVars

\* execvp failed: the child falls out of exec_impl and is a second debugger
\* at its own prompt, while its parent still waits for it to stop.
ChildExecFails ==
    /\ path = "absolute" /\ tracee = "forked" /\ tracee' = "repl"
    /\ UNCHANGED <<mem, bias, trip, single, trapped, sdbVars>>

\* the second debugger is told to exit.
ChildQuits ==
    /\ tracee = "repl" /\ tracee' = "zombie"
    /\ UNCHANGED <<mem, bias, trip, single, trapped, sdbVars>>

ProgramRuns    == Runs /\ UNCHANGED sdbVars
ProgramSignal  == SignalStop /\ UNCHANGED sdbVars
ProgramKilled  == Killed /\ UNCHANGED sdbVars

-----------------------------------------------------------------------------
Breaking ==
    \/ \E a \in BreakAddrs : BreakLoaded(a) \/ BreakRunning(a)
    \/ \E i \in Slot : Delete(i)

Registers == SetReg \/ \E a \in RipTargets : SetRip(a)

Launching ==
    \/ \E k \in Paths : Load(k)
    \/ Start \/ Run \/ StartAgain \/ StartForkFails \/ RunForkFails

Looking == Disasm \/ Dump

User == Breaking \/ Registers \/ Looking \/ Launching \/ Cont \/ Si \/ Quit

Debugger == ExecStop \/ ExecKilled \/ ExecAbort \/ Rearm
            \/ WaitStop \/ WaitEnd \/ WaitNobody

Process == ChildExec \/ ChildExecFails \/ ChildQuits \/ ProgramRuns
           \/ ProgramSignal \/ ProgramKilled

Halted == pc \in {"done", "aborted"} /\ UNCHANGED vars

Next == User \/ Debugger \/ Process \/ Halted

Spec == Init /\ [][Next]_vars

-----------------------------------------------------------------------------
(* Users.                                                                  *)

\* A careful user does not delete another break point while stopped at one:
\* delete_bp does not move bp_idx with the list.
CarefulUser ==
    \/ \E a \in BreakAddrs : BreakLoaded(a) \/ BreakRunning(a)
    \/ \E i \in Slot : bp_idx \in {-1, i} /\ Delete(i)
    \/ Registers \/ Looking \/ Launching \/ Cont \/ Si \/ Quit

CarefulNext == CarefulUser \/ Debugger \/ Process \/ Halted

CarefulSpec == Init /\ [][CarefulNext]_vars

\* A patient user does nothing but cont and si while the program runs.
PatientUser ==
    \/ current = "RUNNING" /\ (Cont \/ Si)
    \/ current # "RUNNING" /\ (Breaking \/ Launching)

PatientNext == PatientUser \/ Debugger \/ Process \/ Halted

\* The scheduler runs the debugger, its child and the program; the user goes
\* on typing cont or si.
Fairness ==
    /\ WF_vars(Debugger)
    /\ WF_vars(ChildExec)
    /\ WF_vars(ProgramRuns)
    /\ WF_vars(Cont \/ Si)

PatientSpec == Init /\ [][PatientNext]_vars /\ Fairness

-----------------------------------------------------------------------------
(* Properties.                                                             *)

AtPrompt == pc = "prompt" /\ current = "RUNNING" /\ tracee = "stopped"

\* The registers the user reads with get and getregs, and stores back with
\* set, are those of the stopped program; at a break point rip may be rewound
\* by the one byte of the int3, and by nothing else (check_if_bp, delete_bp).
RegsCoherent ==
    AtPrompt => IF bp_idx = -1 THEN rip = trip ELSE rip \in {trip, trip - 1}

\* No address is twice in the list, whatever sequence of break, delete, run
\* and termination moved the entries: two entries of one address would take
\* the int3 of the first for the original byte of the second.
BpDistinct ==
    \A i, j \in Live : slots[i].addr = slots[j].addr => i = j

\* Every waitpid of the debugger is answered: exec_impl waits for the child it
\* forked, run() for a process that is there, and when fork has failed, where it
\* calls waitpid(-1), there is no child at all that the call could take for the
\* program or wait for.  The prompt is never back while the program runs.
WaitsAnswered ==
    /\ pc \in {"exec_start", "exec_run"} =>
          current = "LOADED" /\ tracee \in {"forked", "repl", "stopped", "zombie"}
    /\ pc \in {"prompt", "resumed", "waiting"} =>
          tracee \in IF current = "RUNNING" THEN {"stopped", "running", "zombie"}
                     ELSE {"none"}
    /\ pc = "resumed" => current = "RUNNING"
    /\ pc = "waiting" => current = "RUNNING" \/ "fork" \in Faults
    /\ pc = "prompt" => tracee # "running"

\* base_addr, found in maps and by the comparison of exec_impl, is the load
\* bias the kernel chose, and -1 while there is no process; only a process that
\* was killed before parse_maps could look at it has none.
BaseAddrTrue ==
    /\ current # "RUNNING" => base_addr = -1
    /\ current = "RUNNING" /\ path = "plain" /\ pc \notin {"done", "aborted"}
       => \/ base_addr = bias
          \/ "kill" \in Faults /\ tracee = "zombie" /\ base_addr \in {-1, 0}

\* Every byte of the program is its own or an int3 of the debugger: restoring
\* and re-arming break points never writes any other byte.
TextIntegrity == \A x \in Image : mem[x] \in {x, CC}

\* No int3 is left in a stopped program without a break point to explain it:
\* it would end a later cont in a stop the debugger cannot step over.
NoOrphanTrap ==
    AtPrompt => \A x \in Image :
        mem[x] = CC => \E i \in Live : slots[i].addr = x + bias

\* Every break point in the list is armed, but for those whose re-arming found
\* the program running already (the race of continue_impl).
ArmedUnlessMissed ==
    AtPrompt => \A i \in Live :
        slots[i].addr \in missed \/ Peek(slots[i].addr) = CC

\* Every break point in the list is armed while the program stands at the
\* prompt ("- break {instruction-address}: add a break point").
BreakpointsArmed ==
    AtPrompt => \A i \in Live : Peek(slots[i].addr) = CC

\* disasm shows the code of the file, whatever is broken, deleted, stepped and
\* launched again: every int3 is in the list with the byte it replaced.
DisasmShows == AtPrompt => \A x \in Image : Shown(x + bias) = x

\* When the program is launched each break point, and the place where disasm
\* goes on, moves to where the kernel put the byte it named, and when it ends
\* it moves back to its link address, although every launch may have another
\* load bias; the next dump never goes on at an address of the last process.
\* (A process that is killed in exec_impl before parse_maps has no addresses.)
Relocated ==
    /\ current = "LOADED" /\ current' = "RUNNING" /\ tracee' # "zombie" =>
          /\ \A i \in Live : slots'[i].addr = slots[i].addr + bias
          /\ last_disasm' = DisasmMoved(bias) /\ last_dump = -1
    /\ current = "RUNNING" /\ current' = "LOADED" /\ base_addr \notin {-1, 0} \ {bias} =>
          /\ \A i \in Live : slots'[i].addr = slots[i].addr - bias
          /\ last_disasm' = DisasmMoved(-bias)

Relocates == [][Relocated]_vars

\* What the user may think the program does next: past an int3, the instruction
\* whose place the int3 took.
At == IF tracee \in {"none", "forked", "repl"} THEN -1
      ELSE IF tracee = "zombie" THEN -2
      ELSE IF trapped THEN here - 1 ELSE here

Undebugged == INSTANCE Program WITH at <- At

\* The program under the debugger is the program: whatever is broken, deleted,
\* stepped and continued, it executes the instructions of the file in an order
\* the file allows.
Transparent == Undebugged!Spec

\* A command that resumes or launches the program comes back to the prompt.
CommandReturns ==
    pc \in {"exec_start", "exec_run", "resumed", "waiting"} ~> pc = "prompt"

\* A user who goes on typing cont or si gets a terminating program to its end:
\* every command passes the break point the program stands at.
Terminates == current = "RUNNING" ~> current = "LOADED"
=============================================================================
