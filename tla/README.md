# A verification project for 1082UNIX

TLA+ models of the programs of this repository, TLC configurations that check
them on small instances, and theorems about them checked by TLAPS. The
repository is a set of Unix programming assignments; the one with the richest
behaviour is the debugger of `homework4/0756706_samuel`. The small tracers beside
it, its ELF reader, the netstat clone of `homework1` and the two preloaded
libraries of `homework2` (a sandbox and a monitor of library calls) are modelled
too.

## 1. Inventory

| Part | Source | State it keeps | Operations | Hard behaviour |
|---|---|---|---|---|
| SDB debugger | `homework4/0756706_samuel/sdb.cpp` | state (BEGIN, LOADED, RUNNING), break point vector, `bp_idx`, `base_addr`, `last_addr`, cached `regs`, `last_disasm`, `last_dump`; the traced process | load, run, start, cont, si, break, delete, list, set, get, getregs, disasm, dump, vmmap, exit | runs beside the tracee after `ptrace(command)`, waits for it, attributes stops to break points, relocates addresses at every exec, fork and exec fail |
| ELF reader | `elftool.c` | the handle and its tables | open, load all, close | each of many reads may fail half-way |
| Tracers | `countme`, `Syscall`, `NoMoreTraps`, `traceme` | counter, enter toggle, list position | one loop each | what a stop means is guessed from its order |
| netstat clone | `homework1/hw1.cpp` | columns of `/proc/net/*`, pids, command lines | three scans of one table, a scan of `/proc`, a print | sockets and processes come and go between the scans |
| Sandbox | `homework2/inject.cpp`, `command_launcher.cpp`, `choice.cpp` | `BASE_PATH` in the environment, the heap, the working directory | one wrapper per library call, launcher, dispatch on `argv[0]` | calls share and change the environment; strings are appended to memory nobody initialised |
| fsmon | `homework2/samuel_1072hw2/hw2` | map of open directories, a descriptor for the log | a constructor, one wrapper per library call | threads open and close descriptors and directories between a wrapper's look-up and its real call |
| Assembly exercises | `homework3/*.asm` | registers | loops, a sort, a recursion | flags, widths, off-by-one |
| CapStone quiz | `homework4/CapStone` | none | calls a disassembler | none |

The parts do not call one another, with two exceptions: the debugger uses the
ELF reader at `load`, and the launcher starts its command with the sandbox
library preloaded. All tracers and the debugger share the same environment,
the kernel's ptrace.

What makes each part correct:

* *Debugger*: the program it runs is the program on disk, in the same order of
  instructions; every break point of the list is armed and nothing else is;
  the registers shown are those of the program; every command comes back.
* *ELF reader*: what is open is closed once, what is allocated is reachable.
* *Tracers*: the count is the count of instructions or system calls; entries
  and exits are not confused; the patches go to the traps they belong to.
* *netstat*: a row joins columns of one socket and names an owner of it.
* *Sandbox*: a call below the base path behaves as without the sandbox, others
  return -1 with `EACCES`; the answer does not depend on earlier calls.
* *fsmon*: a log line names what the call acted on, and the program notices
  nothing of the monitor.

## 2. Plan

Order of work; all is done but item 7.

1. `Tracee`, `Program`, `SDB`, `SDBProofs`: the debugger's execution control.
2. `Tracers`, `TracersProofs` on top of `Tracee`: instruction counter, system
   call log, trap patcher. `TraceeProofs` holds the lemmas both share.
3. `Netstat`, `NetstatProofs`: the scans against a changing system.
4. `ElfTool`, `ElfToolProofs`: life cycle of the handle under failing reads.
5. The inspection commands of the debugger, in `SDB`: `last_disasm`, `last_dump`.
6. `Sandbox`: launcher, wrappers and the environment they share. `Libc`, `Fsmon`,
   `FsmonProofs`: the library, a monitor around it, that it is not noticed,
   and that the lines it writes are true. `SandboxProofs`: the folds over names.
7. The exercises of `homework3` as functions against reference definitions, and the
   conversions of the netstat clone (`split_colon`). Left out, see section 9.
8. `SDBCarefulProofs`: the safety properties and the refinement for the careful
   user, for every program with instructions of at least two bytes.

Which composes which: `SDB` and `Tracers` extend `Tracee` (the process they
trace) and instantiate `Program`, the abstract specification of a process
nobody traces, which both must implement. `Fsmon` extends `Libc`, whose calls it
wraps, and instantiates it again as the abstract specification: a monitored
program is a program with the library alone, up to the numbers and error codes it gets. `Netstat` stands alone, with the
system it observes inside it, and so does `Sandbox`, whose three programs share
only the environment. `ElfTool` is what `SDB` takes for granted when
`Load` succeeds; `SDB` needs of it that a load completes or changes nothing
(`LoadedOrClean`).

## 3. The debugger

### Modules

* `Tracee` is the environment: a process with a code segment `mem`, an
  instruction pointer `trip` and a ptrace state (`tracee`). `Peek`, `Poke` and
  `SetTrip` are the requests the tracers send: they work on a stopped tracee
  and fail without effect otherwise (ESRCH). Its steps are instructions
  (`Execute`, `Exit`), the int3 trap (`Trap`, which leaves `trip` past the
  byte), damaged code (`Misexecute`), signals and SIGKILL. A byte is named by
  its link address, so "intact" means "carries its own name".
* `Program` is the abstract specification: a program without a debugger.
* `SDB` is `class SDB`. `pc` says where the command loop is: `prompt`;
  `exec_start`, `exec_run` (in the `waitpid` of `exec_impl`); `resumed`
  (between `ptrace(command)` and the POKE that re-arms); `waiting` (in the
  `waitpid` of `run`); `done`; `aborted`. Other variables have the names of the
  members. `slots` is the memory of the vector and `nbp` its size: `erase`
  leaves the last element in place, which matters because `bp_idx` is used
  without a check. `rip` is `regs.rip`, the only register with a role.
* `MCSDB` gives TLC its programs. `SDBProofs` holds the theorems for every user,
  `SDBCarefulProofs` those for the careful one.

### Code and actions

| Code | Definitions |
|---|---|
| `load_prog` | `Load` (a failed load leaves BEGIN: a stuttering step) |
| `set_bp` | `NotListed`, `FileByte`, `BreakLoaded`, `BreakRunning` |
| `delete_bp` | `IsIndex`, `Disarmed`, `Leave`, `Erased`, `Delete` |
| `set_reg` | `SetReg`, `SetRip` (the latter with its `check_if_bp`) |
| `exec_impl`, `start_exec`, `exec` | `Start`, `Run`, `StartAgain`, `ExecStop`, `ExecAbort`, `StartForkFails`, `RunForkFails`, `ExecKilled` with `GoneBase`; child side `ChildExec`, `ChildExecFails`, `ChildQuits`; `run` while RUNNING is `Cont` |
| `parse_maps(true)` | `FoundBase`, `FoundLast`, `ExecBase` |
| `continue_impl` | `Lifted`, `StoreRegs`, `Resume`, then `Rearm` |
| `run` | `WaitStop`, `WaitEnd`, `WaitNobody` (no child to wait for); `program_terminated` is `ProgramTerminated`, `check_if_bp` is `CheckIfBp` |
| `dis_asm` | `Disasm` with `Beginnings` and `DisasmEnds`; what it shows is `Shown`; `DisasmMoved` is its part of `exec_impl` and `program_terminated` |
| `dump_mem` | `Dump` with `DumpEnds` |
| `vmmap`, `list`, `get`, `getregs`, `help` | change nothing |

While the tracee is stopped and the debugger is at work nothing else moves, so
the code between two blocking calls is one action; the one place where both
move is between the resume and the POKE, and it is two actions.

Refused commands (messages only) change nothing and are stuttering steps.
Definitions whose comment says *Mutant* are deliberately wrong variants of the
definition that follows; they are used only to see that a property notices.

### Environment and abstractions

* File layout: the executable segment begins at file offset 0, as in the two
  binaries beside the debugger (`guess`, position independent; `hello64`, fixed
  address) and on the system its README names. `Biases` holds the load biases
  of a position-independent file; the debugger does not disable randomisation,
  so every exec may get another one.
* PEEK and POKE move words; their seven upper bytes are written back as read and
  are left out. The program does not write its code, has one thread and no
  int3 of its own, and does not fork.
* Uninitialised members (`regs`, `last_addr`) start with any value of
  `Garbage`, the uninitialised `status` of `run()` allows both readings.
* Reading the stale slot past the end of the vector is undefined in C++; with
  the standard library's vector it reads the element left there, and that is
  what the model does.
* `disasm` and `dump` begin at an address of `LookAddrs` or where the last one ended. `disasm`
  shows at most ten instructions and ends at any of up to `MaxLook` bytes further, also where it began
  (what it read need not be an instruction); `dump` ends after up to `MaxLines` lines of 16 bytes.
  What cannot be read, as of a process that was killed, is not passed.
* `run` whose fork failed goes on to the wait of the command loop like any other (`RunForkFails`, then
  `WaitNobody`): `waitpid(-1)` has no child, and `status`, a local nobody set, is read as it is.
* The child may be killed between the wait of `exec_impl` and `parse_maps` (`ExecKilled`): then there are
  no maps, `base_addr` stays -1 and the list is moved by it.
* The second debugger that a failed exec leaves behind is followed only until
  it ends (`ChildQuits`).

Bounds: `MaxBP` (length of the list), `MaxDrift` (how far failed runs may push
addresses), `MaxLook` and `MaxLines` (how far one disasm or dump goes), the sets of typed addresses (`BreakAddrs`, `RipTargets`, `LookAddrs`).
Two break points at most are needed for a stale index, three for a shifted one
that is neither the end nor its old place; one address to look at is enough
for a remembered place to outlive a process.

### Properties and runs

`sdb_full` - every user and every fault, a fixed-address program with a
one-byte instruction, two break points, one of them at `last_addr`.
`TypeOK`; `RegsCoherent` (registers shown are the program's, or rewound by
one); `BpDistinct` (no address twice); `WaitsAnswered` (which process each wait is for: that of
`exec_impl` has a child, that of the command loop has a program, or none in the one case of a
failed fork, and the prompt is never back while the program runs); `BaseAddrTrue` (what
`parse_maps` and the comparison of `exec_impl` find is the load bias, unless the process was killed before).

`sdb_careful` - a loop of two-byte instructions, position independent with two
biases, three break points, signals, a user who does not delete another break
point while at one (`CarefulSpec`, by `CarefulUser`). `Transparent`: the debugged program
implements `Program`, with the instruction pointer at an int3 mapped back to
the instruction it replaced (`At`). `TextIntegrity`, `NoOrphanTrap`,
`ArmedUnlessMissed`. `DisasmShows`: disasm, which hides the int3s by the list and not
by reading, shows the bytes of the file after every sequence of commands. `Relocates`:
launch and termination move every break point and the place where the next
disasm goes on by the true load bias and back, and no dump goes on at an
address of a process that is gone. Three break
points make a shifted index differ from both the end and its old place; a loop
makes the program come back to a break point it has passed.

`sdb_patient` - liveness. `CommandReturns`: resumed, launched, the debugger
comes back to the prompt, also when its fork failed and it waits for nobody. `Terminates`: with cont and si only, a program that
ends does end. Fairness: weak fairness of the debugger, of its child's exec and
of the program (the kernel schedules runnable processes), and of the user's
typing cont or si. The program is acyclic and gets no signals here: a program
that loops, or is signalled for ever, need not stop.

No property says that a cont ends at another break point than the one it began at. In a program that
comes back to a break point it should end there again, and it often does not, because the int3
was lost (`sdb_race`).

Counterexamples, each a run with one property:

* `sdb_race`: `BreakpointsArmed`. The int3 is poked back after the resume. If
  the program has not stopped again by then the POKE fails, the failure is
  ignored (`errno != 3`), and the break point is lost for this run of the
  program. `ArmedUnlessMissed` in `sdb_careful` shows that this race is the only
  way to lose one, for the careful user.
* `sdb_onebyte`: `Terminates` with a break point on a one-byte instruction. After
  it was stepped over, the program stands one past a listed address;
  `check_if_bp` rewinds it, and si executes the same instruction again.
* `sdb_orphan`: `NoOrphanTrap` without the careful user. `bp_idx` is not moved by
  `erase`; after a lower and then the current break point were deleted, cont
  re-arms a break point that is in no list.

Deadlock is checked in all runs; `done` and `aborted` are the only final states.

### Proofs

`SDBProofs` proves for `Spec`, that is for every program, every set of faults,
every list length and every user:

* `TypeCorrect`: `Spec => []TypeOK`.
* `EveryWaitAnswered`: `Spec => []WaitsAnswered`.
* `RegistersCoherent`: `Spec => []RegsCoherent`.
* `BreakPointsDistinct`: `Spec => []BpDistinct`.

`TypeOK` is inductive as it stands; one lemma per shared piece (`Poke`, `Shifted`,
`Erased`, `CheckIfBp`, `Resume`) says what it returns, and the step proof has one
case per action. `WaitsAnswered` is inductive with it: it says in which
phases a tracee may be running. `RegsCoherent` alone is not inductive - a
tracee that ran at the prompt would leave the cached registers behind - and
becomes so with `WaitsAnswered`. `BpDistinct` rests on three lemmas: a common
shift keeps addresses apart (`ShiftedDistinct`), so does a push of an address
not in the list, and so does the erasure, which never moves two entries onto one.

Two more hold under an assumption about the file and its name:

* `BaseAddressTrue`: `Spec => []BaseAddrTrue`, if the file is of one of the two kinds
  `exec_impl` can tell apart (`AnyKind`: linked at 0 with `.text` at its offset, or mapped
  where it was linked). `Biased` says that a running process has a bias the kernel
  may choose; from it follows what the comparison of `exec_impl` computes (`ExecBaseTrue`).
* `AddressesFollow`: `Spec => Relocates`, if also the file is named as `maps` names it
  (`PlainOnly`). With any other spelling addresses move by -1. It needs `DumpOver`: a
  place for the next dump exists only while the program runs.

`SDBCarefulProofs` proves, for `CarefulSpec`, every program, any number of break points,
launches and signals:

* `TextStaysWhole`, `NoTrapOrphaned`, `LostOnlyByTheRace`, `DisasmIsTheFile`: always
  `TextIntegrity`, `NoOrphanTrap`, `ArmedUnlessMissed`, `DisasmShows`.
* `RunsUndisturbed`: `CarefulSpec => Transparent`, the refinement.

None of the four invariants is inductive, and none can be proved without the
others. `CareInv` adds: each entry of the list lies at an address the user asked for and holds that
address's own byte (`Home`); each int3 is in the list (`Explained`); each entry is
armed, missed, or being stepped over (`Armings`); a program that does not run has no
int3 and no current break point (`Unbroken`); `bp_idx` is an index of the list, set
while it is stepped over (`Standing`); the program is stopped while the user types
(`Stopped`). Each is kept by an action only because of the others: the erasure of
an entry keeps `Explained` because its int3 was disarmed, which is true because the
entry holds the right byte; the POKE after a step keeps it because `bp_idx` is an
index, which is what the careless user breaks. The refinement adds `PlaceInv`: `here`
is an instruction of the program and an int3 the program stands past is in the
list. A step of the program maps to the same instruction of `Program`; an int3 and
its rewinding map to a stutter.

What is assumed, and why it cannot be dropped: break points lie in the mapping
(`InMapping`; at `last_addr` PEEK fails and -1 is recorded as the original byte);
`AnyKind` and `PlainOnly` as above; no failed fork and no SIGKILL (`NoOutsideFaults`:
after either the code goes on with a process that is not there); for the
refinement also that the user does not set `rip` (`NoJumps`, a jump is no step of the
program) and that instructions have two bytes or more, do not overlap, and break
points are asked for on instructions (`Sound`; `sdb_onebyte` shows what happens otherwise).

Assumptions of the constants: `ProgramAssumption` and `DebuggerAssumption`, which say that the
constants describe a program and a `.text` section inside its segment. They are
evaluated by TLC in every run.

Model-checked only: the liveness of `sdb_patient`, which is out of the prover's reach.

## 4. The tracers

`Tracers` models `countme/counter.cpp`, `Syscall/count_syscall.cpp` and
`NoMoreTraps/write_tracee.cpp`. They share their beginning, so they share a
module; `tool` says which of them a behaviour is about.

| Code | Definitions |
|---|---|
| fork, first `waitpid`, `PTRACE_O_EXITKILL` | `ForkChild`, `ForkFails`, `FirstStop`, `FirstEnd`; child side `ChildExec`, `ChildExecFails` |
| counter's loop | `CountAndStep`, `WaitStop`, `WaitEnd` |
| count_syscall's loop | `ToNextSyscall`, `WaitStop` with `SyscallStop`, `LogSyscall` with `Xor1` |
| write_tracee | `ListMissing`, `Patch` with `InjectByte`, `PatchAt`, `GoOnAt` (rip and rdx) |
| any failed ptrace, SIGINT | `GiveUp`, `Interrupted` |

The kernel's side of PTRACE_SYSCALL (`EnterKernel`, `LeaveKernel`) is external,
as is the prepared binary whose instructions were replaced by int3 (`Loaded`).

Abstractions: the list `no_more_traps.txt` is a function `inject_byte` on `0..Listed - 1`;
what lies behind it in memory is `BadByte`. Of
the registers rip and rdx are modelled, the two the tools write: `write_tracee` copies rax over rdx at every
patch. `SetsRdx` and `UsesRdx` are the instructions that set and read it, and `rdx` says whose value
it holds. Signals arrive when the program is
outside the kernel, where they are delivered. `MaxSignals` bounds them.
`trace.cpp` prints only and is left out.

Run `tracers`: a branching program with two system calls and three replaced
instructions, every fault, two signals (two are needed to see one before and
one after a system call). `CountAccounts` says what the counter's number is;
`ToggleAgrees` that entries and exits are told apart by the toggle; `PatchesRight` that each
byte of the list goes into its own instruction as long as all stops are int3s;
`NotLeftBehind` that no program survives its tool once it runs; `RunsTheProgram` that the
program takes the steps of its file, patched or not, and that each instruction that reads rdx reads
what the program put there. Under `write_tracee` the second half is false in general and claimed only of a program
that spares rdx (`RdxSpared`: no instruction it may come to with the tool's value reads it),
as that of `MCTracers` does (`BranchSpares`). `ToolEnds`: each tool
ends. Fairness: the scheduler runs the tool and its child.

Proved in `TracersProofs`, for every program, list and fault:

* `TracersTypeCorrect`: `Spec => []TypeOK`, inductive as it stands.
* `CountIsAccounted`: `Spec => []CountAccounts`. It needs `CountInv`, which adds
  that a program runs only while its tool waits (`RunsAwaited`), hence that
  no instruction is executed between a count and its wait.
* `ToggleFollowsKernel`: `Spec => []ToggleAgrees`. It needs `ToggleInv`: in each phase the
  tool either expects what the kernel does next (`Expecting`) or has a stop to
  log that the kernel has already counted (`Logging`).

* `NothingLeftBehind`: `Spec => []NotLeftBehind`. It needs `LeftInv`: a tool that is in its
  loop has set EXITKILL, and one that still waits for its first stop has a
  child that has not moved.

Two more hold if the list of bytes fits the program (`ListFits`), for without a fitting
list no patch can be right. `Fits(R)` says what that means: R is a set of places with the holes
filled by then, closed under the program's steps, and an open hole the program comes to
is the next on the list. Order alone would not do, since a program that branches may come to its
holes in several orders. For the program of `MCTracers` TLC evaluates it (`BranchFits`).

* `ListInStep`: always `PatchesRight`.
* `RunsAsItself`: `Spec => RunsTheProgram`, the refinement, for all three tools.

Both rest on `Faithful(R)`: the program under write_tracee is at a place of R, its holes are filled
as R says, and `idx` is the number of holes filled (`Prepared`); the memory of the
others' programs is that of the file (`Unchanged`). A patch fills the hole the program
stands in because that hole is the next on the list, and it is the next because
`idx` counts the filled ones; after it the program goes on at the start of its
own instruction, so the int3 and the patch together map to a stutter. For rdx, the places of
`Overwritten` are closed under the program's steps, so the tool's value is only where that set is.

`ToolEnds` is model-checked only.

## 5. The netstat clone

`Netstat` holds the tool and the system it observes. A socket is a number that
stands for its inode and its two addresses; numbers follow the order of the
kernel's table, so a column read from `/proc/net/*` is a set. The tool's
vectors keep their names (`inodes`, `tcpudp_pid`, ...).

| Code | Definitions |
|---|---|
| `main` | `Requested`, `Init` |
| `parse_TCPUDPFIELD`, three times | `Pass`, `Column`, `ReadInodes`, `ReadLocals`, `ReadRemotes`, `PassFails` |
| `search_pid` | `SearchPid` |
| `search_tcppid`, `search_socketinode`, `is_tcpsocket` | `OpenDir`, `First`, `Others`, `ReadLink`, `Entered`, `IsTcpSocket`, `LinkGone`, `AllSearched` |
| `search_cmdline` | `MoreOwners`, `ReadCmdline`, `CmdlineFails` |
| `print_table` | `Matches`, `Throws`, `Place`, `Printed`, `Positions`, `PrintTable`, `PrintAborts` |

The system (`Close`, `Open`, `Die`) is external: descriptors are closed, sockets
opened, processes end and become zombies or vanish at any point between two
system calls of the tool. A socket that nobody holds leaves the table or
lingers in it with inode 0.

Abstractions: one pass over a table is one step, since the kernel fills a page
of rows at once; addresses are not formatted; a filter is the set of processes whose
command line contains it; the uninitialised byte behind `linktype` is either
value of `Tails`. Descriptors are counted (`nfds`), because the tool closes
neither tables nor directories; `MaxFiles` is the limit. `MaxChanges` bounds the changes of the
system. `Missing` holds the tables the kernel does not have (`tcp6` and `udp6` without IPv6), `Nameless` the
live processes whose command line is empty. The tool's own process is not among the scanned ones: it holds no
socket.

Run `netstat`: two processes with two descriptors each in every arrangement, two
TCP sockets and one UDP socket, all options, one change at any point, and a
limit of 9 descriptors, which a run over two families with both directories
exceeds; there is no udp6 table, and the first process is nameless. `OwnersReal`: who is entered or printed has held a socket of that table.
`QuietScanComplete`: the scan of a quiet system enters each visible process once per descriptor.
`FailsForAReason`: an exit, a crash or an uncaught exception has one of the
named causes: a change, the limit, a misread link, a missing table of a family asked for, an owner without a
command line, a socket without an owner. In a system that does not change the last three are enough. `PrintsOwners`: when each socket has one descriptor and they come in the
order of the table, the rows are the truth. `ToolEnds`, under weak fairness of
the tool: it waits for nobody.

Run `netstat_rows` (counterexample): `RowsTrue`. The rows join two lists by position
that are ordered by different things, so two processes are enough to swap
their owners, in a system that does not change.

Proved in `NetstatProofs`, for every system, filter, limit and number of changes:

* `NetstatTypeCorrect`: `Spec => []TypeOK`. The state splits into the system's half and the
  tool's half, and every step leaves one of them alone (`TypeSplit`).
* `OwnersAreReal`: `Spec => []OwnersReal`. It needs `OwnersInv`: every holding is recorded
  when it begins (`Recorded`) and the columns hold sockets of the family being printed
  (`ColumnsOfTable`). The history `held` only grows (`HistoryGrows`), which is why no
  later change of the system can make an entry false.

* `QuietScan`: always `QuietScanComplete`.
* `FailuresHaveReasons`: always `FailsForAReason`.
* `PrintedIsTrue`: `Spec => PrintsOwners`.

These three rest on `QuietInv`, which says how far a scan has got as long as nothing has
disturbed it. `Columns`: what has been read is the whole table. `Ahead`: processes and
descriptors still to be looked at come after those that were, in the order of `Lex`.
`InOrder`: there is a list `e` of descriptors, ascending in `Lex`, of exactly those looked at
that lead to a listed socket, and entry i of `tcpudp_pid` is the process of `e[i]`.
`Ahead` is why a descriptor found now can be put at the end of that list (`ListLonger`). At
the end of the scan `e` is a one-to-one correspondence: within one process it gives the
count of `QuietScanComplete`; from sockets with a visible owner into entries it shows that
the owners do not run out before the rows, so that `at` cannot throw (`OwnersSuffice`); and where it is
an isomorphism of orders the position of a socket in its column is the position of its owner
(`PlaceIsRank`), which is the truth of the join. `QuietInv` was checked by TLC before it was proved.

* `ToolAdvances`: each step of the tool lowers `Work` in a well-founded order, and no change of
  the system raises it, for every system and however often it changes.

`Work` counts, from the left, the families to print, the phases of a scan, the processes and the
entries of the directory to look at and the command lines to read. The order (`Sooner`) compares
such tuples lexicographically; it is well-founded by the library's theorem on pairs, applied four times.
This is the part of `ToolEnds` that a proof can reach. That the tool is never stuck (`ENABLED`) and
that it is scheduled (fairness) is model-checked: `ToolEnds` itself is no theorem.

## 6. The ELF reader

`ElfTool` models `elftool.c` and `load_prog` around it, in terms of ownership. An
object (a descriptor, libelf's handle, a block of memory) is named by its role, its section
and the number of the load, and `heap` is the set of those that exist. A pointer is modelled by
whether it is set and for which section.

| Code | Definitions |
|---|---|
| `elf_open` | `ElfOpen`, `ElfOpenFails` with `ErrQuit` |
| `elf_load_all` | `LoadPhdr`, `LoadShdr`, `HeadersFail`, `LoadAllFails` |
| `elf_load_strtab` | `StrtabSection`, `StrtabFails`, `StrtabDone` |
| `elf_load_symtab`, `elf_load_dsymtab` | `LoadSymtab`, `SymtabUnread`, `SymtabMissing` |
| `elf_close`, `~SDB` | `ElfClose`, `GiveUp`, `Quit` |
| rest of `load_prog` | `Found`, `NotFound` |

`phdr`, `shdr`, `strtab` and `table` are the fields of the handle, `chain` and `i` the
locals of `elf_load_strtab`. Abstractions: a file is its sections' types, links
and whether one is called .text; 32 and 64 bits do not differ; libelf delivers
headers when it has opened a file; section names lie inside the name table. The
header of section 0, which no code sets, is any of `Junk`, and the unset
`symtab->strtab` is null or `Wild`. A symbol table whose linked string table is not
there is kept if it is `Wild`: the code reads the field before it is set (elftool.c:227). No property is
claimed of that field, since one would only repeat the loop that sets it. Bounds: `MaxSections`, `MaxLoads`.

Run `elf`: eight files (complete; links that lead nowhere; without .text, names, string
tables, section headers or program headers; of another class), two loads, all
failures. Two loads show that what one loses is not found again by the next.
`PointersLive`, `FreedOnce`, `LostOnly` (what is lost, exactly: the symbols of
symbol tables, which `elf_close` does not free, and one string table per load that could
not be read), `LoadedOrClean`. A handle stays open as long as the
debugger, and each loss is bounded by a file, so `LostOnly` is stated as what the
code does and not as a finding.

Proved in `ElfToolProofs`, for all files, junk and failures: `ElfTypeCorrect`, `PointersStayLive`,
`NothingFreedTwice`. The last two are proved together as `OwnerInv`, since nothing is freed
twice only because every pointer is live when it is freed, and need `Phases`: which
pointers can be set in which phase of a load. `FreeTables` and `CloseFrees` say what the
two shared error paths do.

`LoadsAllOrNothing` (always `LoadedOrClean`) is proved by `LoadInv`, which says what each phase of a load already
has - headers, string tables of that type, no symbol table before the string
tables are complete - and therefore what the symbol tables find to link to.

`LittleIsLost` (always `LostOnly`) is proved by `LossInv`. What is lost in one load has to be told
from what is lost in another, so objects are numbered by load and none has
a number not given out yet; a load that has not failed has lost nothing but symbols, so
the string table that cannot be read is its first other loss; and a symbol table is loaded
into an empty field, so no table is lost by overwriting its pointer.

## 7. fsmon

`Libc` is the abstract specification: a program of several threads, and the library
and kernel that answer its calls one at a time. `Fsmon` adds the monitor. A call of
the program goes through `at = "program"`, `"library"` (the wrapper has begun) and `"back"`
(the real function has answered), so the other threads run between the look-ups
of a wrapper and its real call.

| Code | Definitions |
|---|---|
| `init` (the constructor) | `Construct`, `MonitorInit` |
| a wrapper up to its real call | `Enter` with `SaysBefore`, `ReadFd`, `StdName` |
| the real call | `Real`: `Answer` of `Libc` (`AnswerOpen`, `AnswerUse`, `AnswerClose`, `AnswerDup`, `AnswerDir`, `AnswerPath`, `Fails`) |
| the rest of the wrapper | `Leave` with `Given`, `Names`, `Errno`, `ListAfter`, `Erased`; `Crash` with `Crashes` |

About fifty wrappers fall into thirteen operations: two wrappers are one operation
if they look up the same things at the same places and do the same to
descriptors and directories. A FILE* is named by its descriptor. The kernel gives the lowest free number
(`Free`, with `Lowest` true), so the log takes one the program would have had. The program uses
what it was given, and nothing another call of it is busy with; and it duplicates (`dup2`) onto any
number at all, as `testcases/file.c` does with 1000, the log's included. Two threads of
which one asks for a number of its own choice while another is about to be given one are left
out (`NoneComing`, `NoneTaking`): which of them gets it is then a race of the program itself.
Closing descriptors it was not given, as daemons do, is left out too.

Bounds: two threads (one opens while one closes), a file, two directories (so that
a wrong name differs from the right one) at one address, three descriptors,
of which descriptor 2 and the log's are taken at first, `MaxOpen` descriptors at a time. Threads and
directories are symmetric. `CanFail` has every operation but close, fclose and closedir. The run has a log file;
the theorems hold also for a log that is a duplicate of descriptor 2 and for none.

Run `fsmon`. `NamesRight`: each name in a line is that of the object the call acted on,
although other threads open, close and duplicate between the look-up and the call. `DirsKnown`:
an open directory the program knows is in `open_list` under its name. Both except addresses in
`reused`: closedir erases its entry after the directory was closed, and another
thread's opendir may have been given the same address meanwhile; its new entry is then
lost. `LogApart`: no line gets into a file of the program, though the log is a descriptor
in the same table, unless the program has duplicated onto its very number (`taken`).
`AsUsualButNumbers`: the refinement of `Libc`, with the monitor's descriptor hidden.

Where the monitor is noticed, against "Monitored executable can work as usual" (README of hw2, line 9). The
refinement leaves these open, and the model has every one of them:

* the first open of the program returns 4 and not 3 (0756706_hw2.cpp:82 and 87; fsmon.log:1 shows it):
  hence "any free number" (`Lowest <- FALSE`);
* errno after a failed call is that of a later readlink or dprintf, as after creat
  (196, 119): hence the error code of a failed call is not compared (`Errno`: lost after creat, fopen,
  fdopen, dup and dup2 and wherever there is no log, kept by open, and by the others unless the dprintf to the log fails);
* a failed fopen or fdopen and fflush(NULL) end the program in `fileno(nullptr)` (278, 286, 461): hence a safety
  refinement, which holds up to that step (`Crash`);
* a dup2 onto the log's number replaces the log, and later lines go into the program's file (238).

Proved in `FsmonProofs`, for any number of threads, descriptors, files and directories:

* `TypeCorrect`: `MonitorSpec => []TypeOK`, with the kinds of arguments and results in it.
* `LogSeparate`: `MonitorSpec => []LogApart`. It needs `Owned` and `Apart`: which descriptors belong
  to the program, those of calls in progress included, and that the monitor's is none of them
  unless it is in `taken`.
* `MonitoredAsUsual`: `MonitorSpec => AsUsualButNumbers`, with any failures and any log. A free number of
  the monitored program is one of the library's, because what the program does not have is
  closed or the log's.

Also there, for as many threads, under `ClosedirWorks` (`closedir` does not
fail; one that did would erase the entry of a directory still open, and its name would be
missing from every later line):

* `LinesNameTheTruth`: always `NamesRight`, by `FdInv`. Some wrappers ask for the name of their
  descriptor only after the real call. It is the right name because such a descriptor still
  belongs to the call and to no other one in progress (`ReadsRight`, `Alone`), and
  a name looked up before the call was right then (`SaidRight`).
* `DirectoriesKnown`: always `DirsKnown`, by `DirInv`: every open directory is listed under its name
  or its address is in `reused` (`Listed`), and so is the address where an older closedir
  has still to erase while another directory is open there (`ClosedListed`).

## 8. The sandbox

`Sandbox` has the three programs in one module, since what they share is the
environment: the launcher writes `BASE_PATH`, the library in the program reads it, and
cuts it.

| Code | Definitions |
|---|---|
| launcher: constructor, options, `execvp` | `Init`, `Option` with `SetBase`, `Usage`, `Launch` |
| `choice`: dispatch on `argv[0]` | `Ask`, `AskAny`, `NameMissing`, `Ends` |
| `is_sub_directory` | `Components`, `Text`, `Meaning`, `Parent`, `Absolute`, `Contains`, `Accepts`, `Cut`, `Verdicts` |
| the wrappers | `Check`, `CheckEmpty`, `Refuse` with `Denied`, `Call`, `NotFound` |

Wrappers differ in how many names they check (one, two) and in whether they refuse
always (exec, system). A name is a sequence of components; what `is_sub_directory` builds
from it is a string, and it asks with `strstr` whether one string occurs in another.
`StartsWith` holds the pairs of components for which that differs from equality (`sub2`
contains `sub`). `strtok` writes into the environment: after one check `BASE_PATH` has only
its first component (`Cut`). The strings are appended to memory from `new` that nobody
initialised. Fresh from the kernel it is zero; after the program has used the heap (`getpwnam` in `choice`)
the answer is any (`Verdicts`).

A name that begins with a dot or a tilde gets no `./`, also when it is not `.`, `..` or `~` itself; `Hidden`
holds the components of that kind (`.rc`, `~u`). PWD may be any directory, also / or one just below it, where
the parent is the empty text.

Bounds: eight base directories (absolute, relative, `~`, `..`) and fourteen names of up to three
components around one home directory; two options, so that the second overrides the
first; two calls of up to two names, so that a check follows a cut within a call and across calls.

Run `sandbox`. `GrantedWorks`: until the program moves by chdir, while memory is
fresh, a plain name below the base is not refused, by whichever check of whichever call. `NeverWithdrawn`: no
check on a fresh heap refuses a name that an earlier one granted. `RefusalStands`: none grants a name that an
earlier one refused, if the base has one component. The last two compare a verdict
with one given before `BASE_PATH` was cut. What is accepted beyond the base is not
claimed: the comparison of strings accepts more than what lies below. On a heap that was used a
check may answer anything, and nothing is claimed of it.

Where a sandboxed program does not "work as usual" (README of homework2, line 9), and what the properties
therefore except:

* a name in PWD that begins with a dot or a tilde: `.rc` is read as `/.rc` and refused (inject.cpp:79; `Hidden`);
* relative names after a chdir, which PWD does not follow (105; `cwd = Pwd`);
* `..` where PWD is just below /, and PWD / itself, whose texts are empty or have a slash too many (88-90);
* a base of several components: after the first check only its first component is left,
  and what was refused below it is granted (127; `RefusalStands` has the length in it).

Proved in `SandboxProofs`, for every home, every set of bases and names of any length:

* `TypeCorrect`: `Spec => []TypeOK`.
* `NothingWithdrawn`: `Spec => []NeverWithdrawn`. Once the program runs, `NothingYet` and
  `GrantSteps` reduce it to one fact about the check: what is accepted under a base is accepted
  under what strtok leaves of it (`AcceptsCut`), because the text of the first component is
  the beginning of the text of the whole (`AbsoluteBegins`).
* `NothingConceded`: `Spec => []RefusalStands`. A base of one component is never cut (`BaseUncut`), so every
  check compares with the same base (`DenialsStand`).
* `PlainNamesGranted`: `Spec => []GrantedWorks`. It needs `CheckedAgainst`: every decision was taken
  against the base that was asked for or against its first component, since a second cut
  changes nothing (`CutOnce`). Then `PlainAccepted` compares the two sides, text and
  kernel: for a plain name the text the check builds is that of the directory the
  kernel would go to (`AcceptedText`, `BaseText`), and of two directories one of which is below
  the other, the text of the one begins with that of the other (`BelowContains`).

Text and directories are folds over the components of a name. The library's induction
theorems cannot be used here, but its theorem that < is well founded on the numbers can:
`LeastNumber` and `UpTo` state induction for sets, and `Recursion` that a step function on a set
has a solution, so a fold can be taken as a function of the number of components
folded (`AbsoluteFold`, `ResolveFold`).

The attempt at `PlainNamesGranted` made the hypothesis `PlainBase` necessary: a base whose first component
after `/` is `.`, such as `/./h`, is replaced by PWD where the kernel would stay at the root, and a name
below it may be refused. `MCSandbox` has such a base. A name of that form is not excluded, only a base.

## 9. Not modelled

* The exercises of `homework3` (a sort, a recursion, a display of bits): pure
  computations of a few lines each, without interaction with any part. A model
  would repeat them instruction by instruction.
* The CapStone quiz: a call of a third-party disassembler and a network script.
* `trace.cpp`: its tracing code is commented out.
* Sandbox: the option `-p` (another library to preload) and operands other than names
  (modes, owners), which no check looks at.
* fsmon: a program that closes numbers it was not given; failures of `dlsym`; the layout of lines; what unsynchronised access to the
  `std::map` does to the map itself. Each access is taken as one step.
* netstat: `split_colon` and the conversions of addresses and ports.
* Debugger: its input stream (`getline` at end of input) and the parsing of operands; delivery of
  signals to handlers of the program (the stop is modelled, the handler is not).
* Text layout of all output.
* What C++ leaves undefined beyond the cases named above (writes past an allocation).

Out of the prover's reach, and model-checked only: liveness under fairness and `ENABLED`, that is
`CommandReturns` and `Terminates` of the debugger and `ToolEnds` of the tracers and of netstat
(for netstat `ToolAdvances` proves that no loop of it can go on for ever). Every
invariant, action property and refinement of a passing run is also a theorem. The properties
of the four counterexample runs are false in general; `NoOrphanTrap` is proved for the careful user.
