---------------------------- MODULE TracersProofs ---------------------------
(***************************************************************************)
(* Proofs about the three small tracers, for every program, every list of  *)
(* bytes and every fault: types, the instruction count, the toggle that    *)
(* tells entries of system calls from exits, the patches, and that the     *)
(* program under a tool is the program of its file.                        *)
(***************************************************************************)
EXTENDS Tracers, TraceeProofs, FiniteSetTheorems

-----------------------------------------------------------------------------
(* Type correctness.                                                       *)

\* The prepared file is a memory of bytes.
LEMMA LoadedType == Loaded \in [Image -> Byte]
BY OwnType DEF Loaded, Byte

\* A filled-in byte keeps the process well formed.
LEMMA PatchType ==
    ASSUME TypeOK, Patch
    PROVE  TypeOK'
<1>1. CASE tracee = "stopped" /\ PatchAt - bias \in Image
  <2>1. PICK b \in InjectByte : mem' = Poke(mem, PatchAt, b)
    BY <1>1 DEF Patch
  <2>2. b \in Byte
    <3>1. idx < Listed => inject_byte[idx] \in Image
      BY TracersAssumption DEF TypeOK
    <3>2. QED BY <3>1 DEF InjectByte, Byte
  <2>3. mem' \in [Image -> Byte]
    BY <2>1, <2>2, PokeType DEF TypeOK, TraceeTypeOK
  <2>4. trip' \in Int
    BY <1>1 DEF Patch, GoOnAt, TypeOK, TraceeTypeOK
  <2>5. tracee' \in TraceeStatus /\ trapped' \in BOOLEAN /\ single' \in BOOLEAN
    BY <1>1 DEF Patch, GoOnAt, TraceeStatus
  <2>6. bias' \in Int
    BY <1>1 DEF Patch, TypeOK, TraceeTypeOK
  <2>7. TraceeTypeOK'
    BY <2>3, <2>4, <2>5, <2>6 DEF TraceeTypeOK
  <2>8. idx' \in 0..Listed
    BY <1>1, TracersAssumption DEF Patch, TypeOK
  <2>9. QED
    BY <1>1, <2>7, <2>8 DEF Patch, GoOnAt, stopVars, TypeOK, ToolPhase
<1>2. CASE ~(tracee = "stopped" /\ PatchAt - bias \in Image)
  <2>1. TraceeTypeOK'
    BY <1>2, ReapType DEF Patch, GiveUp
  <2>2. QED
    BY <1>2, <2>1 DEF Patch, GiveUp, stopVars, TypeOK, ToolPhase
<1>3. QED BY <1>1, <1>2

\* What the tool does with the process besides patching it keeps it well formed.
LEMMA ToolTraceeType ==
    ASSUME TraceeTypeOK,
           UNCHANGED traceeVars \/ Fork \/ Reap \/ (\E step \in BOOLEAN : Go(step))
    PROVE  TraceeTypeOK'
<1>1. CASE UNCHANGED traceeVars
  BY <1>1 DEF traceeVars, TraceeTypeOK
<1>2. CASE Fork
  BY <1>2 DEF Fork, TraceeTypeOK, TraceeStatus
<1>3. CASE Reap
  BY <1>3, ReapType
<1>4. CASE \E step \in BOOLEAN : Go(step)
  BY <1>4 DEF Go, TraceeTypeOK, TraceeStatus
<1>5. QED BY <1>1, <1>2, <1>3, <1>4

\* Initial states are well formed.
LEMMA InitType == Init => TypeOK
<1>1. SUFFICES ASSUME Init PROVE TypeOK
  OBVIOUS
<1>2. mem \in [Image -> Byte]
  BY <1>1, OwnType DEF Init, NoTracee
<1>3. TraceeTypeOK
  <2>1. bias \in Int /\ trip \in Int
    BY <1>1 DEF Init, NoTracee
  <2>2. tracee \in TraceeStatus /\ single \in BOOLEAN /\ trapped \in BOOLEAN
    BY <1>1 DEF Init, NoTracee, TraceeStatus
  <2>3. QED BY <1>2, <2>1, <2>2 DEF TraceeTypeOK
<1>4. exitkill \in BOOLEAN /\ insys \in BOOLEAN /\ killed \in BOOLEAN
  BY <1>1 DEF Init
<1>5. idx \in 0..Listed /\ signalled \in 0..MaxSignals
  BY <1>1, TracersAssumption DEF Init
<1>6. QED
  BY <1>1, <1>3, <1>4, <1>5 DEF Init, TypeOK, ToolPhase

\* The steps that leave the history and the reason of the stop alone.
LEMMA QuietStepType ==
    ASSUME TypeOK, TraceeTypeOK', UNCHANGED <<tool, idx, kernVars>>,
           tpc' \in ToolPhase, exitkill' \in BOOLEAN, counter' \in Nat,
           enter' \in {0, 1}
    PROVE  TypeOK'
BY DEF TypeOK, kernVars

\* Every step keeps the types.
LEMMA NextType == TypeOK /\ [Next]_vars => TypeOK'
<1>1. SUFFICES ASSUME TypeOK, [Next]_vars PROVE TypeOK'
  OBVIOUS
<1> USE <1>1
<1>2. TraceeTypeOK  BY DEF TypeOK
<1>3. tpc \in ToolPhase /\ exitkill \in BOOLEAN /\ counter \in Nat /\ enter \in {0, 1}
  BY DEF TypeOK
<1>4. CASE ForkChild
  <2>1. TraceeTypeOK'  BY <1>2, <1>4, ToolTraceeType DEF ForkChild
  <2>2. QED BY <1>3, <1>4, <2>1, QuietStepType DEF ForkChild, ToolPhase
<1>5. CASE ForkFails \/ ListMissing
  <2>1. TraceeTypeOK'  BY <1>2, <1>5, ToolTraceeType DEF ForkFails, ListMissing
  <2>2. QED BY <1>3, <1>5, <2>1, QuietStepType DEF ForkFails, ListMissing, ToolPhase
<1>6. CASE FirstStop
  <2>1. TraceeTypeOK'  BY <1>2, <1>6, ToolTraceeType DEF FirstStop
  <2>2. QED BY <1>3, <1>6, <2>1, QuietStepType DEF FirstStop, ToolPhase
<1>7. CASE FirstEnd \/ WaitEnd
  <2>1. TraceeTypeOK'  BY <1>2, <1>7, ReapType DEF FirstEnd, WaitEnd
  <2>2. QED BY <1>3, <1>7, <2>1, QuietStepType DEF FirstEnd, WaitEnd, ToolPhase
<1>8. CASE CountAndStep
  <2>1. TraceeTypeOK'  BY <1>2, <1>8, ToolTraceeType DEF CountAndStep, GiveUp
  <2>2. counter' \in Nat  BY <1>3, <1>8 DEF CountAndStep
  <2>3. tpc' \in ToolPhase  BY <1>8 DEF CountAndStep, GiveUp, ToolPhase
  <2>4. QED BY <1>3, <1>8, <2>1, <2>2, <2>3, QuietStepType DEF CountAndStep
<1>9. CASE ToNextSyscall
  <2>1. TraceeTypeOK'  BY <1>2, <1>9, ToolTraceeType DEF ToNextSyscall, GiveUp
  <2>2. QED
    BY <1>3, <1>9, <2>1, QuietStepType DEF ToNextSyscall, GiveUp, ToolPhase
<1>10. CASE WaitStop
  <2>1. TraceeTypeOK'  BY <1>2, <1>10, ToolTraceeType DEF WaitStop
  <2>2. QED BY <1>3, <1>10, <2>1, QuietStepType DEF WaitStop, ToolPhase
<1>11. CASE LogSyscall
  <2>1. TraceeTypeOK'  BY <1>2, <1>11, ToolTraceeType DEF LogSyscall, GiveUp
  <2>2. enter' \in {0, 1} /\ counter' \in Nat
    BY <1>3, <1>11 DEF LogSyscall, Xor1
  <2>3. QED
    BY <1>3, <1>11, <2>1, <2>2, QuietStepType DEF LogSyscall, GiveUp, ToolPhase
<1>12. CASE Patch
  BY <1>12, PatchType
<1>13. CASE ChildExec
  <2>1. TraceeTypeOK'  BY <1>13, ExecType, LoadedType DEF ChildExec
  <2>2. QED BY <1>3, <1>13, <2>1, QuietStepType DEF ChildExec, toolVars
<1>14. CASE ChildExecFails
  <2>1. TraceeTypeOK'
    BY <1>2, <1>14 DEF ChildExecFails, TraceeTypeOK, TraceeStatus
  <2>2. QED BY <1>3, <1>14, <2>1, QuietStepType DEF ChildExecFails, toolVars
<1>15. CASE ProgramRuns
  <2>1. TraceeTypeOK'  BY <1>2, <1>15, RunsType DEF ProgramRuns
  <2>2. executed' \in Nat  BY <1>15 DEF ProgramRuns, TypeOK
  <2>3. rdx' \in {"program", "tool"}
    BY <1>15 DEF ProgramRuns, RdxAfter, TypeOK
  <2>4. QED BY <1>15, <2>1, <2>2, <2>3 DEF ProgramRuns, toolVars, TypeOK
<1>16. CASE EnterKernel
  <2>1. TraceeTypeOK'
    BY <1>2, <1>16 DEF EnterKernel, TraceeTypeOK, TraceeStatus
  <2>2. entered' \in Nat  BY <1>16 DEF EnterKernel, TypeOK
  <2>3. QED BY <1>16, <2>1, <2>2 DEF EnterKernel, toolVars, TypeOK
<1>17. CASE LeaveKernel
  <2>1. trip' \in Int
    <3>1. here \in Starts  BY <1>17 DEF LeaveKernel, Intact
    <3>2. \A a \in Succ[here] : a + bias \in Int
      BY <1>2, <3>1, ProgramAssumption DEF Image, TraceeTypeOK
    <3>3. QED BY <1>2, <1>17, <3>2 DEF LeaveKernel, TraceeTypeOK
  <2>2. TraceeTypeOK'
    BY <1>2, <1>17, <2>1 DEF LeaveKernel, TraceeTypeOK, TraceeStatus
  <2>3. insys' \in BOOLEAN /\ why' \in {"syscall", "other"}
    BY <1>17 DEF LeaveKernel, TypeOK
  <2>4. QED BY <1>17, <2>2, <2>3 DEF LeaveKernel, toolVars, TypeOK
<1>18. CASE ProgramSignal
  <2>1. TraceeTypeOK'  BY <1>2, <1>18, RunsType DEF ProgramSignal
  <2>2. signalled' \in 0..MaxSignals
    BY <1>18, TracersAssumption DEF ProgramSignal, TypeOK
  <2>3. QED BY <1>18, <2>1, <2>2 DEF ProgramSignal, toolVars, TypeOK
<1>19. CASE ProgramKilled
  <2>1. TraceeTypeOK'  BY <1>2, <1>19, RunsType DEF ProgramKilled
  <2>2. QED BY <1>19, <2>1 DEF ProgramKilled, toolVars, TypeOK
<1>20. CASE Interrupted
  <2>1. TraceeTypeOK'  BY <1>2, <1>20, ToolTraceeType DEF Interrupted
  <2>2. QED BY <1>3, <1>20, <2>1, QuietStepType DEF Interrupted, ToolPhase
<1>21. CASE UNCHANGED vars
  <2>1. TraceeTypeOK'  BY <1>2, <1>21, ToolTraceeType DEF vars
  <2>2. QED BY <1>3, <1>21, <2>1, QuietStepType DEF vars, toolVars
<1>22. QED
  BY <1>4, <1>5, <1>6, <1>7, <1>8, <1>9, <1>10, <1>11, <1>12, <1>13, <1>14,
     <1>15, <1>16, <1>17, <1>18, <1>19, <1>20, <1>21
  DEF Next, Tool, Traced, Fails

\* Every variable of a tool and of its program stays in its type, for every
\* program, list of bytes, signal and fault; the toggle is a bit and the list
\* position stays on the list.
THEOREM TracersTypeCorrect == Spec => []TypeOK
BY InitType, NextType, PTL DEF Spec

-----------------------------------------------------------------------------
(* The instruction count.                                                  *)

\* The program runs only while its tool waits for it, and is made and loaded
\* in the order fork, exec, first stop.
RunsAwaited ==
    ~ToolEnded => /\ tracee = "running" => tpc = "waiting"
                  /\ tracee = "forked" => tpc = "first"
                  /\ tpc = "fork" => tracee = "none"

\* What the count needs to be inductive: it is exact until the first resume,
\* every resume is a single step, and a killed process does not come back.
CountInv ==
    /\ RunsAwaited
    /\ killed /\ ~ToolEnded => tracee = "zombie"
    /\ tool = "counter" /\ tpc \in {"fork", "first"} => counter = Accounted
    /\ tool = "counter" => tpc # "got" /\ (tracee = "running" => single)
    /\ CountAccounts

\* The count is right to begin with.
LEMMA InitCount == Init => CountInv
BY DEF Init, NoTracee, CountInv, RunsAwaited, ToolEnded, CountAccounts, Accounted

\* A step that is neither of the process nor of the count keeps the sum.
LEMMA NextCount == TypeOK /\ CountInv /\ [Next]_vars => CountInv'
<1>1. SUFFICES ASSUME TypeOK, CountInv, [Next]_vars PROVE CountInv'
  OBVIOUS
<1> USE <1>1 DEF CountInv, RunsAwaited, ToolEnded, CountAccounts, Accounted
<1>2. executed \in Nat /\ signalled \in Nat /\ counter \in Nat
  BY TracersAssumption DEF TypeOK
<1>3. CASE UNCHANGED vars
  BY <1>3 DEF vars, toolVars, traceeVars, kernVars
<1>4. CASE ~ToolEnded /\ Tool
  <2>1. CASE ForkChild \/ FirstStop \/ FirstEnd
    BY <1>4, <2>1 DEF ForkChild, Fork, FirstStop, FirstEnd, Go, Reap, kernVars,
                    traceeVars
  <2>2. CASE CountAndStep
    BY <1>2, <1>4, <2>2 DEF CountAndStep, Go, GiveUp, Reap, kernVars
  <2>3. CASE ToNextSyscall \/ LogSyscall \/ Patch
    BY <1>4, <2>3 DEF ToNextSyscall, LogSyscall, Patch, Go, GiveUp, Reap,
                    kernVars, stopVars, traceeVars
  <2>4. CASE WaitStop \/ WaitEnd
    BY <1>4, <2>4 DEF WaitStop, WaitEnd, Reap, kernVars, traceeVars
  <2>5. QED BY <1>4, <2>1, <2>2, <2>3, <2>4 DEF Tool
<1>5. CASE ~ToolEnded /\ Traced
  <2>1. CASE ChildExec
    BY <1>5, <2>1 DEF ChildExec, ExecSucceeds, toolVars, kernVars
  <2>2. CASE ProgramRuns
    BY <1>2, <1>5, <2>2 DEF ProgramRuns, Runs, Trap, Execute, Exit, Misexecute,
                          StopIfSingle, toolVars
  <2>3. CASE EnterKernel \/ LeaveKernel
    BY <1>5, <2>3 DEF EnterKernel, LeaveKernel, AtSyscall, toolVars
  <2>4. QED BY <1>5, <2>1, <2>2, <2>3 DEF Traced
<1>6. CASE ~ToolEnded /\ Fails
  <2>1. CASE ForkFails \/ ListMissing \/ ChildExecFails
    BY <1>6, <2>1 DEF ForkFails, ListMissing, ChildExecFails, toolVars, kernVars,
                    traceeVars
  <2>2. CASE ProgramSignal
    BY <1>2, <1>6, <2>2 DEF ProgramSignal, SignalStop, toolVars
  <2>3. CASE ProgramKilled
    BY <1>6, <2>3 DEF ProgramKilled, Killed, toolVars
  <2>4. CASE Interrupted
    BY <1>6, <2>4 DEF Interrupted, Reap, kernVars, traceeVars
  <2>5. QED BY <1>6, <2>1, <2>2, <2>3, <2>4 DEF Fails
<1>7. QED BY <1>3, <1>4, <1>5, <1>6 DEF Next

\* The number counter prints is the number of instructions of its program,
\* plus the signals that stopped it, plus at most one that a kill cut short.
THEOREM CountIsAccounted == Spec => []CountAccounts
<1>1. TypeOK /\ CountInv /\ [Next]_vars => TypeOK' /\ CountInv'
  BY NextType, NextCount
<1>2. CountInv => CountAccounts
  BY DEF CountInv
<1>3. QED BY InitType, InitCount, <1>1, <1>2, PTL DEF Spec

-----------------------------------------------------------------------------
(* The toggle of count_syscall.                                            *)

\* Between two log lines: the toggle expects an entry outside the kernel.
Expecting == ((enter = 0) <=> insys) /\ counter = entered

\* At a log line: the toggle says entry inside the kernel.
Logging == ((enter = 1) <=> insys) /\ counter + enter = entered

\* The toggle follows the kernel from stop to stop.
ToggleInv ==
    /\ RunsAwaited
    /\ tool = "count_syscall" =>
          /\ tpc \in {"fork", "first", "loop"} => Expecting
          /\ tpc = "got" => Logging
          /\ tpc = "waiting" /\ tracee = "running" => Expecting
          /\ tpc = "waiting" /\ tracee = "stopped" =>
                IF why = "syscall" THEN Logging ELSE Expecting

\* The first system call stop will be an entry.
LEMMA InitToggle == Init => ToggleInv
BY DEF Init, NoTracee, ToggleInv, RunsAwaited, ToolEnded, Expecting

\* Every step keeps the toggle in step with the kernel.
LEMMA NextToggle == TypeOK /\ ToggleInv /\ [Next]_vars => ToggleInv'
<1>1. SUFFICES ASSUME TypeOK, ToggleInv, [Next]_vars PROVE ToggleInv'
  OBVIOUS
<1> USE <1>1 DEF ToggleInv, RunsAwaited, ToolEnded, Expecting, Logging
<1>2. /\ entered \in Nat /\ counter \in Nat
      /\ enter \in {0, 1} /\ insys \in BOOLEAN
  BY DEF TypeOK
<1>3. CASE UNCHANGED vars
  BY <1>3 DEF vars, toolVars, traceeVars, kernVars
<1>4. CASE ~ToolEnded /\ Tool
  <2>1. CASE ForkChild \/ FirstStop \/ FirstEnd
    BY <1>4, <2>1 DEF ForkChild, Fork, FirstStop, FirstEnd, Go, Reap, kernVars,
                    traceeVars
  <2>2. CASE CountAndStep \/ ToNextSyscall
    BY <1>4, <2>2 DEF CountAndStep, ToNextSyscall, Go, GiveUp, Reap, kernVars
  <2>3. CASE LogSyscall
    BY <1>2, <1>4, <2>3 DEF LogSyscall, Xor1, GiveUp, Reap, kernVars, traceeVars
  <2>4. CASE Patch
    BY <1>4, <2>4 DEF Patch, GiveUp, Reap, kernVars
  <2>5. CASE WaitStop \/ WaitEnd
    BY <1>4, <2>5 DEF WaitStop, WaitEnd, SyscallStop, Reap, kernVars, traceeVars
  <2>6. QED BY <1>4, <2>1, <2>2, <2>3, <2>4, <2>5 DEF Tool
<1>5. CASE ~ToolEnded /\ Traced
  <2>1. CASE ChildExec
    BY <1>5, <2>1 DEF ChildExec, ExecSucceeds, toolVars, kernVars
  <2>2. CASE ProgramRuns
    BY <1>5, <2>2 DEF ProgramRuns, Runs, Trap, Execute, Exit, Misexecute,
                    StopIfSingle, toolVars
  <2>3. CASE EnterKernel
    BY <1>2, <1>5, <2>3 DEF EnterKernel, AtSyscall, toolVars
  <2>4. CASE LeaveKernel
    <3>1. tracee = "running" /\ insys = TRUE /\ UNCHANGED toolVars /\ entered' = entered
      BY <1>2, <2>4 DEF LeaveKernel
    <3>2. (Expecting /\ tpc = "waiting") \/ tool # "count_syscall"
      BY <1>5, <3>1
    <3>3. CASE tracee' = "zombie"
      BY <1>5, <3>1, <3>3 DEF toolVars
    <3>4. CASE tracee' = "stopped" /\ why' = "syscall" /\ insys' = FALSE
      <4>1. Logging' \/ tool # "count_syscall"
        BY <1>2, <3>1, <3>2, <3>4 DEF toolVars
      <4>2. QED BY <1>5, <3>1, <3>2, <3>4, <4>1 DEF toolVars
    <3>5. QED BY <2>4, <3>3, <3>4 DEF LeaveKernel
  <2>5. QED BY <1>5, <2>1, <2>2, <2>3, <2>4 DEF Traced
<1>6. CASE ~ToolEnded /\ Fails
  <2>1. CASE ForkFails \/ ListMissing \/ ChildExecFails
    BY <1>6, <2>1 DEF ForkFails, ListMissing, ChildExecFails, toolVars, kernVars,
                    traceeVars
  <2>2. CASE ProgramSignal
    BY <1>6, <2>2 DEF ProgramSignal, SignalStop, toolVars
  <2>3. CASE ProgramKilled
    BY <1>6, <2>3 DEF ProgramKilled, Killed, toolVars
  <2>4. CASE Interrupted
    BY <1>6, <2>4 DEF Interrupted, Reap, kernVars, traceeVars
  <2>5. QED BY <1>6, <2>1, <2>2, <2>3, <2>4 DEF Fails
<1>7. QED BY <1>3, <1>4, <1>5, <1>6 DEF Next

\* Whatever signals stop the program between system calls, count_syscall logs
\* an entry as an entry, an exit as an exit, and counts every entry once.
THEOREM ToggleFollowsKernel == Spec => []ToggleAgrees
<1>1. TypeOK /\ ToggleInv /\ [Next]_vars => TypeOK' /\ ToggleInv'
  BY NextType, NextToggle
<1>2. ToggleInv => ToggleAgrees
  BY DEF ToggleInv, ToggleAgrees, Expecting, Logging
<1>3. QED BY InitType, InitToggle, <1>1, <1>2, PTL DEF Spec

-----------------------------------------------------------------------------
(* What a tool leaves behind.                                              *)

\* Until the first stop is handled the child has not moved; from then on
\* PTRACE_O_EXITKILL is set.
LeftInv ==
    /\ RunsAwaited
    /\ tpc \in {"loop", "waiting", "got"} => exitkill
    /\ tpc = "first" => /\ tracee \in {"forked", "stopped", "zombie"}
                        /\ tracee = "stopped" => trip = Entry + bias /\ mem = Loaded
    /\ NotLeftBehind

\* There is no child to begin with.
LEMMA InitLeft == Init => LeftInv
BY DEF Init, NoTracee, LeftInv, RunsAwaited, ToolEnded, NotLeftBehind

\* Every way out of a tool comes after EXITKILL, after the end of the child,
\* or while the child stands at its entry.
LEMMA NextLeft == TypeOK /\ LeftInv /\ [Next]_vars => LeftInv'
<1>1. SUFFICES ASSUME TypeOK, LeftInv, [Next]_vars PROVE LeftInv'
  OBVIOUS
<1> USE <1>1 DEF LeftInv, RunsAwaited, ToolEnded, NotLeftBehind
<1>2. tool' = tool => Loaded' = Loaded
  BY DEF Loaded
<1>3. CASE UNCHANGED vars
  BY <1>2, <1>3 DEF vars, toolVars, traceeVars, kernVars
<1>4. CASE ~ToolEnded /\ Tool
  <2>1. CASE ForkChild \/ FirstStop \/ FirstEnd
    BY <1>2, <1>4, <2>1 DEF ForkChild, Fork, FirstStop, FirstEnd, Go, Reap,
                          kernVars, traceeVars
  <2>2. CASE CountAndStep \/ ToNextSyscall
    BY <1>4, <2>2 DEF CountAndStep, ToNextSyscall, Go, GiveUp, Reap, kernVars
  <2>3. CASE LogSyscall \/ Patch
    BY <1>4, <2>3 DEF LogSyscall, Patch, GiveUp, Reap, kernVars, traceeVars
  <2>4. CASE WaitStop \/ WaitEnd
    BY <1>4, <2>4 DEF WaitStop, WaitEnd, Reap, kernVars, traceeVars
  <2>5. QED BY <1>4, <2>1, <2>2, <2>3, <2>4 DEF Tool
<1>5. CASE ~ToolEnded /\ Traced
  <2>1. CASE ChildExec
    BY <1>2, <1>5, <2>1 DEF ChildExec, ExecSucceeds, toolVars, kernVars
  <2>2. CASE ProgramRuns
    BY <1>5, <2>2 DEF ProgramRuns, Runs, Trap, Execute, Exit, Misexecute,
                    StopIfSingle, toolVars
  <2>3. CASE EnterKernel \/ LeaveKernel
    BY <1>5, <2>3 DEF EnterKernel, LeaveKernel, AtSyscall, toolVars
  <2>4. QED BY <1>5, <2>1, <2>2, <2>3 DEF Traced
<1>6. CASE ~ToolEnded /\ Fails
  <2>1. CASE ForkFails \/ ListMissing \/ ChildExecFails
    BY <1>2, <1>6, <2>1 DEF ForkFails, ListMissing, ChildExecFails, toolVars,
                          kernVars, traceeVars
  <2>2. CASE ProgramSignal \/ ProgramKilled
    BY <1>6, <2>2 DEF ProgramSignal, SignalStop, ProgramKilled, Killed, toolVars
  <2>3. CASE Interrupted
    BY <1>2, <1>6, <2>3 DEF Interrupted, Reap, kernVars, traceeVars
  <2>4. QED BY <1>6, <2>1, <2>2, <2>3 DEF Fails
<1>7. QED BY <1>3, <1>4, <1>5, <1>6 DEF Next

\* However a tool ends - the end of its program, a failed call, a missing list
\* or an interrupt - no program goes on that has executed an instruction.
THEOREM NothingLeftBehind == Spec => []NotLeftBehind
<1>1. TypeOK /\ LeftInv /\ [Next]_vars => TypeOK' /\ LeftInv'
  BY NextType, NextLeft
<1>2. LeftInv => NotLeftBehind
  BY DEF LeftInv
<1>3. QED BY InitType, InitLeft, <1>1, <1>2, PTL DEF Spec

-----------------------------------------------------------------------------
(* The program under a tool is its program.                                *)

\* The holes write_tracee has filled, and the instruction the program is at.
Filled == {x \in Holes : mem[x] = x}
Where  == IF trapped THEN here - 1 ELSE here

\* The prepared program, while every stop was an int3.
Prepared(R) ==
    /\ \A x \in Image : mem[x] = x \/ (x \in Holes /\ mem[x] = CC)
    /\ idx = Cardinality(Filled) /\ <<Where, Filled>> \in R
    /\ trapped => tracee = "stopped" /\ Where \in Holes \ Filled
    /\ tracee = "running" => ~single
    /\ tpc \in {"waiting", "got"} /\ tracee = "stopped" => trapped
    /\ tpc = "first" => ~trapped

\* Any program under a tool.
Unchanged == mem = Own /\ ~trapped /\ here \in Starts

Alive == tracee \in {"stopped", "running"}

Faithful(R) ==
    /\ RunsAwaited /\ tracee # "repl" /\ (~ToolEnded /\ tpc # "fork" => tracee # "none")
    /\ tool # "write_tracee" /\ Alive => Unchanged
    /\ tool = "write_tracee" => tpc # "loop"
    /\ tool = "write_tracee" /\ signalled = 0 =>
          /\ tracee \in {"none", "forked"} /\ ~ToolEnded => idx = 0
          /\ Alive => Prepared(R)

LEMMA HolesFinite == \A P \in SUBSET Holes : IsFiniteSet(P) /\ Cardinality(P) \in Nat
<1>1. IsFiniteSet(Image)
  BY ProgramAssumption, FS_Interval DEF Image
<1>2. \A P \in SUBSET Holes : P \subseteq Image
  BY ProgramAssumption, TracersAssumption
<1>3. QED BY <1>1, <1>2, FS_Subset, FS_CardinalityType

\* Addresses are not the byte of an int3.
LEMMA NotCC == \A x \in Image : x \in Nat /\ x # CC
BY ProgramAssumption DEF Image, CC

\* exec: nothing is filled in yet.
LEMMA ExecFits ==
    ASSUME NEW R, Fits(R), TypeOK, Faithful(R), ~ToolEnded, ChildExec
    PROVE  Faithful(R)' /\ (ProgramAt = -1 /\ ProgramAt' = Entry)
<1>1. PICK b \in Biases : ExecSucceeds(b, Loaded)
  BY DEF ChildExec
<1>2. /\ tracee = "forked" /\ tracee' = "stopped" /\ mem' = Loaded /\ bias' = b
      /\ trip' = Entry + b /\ trapped' = FALSE /\ tpc = "first" /\ UNCHANGED <<tool, tpc, idx, signalled>>
  BY <1>1 DEF ExecSucceeds, ChildExec, toolVars, kernVars, Faithful, RunsAwaited
<1>3. here' = Entry /\ Where' = Entry /\ Entry \in Starts
  BY <1>2, ProgramAssumption DEF here, Where, Image
<1>4. tool # "write_tracee" => Unchanged'
  BY <1>2, <1>3 DEF Loaded, Unchanged
<1>5. ASSUME tool = "write_tracee", signalled = 0 PROVE Prepared(R)'
  <2>1. mem' = [x \in Image |-> IF x \in Holes THEN CC ELSE x]
    BY <1>2, <1>5 DEF Loaded
  <2>2. Filled' = {}
    <3>1. \A x \in Holes : x \in Image /\ mem'[x] = CC
      BY <2>1, ProgramAssumption, TracersAssumption
    <3>2. QED BY <3>1, NotCC DEF Filled
  <2>3. idx' = 0 /\ Cardinality(Filled') = 0
    BY <1>2, <1>5, <2>2, FS_EmptySet DEF Faithful
  <2>4. <<Where', Filled'>> \in R
    BY <1>3, <2>2 DEF Fits
  <2>5. QED BY <1>2, <2>1, <2>3, <2>4 DEF Prepared
<1>6. QED
  BY <1>2, <1>3, <1>4, <1>5 DEF Faithful, RunsAwaited, ToolEnded, ProgramAt, Alive

\* The bytes of an instruction the program is at are in place, unless it is
\* a hole still open.
LEMMA PlaceIntact ==
    ASSUME NEW R, Fits(R), TypeOK, Prepared(R), ~trapped
    PROVE  /\ here \in Starts
           /\ here \in Holes \ Filled <=> mem[here] = CC
           /\ Intact <=> here \notin Holes \ Filled
<1>1. Where = here /\ <<here, Filled>> \in R /\ Filled \in SUBSET Holes
  BY DEF Prepared, Where, Filled
<1>2. here \in Starts /\ here \in Image
  BY <1>1, ProgramAssumption DEF Fits
<1>3. here \in Holes \ Filled <=> mem[here] = CC
  BY <1>2, NotCC DEF Prepared, Filled
<1>4. here \in here..(here + Length[here] - 1)
  BY <1>2, ProgramAssumption, NotCC
<1>5. Intact => here \notin Holes \ Filled
  BY <1>2, <1>3, <1>4, NotCC DEF Intact
<1>6. ASSUME here \notin Holes \ Filled PROVE Intact
  <2>1. \A x \in here..(here + Length[here] - 1) : x \notin Holes \ Filled
    BY <1>1, <1>2, <1>6 DEF Fits
  <2>2. \A x \in here..(here + Length[here] - 1) : x \in Image
    BY <1>2, ProgramAssumption DEF Image
  <2>3. \A x \in here..(here + Length[here] - 1) : mem[x] = x
    BY <2>1, <2>2 DEF Prepared, Filled
  <2>4. QED BY <1>2, <2>3 DEF Intact
<1>7. QED BY <1>2, <1>3, <1>5, <1>6

\* The steps of the abstract program.
AsProgram == Untraced!Next \/ UNCHANGED ProgramAt

\* The process ends.
LEMMA EndSteps ==
    ASSUME TypeOK, NEW R, Fits(R), Faithful(R), UNCHANGED <<tool, signalled>>,
           Reap /\ ToolEnded' /\ tracee # "none"
    PROVE  /\ Faithful(R)'
           /\ (tool = "write_tracee" => signalled = 0) => AsProgram
<1>1. tracee' = "none" /\ ProgramAt' = -1
  BY DEF Reap, ProgramAt
<1>2. Faithful(R)'
  BY <1>1 DEF Faithful, RunsAwaited, ToolEnded, Alive
<1>3. ASSUME tool = "write_tracee" => signalled = 0 PROVE AsProgram
  <2>1. CASE Alive
    <3>1. ProgramAt \in Starts
      BY <1>3, <2>1, ProgramAssumption
         DEF Faithful, Unchanged, Prepared, Fits, Alive, ProgramAt, Where
    <3>2. QED BY <1>1, <3>1 DEF AsProgram, Untraced!Next, Untraced!Kill, Untraced!Off
  <2>2. CASE tracee = "zombie"
    BY <1>1, <2>2 DEF ProgramAt, AsProgram, Untraced!Next, Untraced!Gone, Untraced!Over, Untraced!Off
  <2>3. CASE tracee = "forked"
    BY <1>1, <2>3 DEF ProgramAt, AsProgram
  <2>4. QED
    BY <2>1, <2>2, <2>3 DEF TypeOK, TraceeTypeOK, TraceeStatus, Faithful, Alive
<1>4. QED BY <1>2, <1>3

\* The program runs under write_tracee: it stops at an open hole, executes an
\* instruction that is whole, or ends.
LEMMA PreparedRuns ==
    ASSUME TypeOK, NEW R, Fits(R), Faithful(R), ~ToolEnded, ProgramRuns,
           tool = "write_tracee", signalled = 0
    PROVE  Faithful(R)' /\ AsProgram
<1>1. /\ tracee = "running" /\ tpc = "waiting" /\ Prepared(R) /\ ~trapped /\ ~single
      /\ UNCHANGED <<tool, tpc, idx, signalled, mem, bias>>
  BY DEF ProgramRuns, Runs, Trap, Execute, Exit, Misexecute, toolVars, Faithful, RunsAwaited,
         Alive, Prepared
<1>2. /\ here \in Starts /\ here \in Image
      /\ here \in Holes \ Filled <=> mem[here] = CC
      /\ Intact <=> here \notin Holes \ Filled
  BY <1>1, PlaceIntact, ProgramAssumption
<1>3. trip \in Int /\ bias \in Int /\ ProgramAt = here /\ Where = here
  BY <1>1 DEF TypeOK, TraceeTypeOK, ProgramAt, Where
<1>4. Filled' = Filled
  BY <1>1 DEF Filled
<1>5. \A x \in Image : mem'[x] = x \/ (x \in Holes /\ mem'[x] = CC)
  BY <1>1 DEF Prepared
<1>6. idx' = Cardinality(Filled') /\ Filled \in SUBSET Holes /\ <<here, Filled>> \in R
  BY <1>1, <1>3, <1>4 DEF Prepared, Filled
<1>7. CASE Trap
  <2>1. tracee' = "stopped" /\ trapped' = TRUE /\ here' = here + 1
    BY <1>1, <1>3, <1>7 DEF Trap, here
  <2>2. Where' = here /\ ProgramAt' = here
    BY <1>2, <2>1, NotCC DEF Where, ProgramAt
  <2>3. Where' \in Holes \ Filled'
    BY <1>2, <1>4, <1>7, <2>2 DEF Trap
  <2>4. Prepared(R)'
    BY <1>1, <1>4, <1>5, <1>6, <2>1, <2>2, <2>3 DEF Prepared
  <2>5. Faithful(R)'
    BY <1>1, <2>1, <2>4 DEF Faithful, RunsAwaited, ToolEnded, Alive
  <2>6. QED BY <1>3, <2>2, <2>5 DEF AsProgram
<1>8. CASE Execute
  <2>1. PICK a \in Succ[here] : trip' = a + bias
    BY <1>8 DEF Execute
  <2>2. a \in Starts /\ a \in Int
    BY <1>2, <2>1, ProgramAssumption, NotCC
  <2>3. tracee' = "running" /\ trapped' = FALSE /\ single' = single /\ here' = a
    BY <1>1, <1>3, <1>8, <2>1, <2>2 DEF Execute, StopIfSingle, here
  <2>4. Where' = a /\ ProgramAt' = a
    BY <2>3 DEF Where, ProgramAt
  <2>5. <<a, Filled>> \in R
    BY <1>2, <1>6, <1>8, <2>1 DEF Execute, Fits
  <2>6. Prepared(R)'
    BY <1>1, <1>4, <1>5, <1>6, <2>3, <2>4, <2>5 DEF Prepared
  <2>7. Faithful(R)'
    BY <1>1, <2>3, <2>6 DEF Faithful, RunsAwaited, ToolEnded, Alive
  <2>8. QED
    BY <1>2, <1>3, <1>8, <2>1, <2>4, <2>7 DEF Execute, AsProgram, Untraced!Next, Untraced!Step
<1>9. CASE Exit
  <2>1. tracee' = "zombie" /\ ProgramAt' = -2
    BY <1>9 DEF Exit, ProgramAt
  <2>2. Faithful(R)'
    BY <1>1, <2>1 DEF Faithful, RunsAwaited, ToolEnded, Alive
  <2>3. QED
    BY <1>3, <1>9, <2>1, <2>2 DEF Exit, AsProgram, Untraced!Next, Untraced!End, Untraced!Over
<1>10. CASE Misexecute
  BY <1>2, <1>10 DEF Misexecute
<1>11. QED BY <1>7, <1>8, <1>9, <1>10 DEF ProgramRuns, Runs

\* The program runs under the other two tools.
LEMMA UnchangedRuns ==
    ASSUME TypeOK, NEW R, Fits(R), Faithful(R), ~ToolEnded,
           ProgramRuns \/ EnterKernel \/ LeaveKernel, tool # "write_tracee"
    PROVE  Faithful(R)' /\ AsProgram
<1>1. /\ tracee = "running" /\ tpc = "waiting" /\ mem = Own /\ ~trapped /\ here \in Starts
      /\ UNCHANGED <<tool, tpc, mem, bias>>
  BY DEF ProgramRuns, EnterKernel, LeaveKernel, Runs, Trap, Execute, Exit, Misexecute, toolVars,
         Faithful, RunsAwaited, Alive, Unchanged
<1>2. here \in Image /\ \A x \in Image : mem[x] = x
  BY <1>1, OwnType, ProgramAssumption
<1>3. Intact /\ mem[here] # CC
  <2>1. \A x \in here..(here + Length[here] - 1) : x \in Image
    BY <1>1, <1>2, ProgramAssumption DEF Image
  <2>2. QED BY <1>1, <1>2, <2>1, NotCC DEF Intact
<1>4. trip \in Int /\ bias \in Int /\ ProgramAt = here
  BY <1>1 DEF TypeOK, TraceeTypeOK, ProgramAt
<1>5. CASE here \in Exits /\ tracee' = "zombie"
  <2>1. ProgramAt' = -2
    BY <1>5 DEF ProgramAt
  <2>2. Faithful(R)'
    BY <1>1, <1>5 DEF Faithful, RunsAwaited, ToolEnded, Alive
  <2>3. QED
    BY <1>4, <1>5, <2>1, <2>2 DEF AsProgram, Untraced!Next, Untraced!End, Untraced!Over
<1>6. CASE /\ here \notin Exits /\ (\E a \in Succ[here] : trip' = a + bias)
           /\ ~trapped' /\ tracee' \in {"stopped", "running"}
  <2>1. PICK a \in Succ[here] : trip' = a + bias
    BY <1>6
  <2>2. a \in Starts /\ a \in Int
    BY <1>1, <2>1, ProgramAssumption, NotCC
  <2>3. here' = a /\ ProgramAt' = a
    BY <1>1, <1>4, <1>6, <2>1, <2>2 DEF here, ProgramAt
  <2>4. Faithful(R)'
    BY <1>1, <1>6, <2>2, <2>3 DEF Faithful, RunsAwaited, ToolEnded, Alive, Unchanged
  <2>5. QED
    BY <1>1, <1>4, <1>6, <2>1, <2>3, <2>4 DEF AsProgram, Untraced!Next, Untraced!Step
<1>7. CASE EnterKernel
  <2>1. tracee' = "stopped" /\ here' = here /\ trapped' = trapped /\ ProgramAt' = ProgramAt
    BY <1>1, <1>7 DEF EnterKernel, here, ProgramAt
  <2>2. Faithful(R)'
    BY <1>1, <2>1 DEF Faithful, RunsAwaited, ToolEnded, Alive, Unchanged
  <2>3. QED BY <2>1, <2>2 DEF AsProgram
<1>8. CASE ProgramRuns
  <2>1. ~Trap /\ ~Misexecute
    BY <1>3 DEF Trap, Misexecute
  <2>2. CASE Execute
    BY <1>6, <2>2 DEF Execute, StopIfSingle
  <2>3. CASE Exit
    BY <1>5, <2>3 DEF Exit
  <2>4. QED BY <1>8, <2>1, <2>2, <2>3 DEF ProgramRuns, Runs
<1>9. CASE LeaveKernel
  BY <1>1, <1>5, <1>6, <1>9 DEF LeaveKernel
<1>10. QED BY <1>7, <1>8, <1>9

\* A byte of the list goes in: the byte of the instruction that trapped.
LEMMA PatchFits ==
    ASSUME TypeOK, NEW R, Fits(R), Faithful(R), ~ToolEnded, Patch, signalled = 0,
           tracee = "stopped"
    PROVE  Faithful(R)' /\ ProgramAt' = ProgramAt
<1> DEFINE a == here - 1
<1>1. /\ tool = "write_tracee" /\ tpc = "got" /\ Prepared(R) /\ trapped
      /\ UNCHANGED <<tool, signalled>>
  BY DEF Patch, stopVars, Faithful, Alive, Prepared
<1>2. /\ Where = a /\ a \in Holes \ Filled /\ <<a, Filled>> \in R /\ Filled \in SUBSET Holes
      /\ ProgramAt = a
  BY <1>1 DEF Prepared, Where, Filled, ProgramAt
<1>3. a \in Starts /\ a \in Image
  BY <1>2, ProgramAssumption, TracersAssumption
<1>4. /\ Cardinality(Filled) < Listed /\ inject_byte[Cardinality(Filled)] = a
      /\ <<a, Filled \cup {a}>> \in R
  BY <1>2, <1>3 DEF Fits
<1>5. idx = Cardinality(Filled) /\ InjectByte = {a}
  BY <1>1, <1>4 DEF Prepared, InjectByte
<1>6. trip \in Int /\ bias \in Int /\ PatchAt - bias = a
  BY DEF TypeOK, TraceeTypeOK, PatchAt, here
<1> HIDE DEF a
<1>7. /\ mem' = [mem EXCEPT ![a] = a] /\ idx' = idx + 1 /\ bias' = bias
      /\ trip' = trip - 1 /\ trapped' = FALSE /\ tracee' = "running" /\ single' = FALSE
      /\ tpc' = "waiting"
  BY <1>3, <1>4, <1>5, <1>6 DEF Patch, Poke, GoOnAt
<1>8. here' = a /\ Where' = a /\ ProgramAt' = a
  BY <1>6, <1>7 DEF here, Where, ProgramAt, a
<1>9. mem' \in [Image -> Byte] /\ mem'[a] = a /\ \A x \in Image \ {a} : mem'[x] = mem[x]
  BY <1>3, <1>7 DEF TypeOK, TraceeTypeOK, Byte
<1>10. Filled' = Filled \cup {a}
  BY <1>2, <1>9, ProgramAssumption, TracersAssumption DEF Filled
<1>11. idx' = Cardinality(Filled')
  BY <1>2, <1>5, <1>7, <1>10, HolesFinite, FS_AddElement
<1>12. \A x \in Image : mem'[x] = x \/ (x \in Holes /\ mem'[x] = CC)
  BY <1>1, <1>9 DEF Prepared
<1>13. Prepared(R)'
  BY <1>4, <1>7, <1>8, <1>10, <1>11, <1>12 DEF Prepared
<1>14. Faithful(R)'
  BY <1>1, <1>7, <1>13 DEF Faithful, RunsAwaited, ToolEnded, Alive
<1>15. QED BY <1>2, <1>8, <1>14

\* A program that does not move is where it was.
LEMMA SamePlace ==
    ASSUME NEW R, Prepared(R), UNCHANGED <<mem, bias, trip, trapped, idx>>
    PROVE  Filled' = Filled /\ Where' = Where /\ here' = here
BY DEF Filled, Where, here

LEMMA InitFaithful == ASSUME NEW R PROVE Init => Faithful(R)
BY DEF Init, NoTracee, Faithful, RunsAwaited, ToolEnded, Alive

\* The steps of the tool that leave the program where it is.
LEMMA StillTool ==
    ASSUME TypeOK, NEW R, Fits(R), Faithful(R), ~ToolEnded,
           \/ ForkChild \/ FirstStop \/ WaitStop
           \/ CountAndStep /\ tracee = "stopped"
           \/ ToNextSyscall /\ tracee = "stopped"
           \/ LogSyscall /\ tracee = "stopped"
    PROVE  Faithful(R)' /\ UNCHANGED ProgramAt
<1>1. /\ UNCHANGED <<tool, signalled, idx, mem, bias, trip, trapped>>
      /\ tool' = "write_tracee" => tpc' # "loop"
  BY DEF ForkChild, Fork, FirstStop, WaitStop, CountAndStep, ToNextSyscall, LogSyscall, Go,
         kernVars, traceeVars, Faithful
<1>2. here' = here /\ Where' = Where /\ Filled' = Filled
  BY <1>1 DEF here, Where, Filled
<1>3. CASE ForkChild
  <2>1. Faithful(R)'
    BY <1>1, <1>3 DEF ForkChild, Fork, Faithful, RunsAwaited, ToolEnded, Alive
  <2>2. QED
    BY <1>1, <1>2, <1>3, <2>1 DEF ForkChild, Fork, ProgramAt, Faithful, RunsAwaited
<1>4. CASE ~ForkChild
  <2>1. tracee = "stopped" /\ tracee' \in {"stopped", "running"} /\ tpc' \in {"loop", "waiting", "got"}
    BY <1>4 DEF FirstStop, WaitStop, CountAndStep, ToNextSyscall, LogSyscall, Go, traceeVars
  <2>2. tracee' = "running" => tpc' = "waiting"
    BY <1>4, <2>1 DEF FirstStop, WaitStop, CountAndStep, ToNextSyscall, LogSyscall, Go, traceeVars
  <2>3. ProgramAt' = ProgramAt
    BY <1>1, <1>2, <2>1 DEF ProgramAt
  <2>4. tool # "write_tracee" => Unchanged'
    BY <1>1, <1>2, <2>1 DEF Faithful, Unchanged, Alive
  <2>5. ASSUME tool = "write_tracee", signalled = 0 PROVE Prepared(R)'
    <3>1. Prepared(R)
      BY <2>1, <2>5 DEF Faithful, Alive
    <3>2. FirstStop \/ WaitStop
      BY <1>4, <2>5 DEF CountAndStep, ToNextSyscall, LogSyscall
    <3>3. CASE FirstStop
      <4>1. tracee' = "running" /\ single' = FALSE /\ tpc' = "waiting" /\ ~trapped'
        BY <1>1, <2>5, <3>1, <3>3 DEF FirstStop, Go, Prepared
      <4>2. QED BY <1>1, <1>2, <3>1, <4>1 DEF Prepared
    <3>4. CASE WaitStop
      <4>1. tracee' = "stopped" /\ tpc' = "got" /\ trapped
        BY <1>1, <2>5, <3>1, <3>4 DEF WaitStop, Prepared, traceeVars
      <4>2. QED BY <1>1, <1>2, <3>1, <4>1 DEF Prepared
    <3>5. QED BY <3>2, <3>3, <3>4
  <2>6. Faithful(R)'
    BY <1>1, <2>1, <2>2, <2>4, <2>5 DEF Faithful, RunsAwaited, ToolEnded, Alive
  <2>7. QED BY <2>3, <2>6
<1>5. QED BY <1>3, <1>4

\* A tool that goes while the program stays.
LEMMA LeaveSteps ==
    ASSUME TypeOK, NEW R, Fits(R), Faithful(R), ~ToolEnded,
           ForkFails \/ ListMissing \/ (Interrupted /\ ~exitkill)
    PROVE  Faithful(R)' /\ UNCHANGED ProgramAt
<1>1. /\ UNCHANGED <<tool, signalled, idx, tracee, mem, bias, trip, trapped, single>>
      /\ tpc' = "exited"
  BY DEF ForkFails, ListMissing, Interrupted, kernVars, traceeVars
<1>2. here' = here /\ Where' = Where /\ Filled' = Filled /\ ProgramAt' = ProgramAt
  BY <1>1 DEF here, Where, Filled, ProgramAt
<1>3. tool # "write_tracee" /\ Alive => Unchanged'
  BY <1>1, <1>2 DEF Faithful, Unchanged
<1>4. tool = "write_tracee" /\ signalled = 0 /\ Alive => Prepared(R)'
  BY <1>1, <1>2 DEF Faithful, Prepared
<1>5. QED
  BY <1>1, <1>2, <1>3, <1>4 DEF Faithful, RunsAwaited, ToolEnded, Alive

\* What happens to the program from outside.
LEMMA OutsideSteps ==
    ASSUME TypeOK, NEW R, Fits(R), Faithful(R), ~ToolEnded,
           ChildExecFails \/ ProgramSignal \/ ProgramKilled
    PROVE  /\ Faithful(R)'
           /\ (tool = "write_tracee" => signalled' = 0) => AsProgram
<1>1. UNCHANGED <<tool, tpc, idx, mem, bias, trip, trapped>>
  BY DEF ChildExecFails, ProgramSignal, SignalStop, ProgramKilled, Killed, toolVars
<1>2. here' = here
  BY <1>1 DEF here
<1>3. signalled \in Nat
  BY TracersAssumption DEF TypeOK
<1>4. CASE ProgramSignal
  <2>1. tracee = "running" /\ tracee' = "stopped" /\ signalled' # 0
    BY <1>3, <1>4 DEF ProgramSignal, SignalStop
  <2>2. ProgramAt' = ProgramAt
    BY <1>1, <1>2, <2>1 DEF ProgramAt
  <2>3. tool # "write_tracee" => Unchanged'
    BY <1>1, <1>2, <2>1 DEF Faithful, Unchanged, Alive
  <2>4. Faithful(R)'
    BY <1>1, <2>1, <2>3 DEF Faithful, RunsAwaited, ToolEnded, Alive
  <2>5. QED BY <2>2, <2>4 DEF AsProgram
<1>5. CASE ChildExecFails \/ ProgramKilled
  <2>1. /\ tracee \in {"forked", "stopped", "running"} /\ tracee' = "zombie"
        /\ signalled' = signalled /\ ProgramAt' = -2
    BY <1>5 DEF ChildExecFails, ProgramKilled, Killed, kernVars, ProgramAt
  <2>2. Faithful(R)'
    BY <1>1, <2>1 DEF Faithful, RunsAwaited, ToolEnded, Alive
  <2>3. CASE tracee = "forked"
    <3>1. ProgramAt = -1
      BY <2>3 DEF ProgramAt
    <3>2. QED
      BY <2>1, <2>2, <3>1
         DEF AsProgram, Untraced!Next, Untraced!Stillborn, Untraced!Off, Untraced!Over
  <2>4. CASE Alive
    <3>1. (tool = "write_tracee" => signalled = 0) => ProgramAt \in Starts
      BY <2>4, ProgramAssumption
         DEF Faithful, Unchanged, Prepared, Fits, Alive, ProgramAt, Where
    <3>2. QED
      BY <2>1, <2>2, <3>1 DEF AsProgram, Untraced!Next, Untraced!Kill, Untraced!Over
  <2>5. QED BY <2>1, <2>3, <2>4 DEF Alive
<1>6. QED BY <1>4, <1>5

\* After a signal nothing is claimed of write_tracee but the order of its life.
LEMMA AfterSignal ==
    ASSUME TypeOK, NEW R, Faithful(R), ~ToolEnded, tool = "write_tracee", signalled # 0,
           ProgramRuns \/ Patch
    PROVE  Faithful(R)'
<1>1. UNCHANGED <<tool, signalled>>
  BY DEF ProgramRuns, Patch, toolVars, stopVars
<1>2. CASE ProgramRuns
  <2>1. /\ tracee = "running" /\ tracee' \in {"stopped", "running", "zombie"}
        /\ UNCHANGED tpc
    BY <1>2 DEF ProgramRuns, Runs, Trap, Execute, Exit, Misexecute, StopIfSingle, toolVars
  <2>2. QED BY <1>1, <2>1 DEF Faithful, RunsAwaited, ToolEnded
<1>3. CASE Patch
  BY <1>1, <1>3 DEF Patch, GiveUp, Reap, Faithful, RunsAwaited, ToolEnded
<1>4. QED BY <1>2, <1>3

\* Every step of the whole keeps the program what it is.
LEMMA NextFaithful ==
    ASSUME TypeOK, TypeOK', NEW R, Fits(R), Faithful(R), [Next]_vars
    PROVE  /\ Faithful(R)'
           /\ (tool = "write_tracee" => signalled' = 0) => AsProgram
<1> DEFINE Goal == /\ Faithful(R)'
                   /\ (tool = "write_tracee" => signalled' = 0) => AsProgram
<1>1. CASE UNCHANGED vars
  <2>1. here' = here /\ Where' = Where /\ Filled' = Filled /\ ProgramAt' = ProgramAt
    BY <1>1 DEF vars, traceeVars, here, Where, Filled, ProgramAt
  <2>2. Unchanged => Unchanged'
    BY <1>1, <2>1 DEF vars, traceeVars, Unchanged
  <2>3. Prepared(R) => Prepared(R)'
    BY <1>1, <2>1 DEF vars, traceeVars, toolVars, Prepared
  <2>4. Faithful(R)'
    BY <1>1, <2>2, <2>3
       DEF vars, traceeVars, toolVars, kernVars, Faithful, RunsAwaited, ToolEnded, Alive
  <2>5. QED BY <2>1, <2>4 DEF AsProgram
<1>2. ASSUME ~ToolEnded, ToolEnded', Reap, UNCHANGED <<tool, signalled>>, tpc # "fork" PROVE Goal
  <2>1. tracee # "none"
    BY <1>2 DEF Faithful
  <2>2. QED BY <1>2, <2>1, EndSteps
<1>3. CASE ~ToolEnded /\ Tool
  <2>1. CASE FirstEnd \/ WaitEnd
    BY <1>2, <1>3, <2>1 DEF FirstEnd, WaitEnd, ToolEnded, kernVars
  <2>2. CASE ForkChild \/ FirstStop \/ WaitStop
    BY <1>3, <2>2, StillTool DEF AsProgram
  <2>3. CASE CountAndStep
    <3>1. CASE tracee = "stopped"
      BY <1>3, <2>3, <3>1, StillTool DEF AsProgram
    <3>2. CASE tracee # "stopped"
      BY <1>2, <1>3, <2>3, <3>2 DEF CountAndStep, GiveUp, ToolEnded, kernVars
    <3>3. QED BY <3>1, <3>2
  <2>4. CASE ToNextSyscall
    <3>1. CASE tracee = "stopped"
      BY <1>3, <2>4, <3>1, StillTool DEF AsProgram
    <3>2. CASE tracee # "stopped"
      BY <1>2, <1>3, <2>4, <3>2 DEF ToNextSyscall, GiveUp, ToolEnded, kernVars
    <3>3. QED BY <3>1, <3>2
  <2>5. CASE LogSyscall
    <3>1. CASE tracee = "stopped"
      BY <1>3, <2>5, <3>1, StillTool DEF AsProgram
    <3>2. CASE tracee # "stopped"
      BY <1>2, <1>3, <2>5, <3>2 DEF LogSyscall, GiveUp, ToolEnded, kernVars
    <3>3. QED BY <3>1, <3>2
  <2>6. CASE Patch
    <3>1. tool = "write_tracee" /\ signalled' = signalled
      BY <2>6 DEF Patch, stopVars
    <3>2. CASE signalled # 0
      BY <1>3, <2>6, <3>1, <3>2, AfterSignal
    <3>3. CASE signalled = 0 /\ tracee = "stopped"
      BY <1>3, <2>6, <3>3, PatchFits DEF AsProgram
    <3>4. CASE tracee # "stopped"
      BY <1>2, <1>3, <2>6, <3>4 DEF Patch, GiveUp, ToolEnded, stopVars
    <3>5. QED BY <3>2, <3>3, <3>4
  <2>7. QED BY <1>3, <2>1, <2>2, <2>3, <2>4, <2>5, <2>6 DEF Tool
<1>4. CASE ~ToolEnded /\ Traced
  <2>1. CASE ChildExec
    BY <1>4, <2>1, ExecFits DEF AsProgram, Untraced!Next, Untraced!Launch, Untraced!Off
  <2>2. CASE tool # "write_tracee" /\ ~ChildExec
    BY <1>4, <2>2, UnchangedRuns DEF Traced
  <2>3. CASE tool = "write_tracee" /\ ~ChildExec
    <3>1. ProgramRuns /\ signalled' = signalled
      BY <1>4, <2>3 DEF Traced, EnterKernel, LeaveKernel, AtSyscall, ProgramRuns
    <3>2. CASE signalled = 0
      BY <1>4, <2>3, <3>1, <3>2, PreparedRuns
    <3>3. CASE signalled # 0
      BY <1>4, <2>3, <3>1, <3>3, AfterSignal
    <3>4. QED BY <3>2, <3>3
  <2>4. QED BY <2>1, <2>2, <2>3
<1>5. CASE ~ToolEnded /\ Fails
  <2>1. CASE ForkFails \/ ListMissing \/ (Interrupted /\ ~exitkill)
    <3>1. Faithful(R)' /\ UNCHANGED ProgramAt
      BY <1>5, <2>1, LeaveSteps
    <3>2. QED BY <3>1 DEF AsProgram
  <2>2. CASE Interrupted /\ exitkill
    BY <1>2, <1>5, <2>2 DEF Interrupted, ToolEnded, kernVars
  <2>3. CASE ChildExecFails \/ ProgramSignal \/ ProgramKilled
    BY <1>5, <2>3, OutsideSteps
  <2>4. QED BY <1>5, <2>1, <2>2, <2>3 DEF Fails
<1>6. QED BY <1>1, <1>3, <1>4, <1>5 DEF Next

\* no_more_traps.txt fits the program.
ListFits == \E R : Fits(R)

\* If the list fits the program, each byte write_tracee fills in is that of
\* its own instruction as long as no signal stops the program.
THEOREM ListInStep == ASSUME ListFits PROVE Spec => []PatchesRight
<1>1. PICK R : Fits(R)
  BY DEF ListFits
<1>2. Init => Faithful(R)
  BY InitFaithful
<1>3. TypeOK /\ TypeOK' /\ Faithful(R) /\ [Next]_vars => Faithful(R)'
  BY <1>1, NextFaithful
<1>4. Faithful(R) => PatchesRight
  <2> SUFFICES ASSUME Faithful(R), tool = "write_tracee", signalled = 0, Alive
               PROVE  /\ \A x \in Image : mem[x] \in {x} \cup (IF x \in Holes THEN {CC} ELSE {})
                      /\ idx = Cardinality({x \in Holes : mem[x] = x})
    BY DEF PatchesRight, Alive
  <2>1. Prepared(R)
    BY DEF Faithful
  <2>2. QED BY <2>1 DEF Prepared, Filled
<1>5. QED BY <1>2, <1>3, <1>4, TracersTypeCorrect, PTL DEF Spec

\* Where the tool's value may stand in rdx: only under write_tracee, and, as
\* long as the patches are in step, only at the places of T.
RdxKept(T) ==
    /\ tool # "write_tracee" => rdx = "program"
    /\ tracee \in {"none", "forked"} /\ ~ToolEnded => rdx = "program"
    /\ tool = "write_tracee" /\ signalled = 0 /\ Alive /\ rdx = "tool" => Where \in T

\* A step that leaves rdx and the place alone.
LEMMA RdxUntouched ==
    ASSUME NEW T, RdxKept(T), UNCHANGED <<tool, rdx>>,
           tracee' \in {"none", "forked"} /\ ~ToolEnded'
              => tracee \in {"none", "forked"} /\ ~ToolEnded,
           tool = "write_tracee" /\ signalled' = 0 /\ Alive'
              => signalled = 0 /\ (rdx = "program" \/ (Alive /\ Where' = Where))
    PROVE  RdxKept(T)'
BY DEF RdxKept

\* A hole is filled in: rax goes over rdx at a place of T.
LEMMA PatchRdx ==
    ASSUME TypeOK, NEW R, Fits(R), Faithful(R), ~ToolEnded, NEW T, Overwritten(T), RdxKept(T), Patch
    PROVE  RdxKept(T)'
<1>1. /\ tool = "write_tracee" /\ UNCHANGED <<tool, signalled>>
      /\ tracee' = "running" \/ (tracee' = "none" /\ tpc' = "exited")
  BY DEF Patch, stopVars, GiveUp, Reap
<1>2. ASSUME signalled' = 0, Alive' PROVE Where' \in T
  <2>1. tracee = "stopped" /\ tracee' = "running" /\ signalled = 0
    BY <1>1, <1>2 DEF Patch, GiveUp, Reap, Alive
  <2>2. Prepared(R) /\ Where \in Holes /\ ProgramAt' = ProgramAt
    BY <1>1, <2>1, PatchFits DEF Faithful, Alive, Patch, Prepared
  <2>3. Where' = Where
    BY <2>1, <2>2 DEF ProgramAt, Where
  <2>4. QED BY <2>2, <2>3 DEF Overwritten
<1>3. QED BY <1>1, <1>2 DEF RdxKept, ToolEnded

\* An instruction of the program: from a place of T it goes to one of T or has
\* set rdx.
LEMMA RunsRdx ==
    ASSUME TypeOK, NEW R, Fits(R), Faithful(R), ~ToolEnded, NEW T, Overwritten(T), RdxKept(T),
           ProgramRuns
    PROVE  RdxKept(T)'
<1>1. /\ tracee = "running" /\ tracee' \in {"stopped", "running", "zombie"}
      /\ UNCHANGED <<tool, tpc, signalled, bias>> /\ rdx' = RdxAfter
  BY DEF ProgramRuns, Runs, Trap, Execute, Exit, Misexecute, StopIfSingle, toolVars
<1>2. rdx = "program" => rdx' = "program"
  BY <1>1 DEF RdxAfter
<1>3. ASSUME tool = "write_tracee", signalled = 0, rdx' = "tool", Alive' PROVE Where' \in T
  <2>1. rdx = "tool" /\ Where \in T /\ ~(Intact /\ here \in SetsRdx)
    BY <1>1, <1>2, <1>3 DEF RdxKept, RdxAfter, TypeOK, Alive
  <2>2. Prepared(R) /\ ~trapped /\ ~single
    BY <1>1, <1>3 DEF Faithful, Alive, Prepared
  <2>3. Where = here /\ here \in Image /\ (Intact <=> here \notin Holes \ Filled)
        /\ (here \in Holes \ Filled <=> mem[here] = CC)
    BY <2>2, PlaceIntact, ProgramAssumption DEF Where
  <2>4. trip \in Int /\ bias \in Int
    BY DEF TypeOK, TraceeTypeOK
  <2>5. CASE Trap
    <3>1. trapped' /\ here' = here + 1
      BY <1>1, <2>4, <2>5 DEF Trap, here
    <3>2. Where' = here
      BY <2>3, <3>1, NotCC DEF Where
    <3>3. QED BY <2>1, <2>3, <3>2
  <2>6. CASE Execute
    <3>1. PICK a \in Succ[here] : trip' = a + bias
      BY <2>6 DEF Execute
    <3>2. here \in Starts /\ a \in Int
      BY <2>6, <3>1, ProgramAssumption, NotCC DEF Execute, Intact
    <3>3. Where' = a
      BY <1>1, <2>4, <2>6, <3>1, <3>2 DEF Execute, Where, here
    <3>4. here \in T \ SetsRdx
      BY <2>1, <2>3, <2>6 DEF Execute
    <3>5. QED BY <3>1, <3>3, <3>4 DEF Overwritten
  <2>7. CASE Exit \/ Misexecute
    BY <1>3, <2>3, <2>7 DEF Exit, Misexecute, Alive
  <2>8. QED BY <2>5, <2>6, <2>7 DEF ProgramRuns, Runs
<1>4. QED BY <1>1, <1>2, <1>3 DEF RdxKept

\* Every step keeps what rdx holds where it matters.
LEMMA NextRdx ==
    ASSUME TypeOK, NEW R, Fits(R), Faithful(R), NEW T, Overwritten(T), RdxKept(T), [Next]_vars
    PROVE  RdxKept(T)'
<1>1. CASE UNCHANGED vars
  <2>1. Where' = Where
    BY <1>1 DEF vars, traceeVars, Where, here
  <2>2. QED
    BY <1>1, <2>1, RdxUntouched DEF vars, traceeVars, toolVars, kernVars, ToolEnded, Alive
<1>2. CASE ~ToolEnded /\ Patch
  BY <1>2, PatchRdx
<1>3. CASE ~ToolEnded /\ ProgramRuns
  BY <1>3, RunsRdx
<1>4. CASE ~ToolEnded /\ ChildExec
  <2>1. tracee = "forked" /\ UNCHANGED <<tool, rdx, tpc, signalled>>
        /\ tracee' = "stopped"
    BY <1>4 DEF ChildExec, ExecSucceeds, toolVars, kernVars
  <2>2. rdx = "program"
    BY <1>4, <2>1 DEF RdxKept
  <2>3. QED BY <2>1, <2>2, RdxUntouched
<1>5. CASE ~ToolEnded /\ (EnterKernel \/ LeaveKernel)
  <2>1. /\ tool = "count_syscall" /\ UNCHANGED <<tool, rdx>>
        /\ tracee' \in {"stopped", "zombie"}
    BY <1>5 DEF EnterKernel, LeaveKernel, AtSyscall, toolVars
  <2>2. QED BY <2>1, RdxUntouched
<1>6. CASE ~ToolEnded /\ (FirstEnd \/ WaitEnd \/ (Interrupted /\ exitkill))
  <2>1. UNCHANGED <<tool, rdx>> /\ tracee' = "none" /\ ToolEnded'
    BY <1>6 DEF FirstEnd, WaitEnd, Interrupted, Reap, ToolEnded, kernVars
  <2>2. QED BY <2>1, RdxUntouched DEF Alive
<1>7. CASE ~ToolEnded /\ (CountAndStep \/ ToNextSyscall \/ LogSyscall)
  <2>1. /\ tool # "write_tracee" /\ UNCHANGED <<tool, rdx>>
        /\ tracee' \in {"stopped", "running"} \/ (tracee' = "none" /\ ToolEnded')
    BY <1>7 DEF CountAndStep, ToNextSyscall, LogSyscall, Go, GiveUp, Reap, ToolEnded, kernVars,
                traceeVars
  <2>2. QED BY <2>1, RdxUntouched
<1>8. CASE ~ToolEnded /\ (\/ ForkChild \/ ForkFails \/ ListMissing \/ FirstStop \/ WaitStop
                          \/ (Interrupted /\ ~exitkill))
  <2>1. UNCHANGED <<tool, rdx, signalled, trip, bias, trapped>>
    BY <1>8 DEF ForkChild, Fork, ForkFails, ListMissing, FirstStop, WaitStop, Interrupted, Go,
                kernVars, traceeVars
  <2>2. Where' = Where /\ (Alive' => Alive)
        /\ (tracee' \in {"none", "forked"} => tracee \in {"none", "forked"})
    BY <1>8, <2>1 DEF ForkChild, Fork, ForkFails, ListMissing, FirstStop, WaitStop, Interrupted,
                      Go, kernVars, traceeVars, Where, here, Alive, Faithful, RunsAwaited
  <2>3. UNCHANGED <<tool, rdx>>
    BY <2>1
  <2>4. tool = "write_tracee" /\ signalled' = 0 /\ Alive'
           => signalled = 0 /\ (rdx = "program" \/ (Alive /\ Where' = Where))
    BY <2>1, <2>2
  <2>5. tracee' \in {"none", "forked"} /\ ~ToolEnded'
           => tracee \in {"none", "forked"} /\ ~ToolEnded
    BY <1>8, <2>2
  <2>6. QED BY <2>3, <2>4, <2>5, RdxUntouched
<1>9. CASE ~ToolEnded /\ (ChildExecFails \/ ProgramSignal \/ ProgramKilled)
  <2>1. /\ UNCHANGED <<tool, rdx>> /\ (signalled' # 0 \/ ~Alive')
        /\ tracee' \notin {"none", "forked"}
    BY <1>9, TracersAssumption
       DEF ChildExecFails, ProgramSignal, SignalStop, ProgramKilled, Killed, toolVars, kernVars,
           Alive, TypeOK
  <2>2. QED BY <2>1, RdxUntouched
<1>10. QED
  BY <1>1, <1>2, <1>3, <1>4, <1>5, <1>6, <1>7, <1>8, <1>9 DEF Next, Tool, Traced, Fails

\* Under a tool that keeps rdx, or a program that spares it, an instruction
\* that reads it finds its own value.
LEMMA ReadsOwn ==
    ASSUME TypeOK, NEW R, Faithful(R), NEW T,
           tool = "write_tracee" => signalled = 0 /\ T \subseteq Starts \ UsesRdx,
           RdxKept(T), ProgramAt \in UsesRdx
    PROVE  rdx = "program"
<1>1. Alive /\ ProgramAt = Where
  BY ProgramAssumption, TracersAssumption, NotCC
     DEF ProgramAt, Where, Alive, TypeOK, TraceeTypeOK, TraceeStatus, Faithful
<1>2. QED BY <1>1 DEF RdxKept, TypeOK

\* Signals are never forgotten.
LEMMA SignalsStay ==
    ASSUME TypeOK, [Next]_vars, signalled' = 0
    PROVE  signalled = 0
<1>1. signalled' = signalled \/ signalled' = signalled + 1
  BY DEF Next, Tool, Traced, Fails, ForkChild, ForkFails, ListMissing, FirstStop, FirstEnd,
         CountAndStep, ToNextSyscall, WaitStop, WaitEnd, LogSyscall, Patch, ChildExec,
         ChildExecFails, ProgramRuns, EnterKernel, LeaveKernel, ProgramSignal, ProgramKilled,
         Interrupted, kernVars, stopVars, vars
<1>2. QED BY <1>1, TracersAssumption DEF TypeOK

\* Refinement: under counter and count_syscall any program, and under
\* write_tracee one whose list fits, executes the instructions of its file in
\* an order the file allows, from its entry to its exit or its kill; and what
\* an instruction reads from rdx is the program's own, under write_tracee if
\* the program spares rdx.
THEOREM RunsAsItself == ASSUME ListFits PROVE Spec => RunsTheProgram
<1>1. PICK R : Fits(R)
  BY DEF ListFits
<1>2. PICK T : Overwritten(T) /\ (RdxSpared => T \subseteq Starts \ UsesRdx)
  <2>1. CASE RdxSpared
    BY <2>1 DEF RdxSpared
  <2>2. CASE ~RdxSpared
    <3>1. Overwritten(Starts)
      BY ProgramAssumption, TracersAssumption DEF Overwritten
    <3>2. QED BY <2>2, <3>1
  <2>3. QED BY <2>1, <2>2
<1>3. Init => Faithful(R) /\ RdxKept(T)
  BY InitFaithful DEF Init, NoTracee, RdxKept, Alive
<1>4. TypeOK /\ TypeOK' /\ Faithful(R) /\ RdxKept(T) /\ [Next]_vars => Faithful(R)' /\ RdxKept(T)'
  BY <1>1, <1>2, NextFaithful, NextRdx
<1>5. TypeOK /\ TypeOK' /\ Faithful(R) /\ RdxKept(T) /\ [Next]_vars
      => [(tool = "write_tracee" => signalled' = 0) =>
             /\ Untraced!Next
             /\ (tool = "write_tracee" => RdxSpared) /\ ProgramAt \in UsesRdx
                   => rdx = "program"]_ProgramAt
  <2> SUFFICES ASSUME TypeOK, TypeOK', Faithful(R), RdxKept(T), [Next]_vars,
                      ProgramAt' # ProgramAt, tool = "write_tracee" => signalled' = 0
               PROVE  /\ Untraced!Next
                      /\ (tool = "write_tracee" => RdxSpared) /\ ProgramAt \in UsesRdx
                            => rdx = "program"
    OBVIOUS
  <2>1. Untraced!Next
    BY <1>1, NextFaithful DEF AsProgram
  <2>2. tool = "write_tracee" => signalled = 0
    BY SignalsStay
  <2>3. ASSUME tool = "write_tracee" => RdxSpared, ProgramAt \in UsesRdx PROVE rdx = "program"
    BY <1>2, <2>2, <2>3, ReadsOwn
  <2>4. QED BY <2>1, <2>3
<1>6. QED BY <1>3, <1>4, <1>5, TracersTypeCorrect, PTL DEF Spec, RunsTheProgram
=============================================================================
