------------------------------ MODULE SDBProofs ------------------------------
(***************************************************************************)
(* Proofs about the debugger, for every program, every list length, every  *)
(* set of faults and every user: its type invariant, and two invariants    *)
(* over the full specification Spec.                                       *)
(***************************************************************************)
EXTENDS SDB, TraceeProofs

-----------------------------------------------------------------------------
(* What the shared pieces return.                                          *)

\* The file has bytes, and so has an armed memory.
LEMMA ImageTypes ==
    ASSUME mem \in [Image -> Byte], NEW s
    PROVE  /\ Own \in [Image -> Byte]
           /\ Armed(s) \in [Image -> Byte]
           /\ CC \in Byte
BY DEF Own, Armed, Byte

\* Moving the addresses of the list keeps it a list of break points.
LEMMA ShiftedType ==
    ASSUME NEW d \in Int, slots \in [Slot -> BPs]
    PROVE  Shifted(d) \in [Slot -> BPs]
<1>1. ASSUME NEW i \in Slot
      PROVE  [slots[i] EXCEPT !.addr = @ + d] \in BPs /\ slots[i] \in BPs
  BY <1>1 DEF BPs
<1>2. QED BY <1>1 DEF Shifted

\* vector::push_back, below the bound of the model.
LEMMA PushBackType ==
    ASSUME NEW b \in BPs, slots \in [Slot -> BPs], nbp \in 0..MaxBP,
           slots' = [slots EXCEPT ![nbp] = b], nbp' = nbp + 1, nbp < MaxBP
    PROVE  slots' \in [Slot -> BPs] /\ nbp' \in 0..MaxBP
<1>1. slots' \in [Slot -> BPs]
  OBVIOUS
<1>2. nbp' \in 0..MaxBP
  BY DebuggerAssumption
<1>3. QED BY <1>1, <1>2

\* So does vector::erase.
LEMMA ErasedType ==
    ASSUME NEW i \in Slot, slots \in [Slot -> BPs], nbp \in 0..MaxBP
    PROVE  Erased(i) \in [Slot -> BPs]
BY DebuggerAssumption DEF Erased, Slot

\* check_if_bp leaves an index and a register of the right types.
LEMMA CheckIfBpType ==
    ASSUME NEW s, NEW r \in Int, nbp \in 0..MaxBP, CheckIfBp(s, r)
    PROVE  bp_idx' \in Slot \cup {-1} /\ rip' \in Int
BY DebuggerAssumption DEF CheckIfBp, HitAt, Live, Slot

\* The registers fetched are a number, whether the fetch succeeds or not.
LEMMA FetchedType == TypeOK => Fetched \in Int
BY DEF TypeOK, TraceeTypeOK, Fetched

\* The first half of continue_impl, on any well-formed memory and list.
LEMMA ResumeType ==
    ASSUME TypeOK, NEW m \in [Image -> Byte], NEW s \in [Slot -> BPs],
           NEW step \in BOOLEAN, Resume(m, s, step)
    PROVE  /\ mem' \in [Image -> Byte] /\ tracee' \in TraceeStatus
           /\ trip' \in Int /\ trapped' \in BOOLEAN /\ single' \in BOOLEAN
           /\ pc' \in Phase
<1>1. mem' \in [Image -> Byte]
  <2>1. CASE bp_idx = -1  BY <2>1 DEF Resume, Lifted
  <2>2. CASE bp_idx # -1
    <3>1. s[bp_idx] \in BPs  BY <2>2 DEF TypeOK
    <3>2. s[bp_idx].original_byte \in Byte  BY <3>1 DEF BPs
    <3>3. QED BY <2>2, <3>2, PokeType DEF Resume, Lifted
  <2>3. QED BY <2>1, <2>2
<1>2. trip' \in Int /\ trapped' \in BOOLEAN
  BY SetTripType DEF Resume, StoreRegs, TypeOK, TraceeTypeOK
<1>3. tracee' \in TraceeStatus /\ single' \in BOOLEAN
  BY DEF Resume, TypeOK, TraceeTypeOK, TraceeStatus
<1>4. QED BY <1>1, <1>2, <1>3 DEF Resume, Phase

\* The place of the next disasm, moved or not.
LEMMA DisasmMovedType ==
    ASSUME NEW d \in Int, last_disasm \in Int
    PROVE  DisasmMoved(d) \in Int
BY DEF DisasmMoved

\* Where disasm and dump end.
LEMMA LookEndsType ==
    ASSUME NEW s \in Int
    PROVE  DisasmEnds(s) \subseteq Int /\ DumpEnds(s) \subseteq Int
BY DebuggerAssumption DEF DisasmEnds, DumpEnds

\* Where they begin.
LEMMA BeginningsType ==
    ASSUME NEW s \in Int, bias \in Int
    PROVE  Beginnings(s) \subseteq Int
BY DebuggerAssumption DEF Beginnings

\* The base address an exec ends with.
LEMMA ExecBaseType ==
    TypeOK => ExecBase \in Int /\ GoneBase \in Int /\ FoundLast \in Int
BY ProgramAssumption
DEF ExecBase, GoneBase, FoundBase, FoundLast, TypeOK, TraceeTypeOK

-----------------------------------------------------------------------------
(* Type correctness.                                                       *)

\* The two places stay numbers.
LEMMA LooksNext ==
    TypeOK /\ [Next]_vars => last_disasm' \in Int /\ last_dump' \in Int
<1> SUFFICES ASSUME TypeOK, [Next]_vars
             PROVE  last_disasm' \in Int /\ last_dump' \in Int
  OBVIOUS
<1>1. /\ last_disasm \in Int /\ last_dump \in Int /\ base_addr \in Int
      /\ bias \in Int /\ -base_addr \in Int
  BY DEF TypeOK, TraceeTypeOK
<1>2. CASE UNCHANGED looks
  BY <1>1, <1>2 DEF looks
<1>3. CASE ProgramTerminated
  BY <1>1, <1>3, DisasmMovedType DEF ProgramTerminated
<1>4. CASE ExecStop \/ ExecKilled
  BY <1>1, <1>4, ExecBaseType, DisasmMovedType DEF ExecStop, ExecKilled
<1>5. CASE Disasm
  <2>1. PICK s \in Int : DisasmFrom(s)
    BY <1>1, <1>5, BeginningsType DEF Disasm
  <2>2. QED BY <1>1, <2>1, LookEndsType DEF DisasmFrom
<1>6. CASE Dump
  <2>1. PICK s \in Int : DumpFrom(s)
    BY <1>1, <1>6, BeginningsType DEF Dump
  <2>2. QED BY <1>1, <2>1, LookEndsType DEF DumpFrom
<1>7. CASE Breaking
  BY <1>2, <1>7 DEF Breaking, BreakLoaded, BreakRunning, Delete
<1>8. CASE Registers
  BY <1>2, <1>8 DEF Registers, SetReg, SetRip, sdbVars
<1>9. CASE WaitNobody
  BY <1>2, <1>3, <1>9 DEF WaitNobody
<1>10. CASE Launching
  BY <1>2, <1>10
  DEF Launching, Load, Start, Run, Launch, StartAgain, StartForkFails, RunForkFails
<1>11. CASE Cont \/ Si \/ Quit
  BY <1>2, <1>11 DEF Cont, Si, Continue, Quit
<1>12. CASE WaitEnd
  BY <1>3, <1>12 DEF WaitEnd
<1>13. CASE Debugger
  BY <1>2, <1>4, <1>9, <1>12, <1>13 DEF Debugger, ExecAbort, Rearm, WaitStop
<1>14. CASE Process
  BY <1>2, <1>14 DEF Process, ChildExec, ChildExecFails, ChildQuits, ProgramRuns,
                     ProgramSignal, ProgramKilled, sdbVars
<1>15. CASE UNCHANGED vars
  BY <1>2, <1>15 DEF vars, sdbVars
<1>16. QED
  BY <1>5, <1>6, <1>7, <1>8, <1>10, <1>11, <1>13, <1>14, <1>15
  DEF Next, User, Looking, Halted

LEMMA TypeInit == Init => TypeOK
<1> SUFFICES ASSUME Init PROVE TypeOK
  OBVIOUS
<1>1. TraceeTypeOK
  <2>1. mem \in [Image -> Byte]
    BY OwnType DEF Init, NoTracee
  <2>2. bias \in Int /\ trip \in Int
    BY DEF Init, NoTracee
  <2>3. tracee \in TraceeStatus /\ single \in BOOLEAN /\ trapped \in BOOLEAN
    BY DEF Init, NoTracee, TraceeStatus
  <2>4. QED BY <2>1, <2>2, <2>3 DEF TraceeTypeOK
<1>2. slots \in [Slot -> BPs]
  BY DEF Init, BPs, Byte
<1>3. nbp \in 0..MaxBP
  BY DebuggerAssumption DEF Init
<1>4. QED
  BY <1>1, <1>2, <1>3, DebuggerAssumption DEF Init, TypeOK, Phase, PathKind

\* One step of the whole system keeps every variable in its type.
LEMMA TypeNext == TypeOK /\ [Next]_vars => TypeOK'
<1> SUFFICES ASSUME TypeOK, [Next]_vars PROVE TypeOK'
  OBVIOUS
<1> USE DebuggerAssumption
<1>0. last_disasm' \in Int /\ last_dump' \in Int
  BY LooksNext
<1> USE <1>0
<1>1. ASSUME NEW k \in Paths, Load(k) PROVE TypeOK'
  BY <1>1 DEF Load, TypeOK, TraceeTypeOK, traceeVars
<1>2. ASSUME NEW a \in BreakAddrs, BreakLoaded(a) PROVE TypeOK'
  <2>1. [addr |-> a, original_byte |-> FileByte(a)] \in BPs
    <3>1. a \in Image
      BY <1>2 DEF BreakLoaded
    <3>2. FileByte(a) \in Byte
      BY <3>1, OwnType DEF FileByte
    <3>3. a \in Int
      OBVIOUS
    <3>4. QED BY <3>2, <3>3 DEF BPs
  <2>2. slots' \in [Slot -> BPs] /\ nbp' \in 0..MaxBP
    BY <1>2, <2>1, PushBackType DEF BreakLoaded, TypeOK
  <2>3. QED BY <1>2, <2>2 DEF BreakLoaded, TypeOK, TraceeTypeOK, traceeVars
<1>3. ASSUME NEW a \in BreakAddrs, BreakRunning(a) PROVE TypeOK'
  <2> DEFINE addr == a + bias
  <2>1. addr \in Int
    BY DEF TypeOK, TraceeTypeOK
  <2>2. Peek(addr) \in Byte
    BY PeekType DEF TypeOK, TraceeTypeOK
  <2>3. mem' \in [Image -> Byte]
    BY <1>3, PokeType, ImageTypes DEF BreakRunning, TypeOK, TraceeTypeOK
  <2>4. slots' \in [Slot -> BPs] /\ nbp' \in 0..MaxBP
    <3> DEFINE new == [addr |-> addr, original_byte |-> Peek(addr)]
    <3>1. new \in BPs
      BY <2>1, <2>2 DEF BPs
    <3>2. slots' = [slots EXCEPT ![nbp] = new] /\ nbp' = nbp + 1 /\ nbp < MaxBP
      BY <1>3 DEF BreakRunning
    <3> HIDE DEF new
    <3>3. QED BY <3>1, <3>2, PushBackType DEF TypeOK
  <2>5. missed' \subseteq Int
    BY <1>3 DEF BreakRunning, TypeOK
  <2>6. QED BY <1>3, <2>3, <2>4, <2>5 DEF BreakRunning, TypeOK, TraceeTypeOK
<1>4. ASSUME NEW i \in Slot, Delete(i) PROVE TypeOK'
  <2>1. slots[i].original_byte \in Byte /\ i < nbp
    BY <1>4 DEF TypeOK, BPs, Delete, IsIndex, Live
  <2>2. mem' \in [Image -> Byte]
    BY <1>4, <2>1, PokeType DEF Delete, Disarmed, TypeOK, TraceeTypeOK
  <2>3. slots' \in [Slot -> BPs]
    BY <1>4, ErasedType DEF Delete, TypeOK
  <2>4. nbp' \in 0..MaxBP
    BY <1>4, <2>1 DEF Delete, TypeOK, Slot
  <2>5. bp_idx' \in Slot \cup {-1} /\ trip' \in Int /\ trapped' \in BOOLEAN
    BY <1>4, SetTripType DEF Delete, Leave, TypeOK, TraceeTypeOK
  <2>6. QED BY <1>4, <2>2, <2>3, <2>4, <2>5 DEF Delete, TypeOK, TraceeTypeOK
<1>5. CASE SetReg
  <2>1. trip' \in Int /\ trapped' \in BOOLEAN
    BY <1>5, SetTripType DEF SetReg, TypeOK
  <2>2. QED BY <1>5, <2>1 DEF SetReg, TypeOK, TraceeTypeOK, sdbVars
<1>6. ASSUME NEW a \in RipTargets, SetRip(a) PROVE TypeOK'
  <2>1. a + bias \in Int
    BY DEF TypeOK, TraceeTypeOK
  <2>2. trip' \in Int /\ trapped' \in BOOLEAN
    BY <1>6, <2>1, SetTripType DEF SetRip, TypeOK
  <2>3. bp_idx' \in Slot \cup {-1} /\ rip' \in Int
    BY <1>6, <2>1, CheckIfBpType DEF SetRip, TypeOK
  <2>4. QED BY <1>6, <2>2, <2>3 DEF SetRip, TypeOK, TraceeTypeOK
<1>7. ASSUME NEW step \in BOOLEAN, Continue(step) PROVE TypeOK'
  <2>1. Resume(mem, slots, step) /\ mem \in [Image -> Byte] /\ slots \in [Slot -> BPs]
    BY <1>7 DEF Continue, TypeOK, TraceeTypeOK
  <2>2. /\ mem' \in [Image -> Byte] /\ tracee' \in TraceeStatus
        /\ trip' \in Int /\ trapped' \in BOOLEAN /\ single' \in BOOLEAN
        /\ pc' \in Phase
    BY <1>7, <2>1, ResumeType
  <2>3. QED BY <1>7, <2>2 DEF Continue, TypeOK, TraceeTypeOK
<1>8. CASE StartAgain
  <2>1. bp_idx' \in Slot \cup {-1} /\ rip' \in Int
    BY <1>8, CheckIfBpType, FetchedType DEF StartAgain, TypeOK
  <2>2. QED BY <1>8, <2>1 DEF StartAgain, TypeOK, TraceeTypeOK, traceeVars
<1>9. CASE Start \/ Run
  BY <1>9 DEF Start, Run, Launch, Fork, TypeOK, TraceeTypeOK, TraceeStatus, Phase
<1>10. CASE StartForkFails
  <2>1. bp_idx' \in Slot \cup {-1} /\ rip' \in Int
    BY <1>10, CheckIfBpType, FetchedType DEF StartForkFails, TypeOK
  <2>2. QED BY <1>10, <2>1 DEF StartForkFails, TypeOK, TraceeTypeOK, traceeVars
<1>11. CASE RunForkFails
  BY <1>11 DEF RunForkFails, TypeOK, TraceeTypeOK, traceeVars, Phase
<1>12. CASE Quit
  BY <1>12, ReapType DEF Quit, TypeOK, Phase
<1>13. CASE ExecStop
  <2>1. ExecBase \in Int /\ FoundLast \in Int
    BY ProgramAssumption DEF ExecBase, FoundBase, FoundLast, TypeOK, TraceeTypeOK
  <2>2. slots' \in [Slot -> BPs]
    BY <1>13, <2>1, ShiftedType DEF ExecStop, TypeOK
  <2>3. Armed(slots') \in [Image -> Byte]
    BY ImageTypes DEF TypeOK, TraceeTypeOK
  <2>4. CASE pc = "exec_start"
    <3>1. bp_idx' \in Slot \cup {-1} /\ rip' \in Int
      BY <1>13, <2>4, CheckIfBpType, FetchedType DEF ExecStop, TypeOK
    <3>2. mem' \in [Image -> Byte] /\ pc' \in Phase
      BY <1>13, <2>3, <2>4 DEF ExecStop, Phase
    <3>3. UNCHANGED <<tracee, trip, single, trapped>>
      BY <1>13, <2>4 DEF ExecStop
    <3>4. QED BY <1>13, <2>1, <2>2, <3>1, <3>2, <3>3 DEF ExecStop, TypeOK, TraceeTypeOK
  <2>5. CASE pc = "exec_run"
    <3>1. Resume(Armed(slots'), slots', FALSE) /\ UNCHANGED <<rip, bp_idx>>
      BY <1>13, <2>5 DEF ExecStop
    <3>2. /\ mem' \in [Image -> Byte] /\ tracee' \in TraceeStatus
          /\ trip' \in Int /\ trapped' \in BOOLEAN /\ single' \in BOOLEAN
          /\ pc' \in Phase
      BY <2>2, <2>3, <3>1, ResumeType
    <3>3. QED BY <1>13, <2>1, <2>2, <3>1, <3>2 DEF ExecStop, TypeOK, TraceeTypeOK
  <2>6. QED BY <1>13, <2>4, <2>5 DEF ExecStop
<1>14. CASE ExecAbort
  BY <1>14, ReapType DEF ExecAbort, TypeOK, Phase
<1>15. CASE Rearm
  <2>1. mem' \in [Image -> Byte]
    BY <1>15, PokeType, ImageTypes DEF Rearm, TypeOK, TraceeTypeOK
  <2>2. slots[bp_idx].addr \in Int
    BY <1>15 DEF Rearm, TypeOK, BPs
  <2>3. missed' \subseteq Int
    BY <1>15, <2>2 DEF Rearm, TypeOK
  <2>4. QED BY <1>15, <2>1, <2>3 DEF Rearm, TypeOK, TraceeTypeOK, Phase
<1>16. CASE WaitStop
  <2>1. bp_idx' \in Slot \cup {-1} /\ rip' \in Int
    BY <1>16, CheckIfBpType, FetchedType DEF WaitStop, TypeOK
  <2>2. QED BY <1>16, <2>1 DEF WaitStop, TypeOK, TraceeTypeOK, traceeVars, Phase
<1>17. CASE WaitEnd
  <2>1. slots' \in [Slot -> BPs]
    BY <1>17, ShiftedType DEF WaitEnd, ProgramTerminated, TypeOK
  <2>2. QED BY <1>17, <2>1, ReapType DEF WaitEnd, ProgramTerminated, TypeOK, Phase
<1>18. CASE ChildExec
  <2>1. PICK b \in Biases : ExecSucceeds(b, Own)
    BY <1>18 DEF ChildExec
  <2>2. TraceeTypeOK'
    <3>1. mem' \in [Image -> Byte]
      BY <2>1, OwnType DEF ExecSucceeds
    <3>2. bias' \in Int /\ trip' \in Int
      BY <2>1, ProgramAssumption DEF ExecSucceeds, Image
    <3>3. QED BY <2>1, <3>1, <3>2 DEF ExecSucceeds, TraceeTypeOK, TraceeStatus
  <2>3. QED BY <1>18, <2>2 DEF ChildExec, TypeOK, sdbVars
<1>19. CASE ChildExecFails \/ ChildQuits
  BY <1>19 DEF ChildExecFails, ChildQuits, TypeOK, TraceeTypeOK, TraceeStatus, sdbVars
<1>20. CASE ProgramRuns \/ ProgramSignal \/ ProgramKilled
  <2>1. TraceeTypeOK'
    BY <1>20, RunsType DEF ProgramRuns, ProgramSignal, ProgramKilled, TypeOK
  <2>2. QED
    BY <1>20, <2>1
    DEF ProgramRuns, ProgramSignal, ProgramKilled, TypeOK, sdbVars
<1>21. CASE Disasm \/ Dump
  BY <1>21 DEF Disasm, DisasmFrom, Dump, DumpFrom, TypeOK, TraceeTypeOK, traceeVars
<1>22. CASE WaitNobody
  <2>1. CASE ProgramTerminated /\ UNCHANGED rip
    <3>1. slots' \in [Slot -> BPs]
      BY <2>1, ShiftedType DEF ProgramTerminated, TypeOK
    <3>2. QED
      BY <1>22, <2>1, <3>1
      DEF WaitNobody, ProgramTerminated, TypeOK, TraceeTypeOK, traceeVars, Phase
  <2>2. CASE CheckIfBp(slots, Fetched) /\ UNCHANGED <<current, slots, base_addr>>
    <3>1. bp_idx' \in Slot \cup {-1} /\ rip' \in Int
      BY <2>2, CheckIfBpType, FetchedType DEF TypeOK
    <3>2. QED
      BY <1>22, <2>2, <3>1 DEF WaitNobody, TypeOK, TraceeTypeOK, traceeVars, Phase
  <2>3. QED BY <1>22, <2>1, <2>2 DEF WaitNobody
<1>23. CASE ExecKilled
  <2>1. GoneBase \in Int
    BY ExecBaseType
  <2>2. slots' \in [Slot -> BPs]
    BY <1>23, <2>1, ShiftedType DEF ExecKilled, TypeOK
  <2>3. bp_idx' \in Slot \cup {-1} /\ rip' \in Int
    <3>1. CASE CheckIfBp(slots', rip)
      BY <3>1, CheckIfBpType DEF TypeOK
    <3>2. QED BY <1>23, <3>1 DEF ExecKilled, TypeOK
  <2>4. TraceeTypeOK' /\ pc' \in Phase
    BY <1>23 DEF ExecKilled, Killed, TypeOK, TraceeTypeOK, TraceeStatus, Phase
  <2>5. QED BY <1>23, <2>1, <2>2, <2>3, <2>4 DEF ExecKilled, TypeOK
<1>24. CASE UNCHANGED vars
  BY <1>24 DEF vars, traceeVars, sdbVars, TypeOK, TraceeTypeOK
<1>25. QED
  BY <1>1, <1>2, <1>3, <1>4, <1>5, <1>6, <1>7, <1>8, <1>9, <1>10, <1>11, <1>12,
     <1>13, <1>14, <1>15, <1>16, <1>17, <1>18, <1>19, <1>20, <1>21, <1>22, <1>23, <1>24
  DEF Next, User, Breaking, Registers, Looking, Launching, Cont, Si, Debugger, Process, Halted

\* Every variable of the debugger and of its tracee stays in its type, for
\* every program, every user and every fault.
THEOREM TypeCorrect == Spec => []TypeOK
<1>1. QED BY TypeInit, TypeNext, PTL DEF Spec

-----------------------------------------------------------------------------
(* Who waits for whom.                                                     *)

\* No step leaves a command waiting for an answer that cannot come.
LEMMA WaitsNext == TypeOK /\ WaitsAnswered /\ [Next]_vars => WaitsAnswered'
<1> SUFFICES ASSUME TypeOK, WaitsAnswered, [Next]_vars PROVE WaitsAnswered'
  OBVIOUS
<1> USE DEF WaitsAnswered
<1>1. ASSUME NEW k \in Paths, Load(k) PROVE WaitsAnswered'
  BY <1>1 DEF Load, traceeVars
<1>2. ASSUME NEW a \in BreakAddrs, BreakLoaded(a) \/ BreakRunning(a)
      PROVE WaitsAnswered'
  BY <1>2 DEF BreakLoaded, BreakRunning, traceeVars
<1>3. ASSUME NEW i \in Slot, Delete(i) PROVE WaitsAnswered'
  BY <1>3 DEF Delete
<1>4. CASE SetReg
  BY <1>4 DEF SetReg, sdbVars
<1>5. ASSUME NEW a \in RipTargets, SetRip(a) PROVE WaitsAnswered'
  BY <1>5 DEF SetRip
<1>6. ASSUME NEW step \in BOOLEAN, Continue(step) PROVE WaitsAnswered'
  BY <1>6 DEF Continue, Resume
<1>7. CASE StartAgain \/ StartForkFails
  BY <1>7 DEF StartAgain, StartForkFails, traceeVars
<1>8. CASE Start \/ Run
  BY <1>8 DEF Start, Run, Launch, Fork
<1>9. CASE RunForkFails \/ WaitNobody
  BY <1>9 DEF RunForkFails, WaitNobody, ProgramTerminated, traceeVars
<1>10. CASE Quit \/ ExecAbort
  BY <1>10 DEF Quit, ExecAbort, Reap
<1>11. CASE ExecStop \/ ExecKilled
  BY <1>11 DEF ExecStop, ExecKilled, Killed, Resume
<1>12. CASE Rearm \/ WaitStop
  BY <1>12 DEF Rearm, WaitStop, traceeVars
<1>13. CASE WaitEnd
  BY <1>13 DEF WaitEnd, ProgramTerminated, Reap
<1>14. CASE ChildExec \/ ChildExecFails \/ ChildQuits
  BY <1>14 DEF ChildExec, ExecSucceeds, ChildExecFails, ChildQuits, sdbVars
<1>15. CASE ProgramRuns
  BY <1>15 DEF ProgramRuns, Runs, Trap, Execute, Exit, Misexecute, StopIfSingle, sdbVars
<1>16. CASE ProgramSignal \/ ProgramKilled
  BY <1>16 DEF ProgramSignal, SignalStop, ProgramKilled, Killed, sdbVars
<1>17. CASE Disasm \/ Dump
  BY <1>17 DEF Disasm, DisasmFrom, Dump, DumpFrom, traceeVars
<1>18. CASE UNCHANGED vars
  BY <1>18 DEF vars, traceeVars, sdbVars
<1>19. QED
  BY <1>1, <1>2, <1>3, <1>4, <1>5, <1>6, <1>7, <1>8, <1>9, <1>10, <1>11, <1>12,
     <1>13, <1>14, <1>15, <1>16, <1>17, <1>18
  DEF Next, User, Breaking, Registers, Looking, Launching, Cont, Si, Debugger, Process, Halted

\* Whatever fails, fork, exec, the program or its life, every waitpid is answered:
\* there is a process to wait for or, after a failed fork, no child at all; and
\* the prompt is never back while the program runs.
THEOREM EveryWaitAnswered == Spec => []WaitsAnswered
<1>1. Init => WaitsAnswered
  BY DEF Init, NoTracee, WaitsAnswered
<1>2. QED BY <1>1, TypeInit, TypeNext, WaitsNext, PTL DEF Spec

-----------------------------------------------------------------------------
(* The cached registers.                                                   *)

\* After a successful fetch check_if_bp has the registers of the tracee, or
\* has them rewound by one.
LEMMA CheckIfBpFetches ==
    ASSUME NEW s, NEW r \in Int, CheckIfBp(s, r)
    PROVE  IF bp_idx' = -1 THEN rip' = r ELSE rip' \in {r, r - 1}
<1>1. CASE HitAt(s, r) = {} /\ bp_idx' = -1 /\ rip' = r
  BY <1>1
<1>2. CASE rip' = r - 1 /\ bp_idx' \in HitAt(s, r)
  <2>1. bp_idx' # -1
    BY <1>2 DEF HitAt, Live
  <2>2. QED BY <1>2, <2>1
<1>3. QED BY <1>1, <1>2 DEF CheckIfBp

\* Each step that ends at the prompt with the tracee stopped fetched the
\* registers, stored them, or left both sides alone.
LEMMA RegsNext ==
    TypeOK /\ WaitsAnswered /\ RegsCoherent /\ [Next]_vars => RegsCoherent'
<1> SUFFICES ASSUME TypeOK, WaitsAnswered, RegsCoherent, [Next]_vars, AtPrompt'
             PROVE  (IF bp_idx = -1 THEN rip = trip ELSE rip \in {trip, trip - 1})'
  BY DEF RegsCoherent
<1> DEFINE Goal == (IF bp_idx = -1 THEN rip = trip ELSE rip \in {trip, trip - 1})'
<1> USE DEF AtPrompt
<1>1. ASSUME NEW k \in Paths, Load(k) PROVE Goal
  BY <1>1 DEF Load
<1>2. ASSUME NEW a \in BreakAddrs, BreakLoaded(a) \/ BreakRunning(a) PROVE Goal
  BY <1>2 DEF BreakLoaded, BreakRunning, RegsCoherent, traceeVars
<1>3. ASSUME NEW i \in Slot, Delete(i) PROVE Goal
  <2>1. AtPrompt
    BY <1>3 DEF Delete
  <2>2. CASE bp_idx = i
    BY <1>3, <2>1, <2>2 DEF Delete, Leave, SetTrip
  <2>3. CASE bp_idx # i
    BY <1>3, <2>1, <2>3 DEF Delete, Leave, RegsCoherent
  <2>4. QED BY <2>2, <2>3
<1>4. CASE SetReg
  BY <1>4 DEF SetReg, SetTrip, sdbVars
<1>5. ASSUME NEW a \in RipTargets, SetRip(a) PROVE Goal
  <2>1. trip' = a + bias /\ a + bias \in Int
    BY <1>5, DebuggerAssumption DEF SetRip, SetTrip, TypeOK, TraceeTypeOK
  <2>2. QED BY <1>5, <2>1, CheckIfBpFetches DEF SetRip
<1>6. ASSUME NEW step \in BOOLEAN, Continue(step) PROVE Goal
  BY <1>6 DEF Continue, Resume
<1>7. CASE StartAgain
  <2>1. Fetched = trip /\ trip' = trip /\ trip \in Int
    BY <1>7 DEF StartAgain, Fetched, traceeVars, TypeOK, TraceeTypeOK
  <2>2. QED BY <1>7, <2>1, CheckIfBpFetches DEF StartAgain
<1>8. CASE Start \/ Run
  BY <1>8 DEF Start, Run, Launch
<1>9. CASE StartForkFails
  BY <1>9 DEF StartForkFails
<1>10. CASE RunForkFails \/ WaitNobody
  BY <1>10 DEF RunForkFails, WaitNobody, traceeVars
<1>11. CASE Quit \/ ExecAbort \/ ExecKilled
  BY <1>11 DEF Quit, ExecAbort, ExecKilled, Killed
<1>12. CASE ExecStop
  <2>1. CASE pc = "exec_start"
    <3>1. Fetched = trip /\ trip' = trip /\ trip \in Int /\ CheckIfBp(slots', Fetched)
      BY <1>12, <2>1 DEF ExecStop, Fetched, TypeOK, TraceeTypeOK
    <3>2. QED BY <3>1, CheckIfBpFetches
  <2>2. CASE pc = "exec_run"
    BY <1>12, <2>2 DEF ExecStop, Resume
  <2>3. QED BY <1>12, <2>1, <2>2 DEF ExecStop
<1>13. CASE Rearm
  BY <1>13 DEF Rearm
<1>14. CASE WaitStop
  <2>1. Fetched = trip /\ trip' = trip /\ trip \in Int
    BY <1>14 DEF WaitStop, Fetched, traceeVars, TypeOK, TraceeTypeOK
  <2>2. QED BY <1>14, <2>1, CheckIfBpFetches DEF WaitStop
<1>15. CASE WaitEnd
  BY <1>15 DEF WaitEnd, ProgramTerminated
<1>16. CASE ChildExec \/ ChildExecFails \/ ChildQuits
  BY <1>16 DEF ChildExec, ExecSucceeds, ChildExecFails, ChildQuits, sdbVars,
               WaitsAnswered
<1>17. CASE ProgramRuns
  BY <1>17 DEF ProgramRuns, Runs, Trap, Execute, Exit, Misexecute, sdbVars,
               WaitsAnswered
<1>18. CASE ProgramSignal \/ ProgramKilled
  BY <1>18 DEF ProgramSignal, SignalStop, ProgramKilled, Killed, sdbVars,
               WaitsAnswered
<1>19. CASE Disasm \/ Dump
  BY <1>19 DEF Disasm, DisasmFrom, Dump, DumpFrom, RegsCoherent, traceeVars
<1>20. CASE UNCHANGED vars
  BY <1>20 DEF vars, traceeVars, sdbVars, RegsCoherent
<1>21. QED
  BY <1>1, <1>2, <1>3, <1>4, <1>5, <1>6, <1>7, <1>8, <1>9, <1>10, <1>11, <1>12,
     <1>13, <1>14, <1>15, <1>16, <1>17, <1>18, <1>19, <1>20
  DEF Next, User, Breaking, Registers, Looking, Launching, Cont, Si, Debugger, Process, Halted

\* The registers shown and stored at the prompt are those of the program, rip
\* at most rewound over the int3, for every user and every fault.
THEOREM RegistersCoherent == Spec => []RegsCoherent
<1>1. Init => WaitsAnswered /\ RegsCoherent
  BY DEF Init, NoTracee, WaitsAnswered, RegsCoherent, AtPrompt
<1>2. QED BY <1>1, TypeInit, TypeNext, WaitsNext, RegsNext, PTL DEF Spec

-----------------------------------------------------------------------------
(* The list of break points.                                               *)

\* A common offset cancels.
LEMMA Cancel == \A x, y, d \in Int : x + d = y + d => x = y
OBVIOUS

\* Two entries that are moved together stay apart.
LEMMA ShiftedDistinct ==
    ASSUME TypeOK, BpDistinct, NEW d \in Int, slots' = Shifted(d), nbp' = nbp
    PROVE  BpDistinct'
<1>1. ASSUME NEW i \in Live
      PROVE  i \in Slot /\ slots[i].addr \in Int /\ slots'[i].addr = slots[i].addr + d
  <2>1. i \in Slot
    BY DebuggerAssumption DEF Live, Slot, TypeOK
  <2>2. slots[i] \in BPs
    BY <2>1 DEF TypeOK
  <2>3. slots'[i] = [slots[i] EXCEPT !.addr = @ + d]
    BY <2>1 DEF Shifted
  <2>4. QED BY <2>1, <2>2, <2>3 DEF BPs
<1>2. Live' = Live
  BY DEF Live
<1>3. ASSUME NEW i \in Live, NEW j \in Live, slots'[i].addr = slots'[j].addr
      PROVE  i = j
  <2>1. slots[i].addr = slots[j].addr
    <3>1. slots[i].addr + d = slots[j].addr + d
      BY <1>1, <1>3
    <3>2. slots[i].addr \in Int /\ slots[j].addr \in Int
      BY <1>1
    <3>3. QED BY <3>1, <3>2, Cancel
  <2>2. QED BY <2>1 DEF BpDistinct
<1>4. QED BY <1>2, <1>3 DEF BpDistinct

\* push_back of an address that is not in the list.
LEMMA PushBackDistinct ==
    ASSUME TypeOK, BpDistinct, NEW b, nbp < MaxBP,
           \A i \in Live : slots[i].addr # b.addr,
           slots' = [slots EXCEPT ![nbp] = b], nbp' = nbp + 1
    PROVE  BpDistinct'
<1>1. nbp \in Slot /\ nbp \notin Live /\ Live' = Live \cup {nbp} /\ Live \subseteq Slot
  BY DebuggerAssumption DEF Live, Slot, TypeOK
<1>2. slots'[nbp] = b /\ \A i \in Live : slots'[i] = slots[i]
  BY <1>1 DEF TypeOK
<1>3. QED BY <1>1, <1>2 DEF BpDistinct

\* erase moves entries, and never onto one another.
LEMMA ErasedDistinct ==
    ASSUME TypeOK, BpDistinct, NEW i \in Live, slots' = Erased(i), nbp' = nbp - 1
    PROVE  BpDistinct'
<1> DEFINE from(k) == IF i <= k THEN k + 1 ELSE k
<1>1. ASSUME NEW k \in Live'
      PROVE  from(k) \in Live /\ slots'[k] = slots[from(k)]
  <2>1. k \in Slot /\ k \in 0..(nbp - 2)
    BY DebuggerAssumption DEF Live, Slot, TypeOK
  <2>2. from(k) \in Live
    BY <2>1 DEF Live, TypeOK
  <2>3. k < nbp - 1
    BY <2>1 DEF TypeOK
  <2>4. slots'[k] = slots[from(k)]
    BY <2>1, <2>3 DEF Erased
  <2>5. QED BY <2>2, <2>4
<1>2. ASSUME NEW k \in Live', NEW l \in Live', from(k) = from(l)
      PROVE  k = l
  BY <1>2 DEF Live, TypeOK
<1>3. ASSUME NEW k \in Live', NEW l \in Live', slots'[k].addr = slots'[l].addr
      PROVE  k = l
  <2>1. from(k) = from(l)
    BY <1>1, <1>3 DEF BpDistinct
  <2>2. QED BY <1>2, <2>1
<1>4. QED BY <1>3 DEF BpDistinct

\* Only these three change the list.
LEMMA DistinctNext == TypeOK /\ BpDistinct /\ [Next]_vars => BpDistinct'
<1> SUFFICES ASSUME TypeOK, BpDistinct, [Next]_vars PROVE BpDistinct'
  OBVIOUS
<1>1. CASE UNCHANGED <<slots, nbp>>
  BY <1>1 DEF BpDistinct, Live
<1>2. ASSUME NEW a \in BreakAddrs, BreakLoaded(a) PROVE BpDistinct'
  <2> DEFINE b == [addr |-> a, original_byte |-> FileByte(a)]
  <2>1. /\ b.addr = a /\ nbp < MaxBP /\ nbp' = nbp + 1
        /\ \A i \in Live : slots[i].addr # a
        /\ slots' = [slots EXCEPT ![nbp] = b]
    BY <1>2 DEF BreakLoaded, NotListed
  <2> HIDE DEF b
  <2>2. QED BY <2>1, PushBackDistinct
<1>3. ASSUME NEW a \in BreakAddrs, BreakRunning(a) PROVE BpDistinct'
  <2> DEFINE addr == a + bias
             b == [addr |-> addr, original_byte |-> Peek(addr)]
  <2>1. /\ b.addr = addr /\ nbp < MaxBP /\ nbp' = nbp + 1
        /\ \A i \in Live : slots[i].addr # addr
        /\ slots' = [slots EXCEPT ![nbp] = b]
    BY <1>3 DEF BreakRunning, NotListed
  <2> HIDE DEF addr, b
  <2>2. QED BY <2>1, PushBackDistinct
<1>4. ASSUME NEW i \in Slot, Delete(i) PROVE BpDistinct'
  <2>1. i \in Live
    BY <1>4 DEF Delete, IsIndex, Live, Slot, TypeOK
  <2>2. QED BY <1>4, <2>1, ErasedDistinct DEF Delete
<1>5. CASE ProgramTerminated /\ nbp' = nbp
  <2>1. -base_addr \in Int
    BY DEF TypeOK
  <2>2. QED BY <1>5, <2>1, ShiftedDistinct DEF ProgramTerminated
<1>6. CASE ExecStop \/ ExecKilled
  BY <1>6, ExecBaseType, ShiftedDistinct DEF ExecStop, ExecKilled
<1>7. CASE WaitNobody
  BY <1>1, <1>5, <1>7 DEF WaitNobody
<1>8. CASE WaitEnd
  BY <1>5, <1>8 DEF WaitEnd
<1>9. CASE Registers
  BY <1>1, <1>9 DEF Registers, SetReg, SetRip, sdbVars
<1>10. CASE Launching
  BY <1>1, <1>10
  DEF Launching, Load, Start, Run, Launch, StartAgain, StartForkFails, RunForkFails
<1>11. CASE Cont \/ Si \/ Quit
  BY <1>1, <1>11 DEF Cont, Si, Continue, Quit
<1>12. CASE Debugger
  BY <1>1, <1>6, <1>7, <1>8, <1>12 DEF Debugger, ExecAbort, Rearm, WaitStop
<1>13. CASE Process
  BY <1>1, <1>13 DEF Process, ChildExec, ChildExecFails, ChildQuits, ProgramRuns,
                     ProgramSignal, ProgramKilled, sdbVars
<1>14. CASE Looking
  BY <1>1, <1>14 DEF Looking, Disasm, DisasmFrom, Dump, DumpFrom
<1>15. CASE UNCHANGED vars
  BY <1>1, <1>15 DEF vars, sdbVars
<1>16. QED
  BY <1>2, <1>3, <1>4, <1>9, <1>10, <1>11, <1>12, <1>13, <1>14, <1>15
  DEF Next, User, Breaking, Halted

\* No sequence of break, delete, launch, failed launch and termination puts an
\* address twice into the list.
THEOREM BreakPointsDistinct == Spec => []BpDistinct
<1>1. Init => BpDistinct
  BY DEF Init, BpDistinct, Live
<1>2. QED BY <1>1, TypeInit, TypeNext, DistinctNext, PTL DEF Spec

-----------------------------------------------------------------------------
(* The base address.                                                       *)

\* The two kinds of file exec_impl tells apart: one that may be mapped anywhere
\* is linked at 0, the other is mapped where it was linked.
AnyKind ==
    \/ SegLo = 0 /\ ShAddr = ShOffset
    \/ Biases = {0} /\ ShAddr = SegLo + ShOffset

\* The bias of a process that executes the file is one the kernel may choose.
Biased == tracee \in {"stopped", "running"} => bias \in Biases

\* Only exec and the end of the process change the bias.
LEMMA BiasedNext == Biased /\ [Next]_vars => Biased'
<1> SUFFICES ASSUME Biased, [Next]_vars PROVE Biased'
  OBVIOUS
<1> USE DEF Biased
<1>1. CASE UNCHANGED <<tracee, bias>>
  BY <1>1
<1>2. CASE Breaking
  BY <1>1, <1>2 DEF Breaking, BreakLoaded, BreakRunning, Delete, traceeVars
<1>3. CASE Registers \/ Looking
  BY <1>1, <1>3
  DEF Registers, SetReg, SetRip, Looking, Disasm, DisasmFrom, Dump, DumpFrom, traceeVars
<1>4. CASE Launching
  BY <1>1, <1>4
  DEF Launching, Load, Start, Run, Launch, Fork, StartAgain, StartForkFails,
      RunForkFails, traceeVars
<1>5. CASE Cont \/ Si
  BY <1>5 DEF Cont, Si, Continue, Resume
<1>6. CASE Quit \/ ExecAbort \/ WaitEnd
  BY <1>6 DEF Quit, ExecAbort, WaitEnd, Reap
<1>7. CASE ExecStop \/ ExecKilled
  BY <1>7 DEF ExecStop, ExecKilled, Killed, Resume
<1>8. CASE Rearm \/ WaitStop \/ WaitNobody
  BY <1>1, <1>8 DEF Rearm, WaitStop, WaitNobody, traceeVars
<1>9. CASE ChildExec
  BY <1>9 DEF ChildExec, ExecSucceeds
<1>10. CASE ChildExecFails \/ ChildQuits \/ ProgramSignal \/ ProgramKilled
  BY <1>10 DEF ChildExecFails, ChildQuits, ProgramSignal, SignalStop, ProgramKilled, Killed
<1>11. CASE ProgramRuns
  BY <1>11 DEF ProgramRuns, Runs, Trap, Execute, Exit, Misexecute, StopIfSingle
<1>12. CASE UNCHANGED vars
  BY <1>1, <1>12 DEF vars, traceeVars
<1>13. QED
  BY <1>2, <1>3, <1>4, <1>5, <1>6, <1>7, <1>8, <1>9, <1>10, <1>11, <1>12
  DEF Next, User, Debugger, Process, Halted

\* exec_impl computes the bias the kernel chose.
LEMMA ExecBaseTrue ==
    ASSUME AnyKind, TypeOK, bias \in Biases, path = "plain"
    PROVE  ExecBase = bias
<1>1. bias \in Int /\ SegLo \in Int /\ ShAddr \in Int /\ ShOffset \in Int
  BY DebuggerAssumption, ProgramAssumption DEF TypeOK, TraceeTypeOK
<1>2. ExecBase = IF bias + SegLo + ShOffset = ShAddr THEN 0 ELSE bias + SegLo
  BY DEF ExecBase, FoundBase
<1>3. CASE SegLo = 0 /\ ShAddr = ShOffset
  BY <1>1, <1>2, <1>3
<1>4. CASE Biases = {0} /\ ShAddr = SegLo + ShOffset
  BY <1>1, <1>2, <1>4
<1>5. QED BY <1>3, <1>4 DEF AnyKind

\* The base is found at the exec stop, kept while the process lives and reset
\* when it has ended.
LEMMA BaseNext ==
    ASSUME AnyKind, TypeOK, WaitsAnswered, Biased, BaseAddrTrue, [Next]_vars
    PROVE  BaseAddrTrue'
<1> USE DEF BaseAddrTrue
<1>1. CASE /\ UNCHANGED <<current, base_addr, path, bias>>
           /\ pc \in {"done", "aborted"} => pc' = pc
           /\ tracee = "zombie" => tracee' = "zombie"
  BY <1>1
<1>2. CASE ProgramTerminated
  BY <1>2 DEF ProgramTerminated
<1>3. CASE Breaking
  BY <1>1, <1>3 DEF Breaking, BreakLoaded, BreakRunning, Delete, traceeVars
<1>4. CASE Registers \/ Looking
  BY <1>1, <1>4
  DEF Registers, SetReg, SetRip, Looking, Disasm, DisasmFrom, Dump, DumpFrom,
      traceeVars, sdbVars
<1>5. CASE Start \/ Run \/ StartAgain \/ StartForkFails
  BY <1>1, <1>5 DEF Start, Run, Launch, Fork, StartAgain, StartForkFails, traceeVars
<1>6. ASSUME NEW k \in Paths, Load(k) PROVE BaseAddrTrue'
  BY <1>6 DEF Load
<1>7. CASE RunForkFails \/ WaitNobody
  BY <1>1, <1>2, <1>7 DEF RunForkFails, WaitNobody, traceeVars
<1>8. CASE Cont \/ Si
  BY <1>1, <1>8 DEF Cont, Si, Continue, Resume
<1>9. CASE Quit \/ ExecAbort
  BY <1>9 DEF Quit, ExecAbort
<1>10. CASE ExecStop
  <2>1. path' = path /\ bias' = bias /\ base_addr' = ExecBase /\ current' = "RUNNING"
        /\ bias \in Biases
    BY <1>10 DEF ExecStop, Biased
  <2>2. QED BY <2>1, ExecBaseTrue
<1>11. CASE Rearm \/ WaitStop
  BY <1>1, <1>11 DEF Rearm, WaitStop, traceeVars
<1>12. CASE WaitEnd
  BY <1>2, <1>12 DEF WaitEnd
<1>13. CASE ChildExec
  BY <1>13 DEF ChildExec, ExecSucceeds, WaitsAnswered, TypeOK, Phase, sdbVars
<1>14. CASE ChildExecFails \/ ChildQuits \/ ProgramRuns \/ ProgramSignal \/ ProgramKilled
  BY <1>1, <1>14
  DEF ChildExecFails, ChildQuits, ProgramRuns, Runs, Trap, Execute, Exit, Misexecute,
      ProgramSignal, SignalStop, ProgramKilled, Killed, sdbVars
<1>15. CASE UNCHANGED vars
  BY <1>1, <1>15 DEF vars, traceeVars, sdbVars
<1>16. CASE ExecKilled
  <2>1. base_addr = -1
    BY <1>16 DEF ExecKilled, WaitsAnswered
  <2>2. /\ base_addr' \in {-1, 0} /\ tracee' = "zombie" /\ current' = "RUNNING"
        /\ "kill" \in Faults
    BY <1>16, <2>1 DEF ExecKilled, GoneBase, Killed
  <2>3. QED BY <2>2
<1>17. QED
  BY <1>3, <1>4, <1>5, <1>6, <1>7, <1>8, <1>9, <1>10, <1>11, <1>12, <1>13, <1>14,
     <1>15, <1>16
  DEF Next, User, Launching, Debugger, Process, Halted

\* base_addr is the load bias, for either kind of file and every load bias the
\* kernel may choose, unless the process was killed before it was looked for,
\* and -1 while there is no process.
THEOREM BaseAddressTrue == ASSUME AnyKind PROVE Spec => []BaseAddrTrue
<1>1. Init => WaitsAnswered /\ Biased /\ BaseAddrTrue
  BY DEF Init, NoTracee, WaitsAnswered, Biased, BaseAddrTrue
<1>2. TypeOK /\ WaitsAnswered /\ Biased /\ BaseAddrTrue /\ [Next]_vars
      => BaseAddrTrue'
  BY BaseNext
<1>3. QED BY <1>1, <1>2, TypeInit, TypeNext, WaitsNext, BiasedNext, PTL DEF Spec

-----------------------------------------------------------------------------
(* The addresses that move with the program.                               *)

\* The user spells the file as maps does.  With any other spelling base_addr
\* is not found, and the addresses move by -1.
PlainOnly == Paths \subseteq {"plain"}

\* The next dump has a place to go on only while the program runs.
DumpOver == path = "plain" /\ (current # "RUNNING" => last_dump = -1)

\* Only dump sets the place, and the end of the program resets it.
LEMMA DumpOverNext ==
    ASSUME PlainOnly, DumpOver, [Next]_vars
    PROVE  DumpOver'
<1> USE DEF DumpOver
<1>1. CASE UNCHANGED <<path, current, looks>>
  BY <1>1 DEF looks
<1>2. CASE Breaking
  BY <1>1, <1>2 DEF Breaking, BreakLoaded, BreakRunning, Delete
<1>3. CASE Registers
  BY <1>1, <1>3 DEF Registers, SetReg, SetRip, sdbVars
<1>4. CASE Looking
  BY <1>4 DEF Looking, Disasm, DisasmFrom, Dump, DumpFrom
<1>5. ASSUME NEW k \in Paths, Load(k) PROVE DumpOver'
  BY <1>5 DEF Load, looks, PlainOnly
<1>6. CASE RunForkFails \/ WaitNobody
  BY <1>6 DEF RunForkFails, WaitNobody, ProgramTerminated, looks
<1>7. CASE Start \/ Run \/ StartAgain \/ StartForkFails
  BY <1>1, <1>7 DEF Start, Run, Launch, StartAgain, StartForkFails
<1>8. CASE Cont \/ Si \/ Quit
  BY <1>1, <1>8 DEF Cont, Si, Continue, Quit
<1>9. CASE ExecStop \/ ExecKilled \/ WaitEnd
  BY <1>9 DEF ExecStop, ExecKilled, WaitEnd, ProgramTerminated
<1>10. CASE ExecAbort \/ Rearm \/ WaitStop
  BY <1>1, <1>10 DEF ExecAbort, Rearm, WaitStop
<1>11. CASE Process
  BY <1>1, <1>11 DEF Process, ChildExec, ChildExecFails, ChildQuits, ProgramRuns,
                     ProgramSignal, ProgramKilled, sdbVars
<1>12. CASE UNCHANGED vars
  BY <1>1, <1>12 DEF vars, sdbVars
<1>13. QED
  BY <1>2, <1>3, <1>4, <1>5, <1>6, <1>7, <1>8, <1>9, <1>10, <1>11, <1>12
  DEF Next, User, Launching, Debugger, Halted

\* Where the entries of a moved list are.
LEMMA ShiftedAddr ==
    ASSUME TypeOK, NEW d \in Int, NEW i \in Live
    PROVE  Shifted(d)[i].addr = slots[i].addr + d
<1>1. i \in Slot
  BY DebuggerAssumption DEF Live, Slot, TypeOK
<1>2. slots[i] \in BPs
  BY <1>1 DEF TypeOK
<1>3. QED BY <1>1, <1>2 DEF Shifted, BPs

\* A launch ends in exec_impl and a life in program_terminated: no other step
\* goes from LOADED to RUNNING or back.
LEMMA RelocatedNext ==
    ASSUME AnyKind, PlainOnly, TypeOK, WaitsAnswered, Biased, BaseAddrTrue, DumpOver,
           [Next]_vars
    PROVE  Relocated
<1> USE DEF Relocated
<1>1. CASE current' = current
  BY <1>1
<1>2. bias \in Int /\ -bias \in Int
  BY DEF TypeOK, TraceeTypeOK
<1>3. CASE ExecStop
  <2>1. bias \in Biases /\ path = "plain" /\ current' = "RUNNING"
    BY <1>3 DEF ExecStop, Biased, DumpOver
  <2>2. slots' = Shifted(bias) /\ last_disasm' = DisasmMoved(bias)
    BY <1>3, <2>1, ExecBaseTrue DEF ExecStop
  <2>3. \A i \in Live : slots'[i].addr = slots[i].addr + bias
    BY <1>2, <2>2, ShiftedAddr
  <2>4. QED BY <2>1, <2>2, <2>3 DEF DumpOver
<1>4. CASE WaitEnd
  <2>1. current' = "LOADED"
    BY <1>4 DEF WaitEnd, ProgramTerminated
  <2> DEFINE found == current = "RUNNING" /\ base_addr \notin {-1, 0} \ {bias}
  <2>2. ASSUME found
        PROVE  slots' = Shifted(-bias) /\ last_disasm' = DisasmMoved(-bias)
    BY <1>4, <2>2 DEF WaitEnd, ProgramTerminated, BaseAddrTrue, DumpOver
  <2>3. ASSUME found, NEW i \in Live
        PROVE  slots'[i].addr = slots[i].addr - bias
    <3>1. slots'[i].addr = slots[i].addr + (-bias)
      BY <1>2, <2>2, <2>3, ShiftedAddr
    <3>2. slots[i].addr \in Int
      BY DebuggerAssumption DEF TypeOK, BPs, Live, Slot
    <3>3. QED BY <1>2, <3>1, <3>2
  <2>4. QED BY <2>1, <2>2, <2>3
<1>5. CASE Breaking
  BY <1>1, <1>5 DEF Breaking, BreakLoaded, BreakRunning, Delete
<1>6. CASE Registers \/ Looking
  BY <1>1, <1>6 DEF Registers, SetReg, SetRip, Looking, Disasm, DisasmFrom, Dump,
                    DumpFrom, sdbVars
<1>7. ASSUME NEW k \in Paths, Load(k) PROVE Relocated
  BY <1>7 DEF Load
<1>8. CASE RunForkFails \/ WaitNobody \/ ExecKilled
  <2>1. WaitNobody => current # "RUNNING"
    BY DEF WaitNobody, WaitsAnswered
  <2>2. QED BY <1>8, <2>1 DEF RunForkFails, WaitNobody, ProgramTerminated, ExecKilled, Killed
<1>9. CASE Start \/ Run \/ StartAgain \/ StartForkFails
  BY <1>1, <1>9 DEF Start, Run, Launch, StartAgain, StartForkFails
<1>10. CASE Cont \/ Si \/ Quit
  BY <1>1, <1>10 DEF Cont, Si, Continue, Quit
<1>11. CASE ExecAbort \/ Rearm \/ WaitStop
  BY <1>1, <1>11 DEF ExecAbort, Rearm, WaitStop
<1>12. CASE Process
  BY <1>1, <1>12 DEF Process, ChildExec, ChildExecFails, ChildQuits, ProgramRuns,
                     ProgramSignal, ProgramKilled, sdbVars
<1>13. CASE UNCHANGED vars
  BY <1>1, <1>13 DEF vars, sdbVars
<1>14. QED
  BY <1>3, <1>4, <1>5, <1>6, <1>7, <1>8, <1>9, <1>10, <1>11, <1>12, <1>13
  DEF Next, User, Launching, Debugger, Halted

\* Every break point and the place of the next disasm follow the program to
\* wherever it is loaded, and come back when it ends.
THEOREM AddressesFollow == ASSUME AnyKind, PlainOnly PROVE Spec => Relocates
<1>1. Init => WaitsAnswered /\ Biased /\ BaseAddrTrue /\ DumpOver
  BY DEF Init, NoTracee, WaitsAnswered, Biased, BaseAddrTrue, DumpOver
<1>2. TypeOK /\ WaitsAnswered /\ Biased /\ BaseAddrTrue /\ [Next]_vars
      => BaseAddrTrue'
  BY BaseNext
<1>3. DumpOver /\ [Next]_vars => DumpOver'
  BY DumpOverNext
<1>4. TypeOK /\ WaitsAnswered /\ Biased /\ BaseAddrTrue /\ DumpOver /\ [Next]_vars
      => [Relocated]_vars
  BY RelocatedNext
<1>5. QED
  BY <1>1, <1>2, <1>3, <1>4, TypeInit, TypeNext, WaitsNext, BiasedNext, PTL
  DEF Spec, Relocates
=============================================================================
