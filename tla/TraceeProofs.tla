---------------------------- MODULE TraceeProofs ----------------------------
(***************************************************************************)
(* What the requests of a tracer and the steps of the traced process keep, *)
(* for every program: the lemmas all proofs about tracers start from.      *)
(***************************************************************************)
EXTENDS Tracee, TLAPS

\* PTRACE_POKETEXT of a byte leaves a memory of bytes.
LEMMA PokeType ==
    ASSUME NEW m \in [Image -> Byte], NEW a, NEW b \in Byte
    PROVE  Poke(m, a, b) \in [Image -> Byte]
BY DEF Poke

\* PTRACE_PEEKTEXT answers a byte.
LEMMA PeekType ==
    ASSUME NEW a, mem \in [Image -> Byte]
    PROVE  Peek(a) \in Byte
BY DEF Peek, Byte

\* The file is a memory of bytes.
LEMMA OwnType == Own \in [Image -> Byte] /\ \A x \in Image : Own[x] = x
BY DEF Own, Byte

\* PTRACE_SETREGS.
LEMMA SetTripType ==
    ASSUME NEW r \in Int, TraceeTypeOK, SetTrip(r)
    PROVE  trip' \in Int /\ trapped' \in BOOLEAN
BY DEF SetTrip, TraceeTypeOK

-----------------------------------------------------------------------------
(* The steps of the process leave a well-formed process.                   *)

\* Every step of the program, a signal and a kill keep the tracee's types.
LEMMA RunsType ==
    ASSUME TraceeTypeOK, Runs \/ SignalStop \/ Killed
    PROVE  TraceeTypeOK'
<1>1. CASE Trap
  BY <1>1 DEF Trap, TraceeTypeOK, TraceeStatus
<1>2. CASE Execute
  <2>1. here \in Starts  BY <1>2 DEF Execute, Intact
  <2>2. trip' \in Int
    BY <1>2, <2>1, ProgramAssumption DEF Execute, TraceeTypeOK, Image
  <2>3. QED BY <1>2, <2>2 DEF Execute, StopIfSingle, TraceeTypeOK, TraceeStatus
<1>3. CASE Exit
  BY <1>3 DEF Exit, TraceeTypeOK, TraceeStatus
<1>4. CASE Misexecute
  <2>1. trip' \in Int
    BY <1>4, ProgramAssumption DEF Misexecute, TraceeTypeOK, Image
  <2>2. tracee' \in TraceeStatus
    BY <1>4 DEF Misexecute, StopIfSingle, TraceeStatus
  <2>3. QED BY <1>4, <2>1, <2>2 DEF Misexecute, TraceeTypeOK
<1>5. CASE SignalStop
  BY <1>5 DEF SignalStop, TraceeTypeOK, TraceeStatus
<1>6. CASE Killed
  BY <1>6 DEF Killed, TraceeTypeOK, TraceeStatus
<1>7. QED BY <1>1, <1>2, <1>3, <1>4, <1>5, <1>6 DEF Runs

\* A reaped process leaves the blank state.
LEMMA ReapType == Reap => TraceeTypeOK'
<1>1. SUFFICES ASSUME Reap PROVE TraceeTypeOK'
  OBVIOUS
<1>2. mem' \in [Image -> Byte]
  BY <1>1, OwnType DEF Reap
<1>3. bias' \in Int /\ trip' \in Int
  BY <1>1 DEF Reap
<1>4. tracee' \in TraceeStatus /\ single' \in BOOLEAN /\ trapped' \in BOOLEAN
  BY <1>1 DEF Reap, TraceeStatus
<1>5. QED BY <1>2, <1>3, <1>4 DEF TraceeTypeOK

\* exec leaves a stopped process with the bytes of the file.
LEMMA ExecType ==
    ASSUME NEW b \in Biases, NEW image \in [Image -> Byte],
           ExecSucceeds(b, image)
    PROVE  TraceeTypeOK'
<1>1. b \in Int /\ Entry \in Int
  BY ProgramAssumption DEF Image
<1>2. trip' \in Int /\ bias' \in Int
  BY <1>1 DEF ExecSucceeds
<1>3. mem' \in [Image -> Byte]
  BY DEF ExecSucceeds
<1>4. tracee' \in TraceeStatus /\ single' \in BOOLEAN /\ trapped' \in BOOLEAN
  BY DEF ExecSucceeds, TraceeStatus
<1>5. QED BY <1>2, <1>3, <1>4 DEF TraceeTypeOK
=============================================================================
