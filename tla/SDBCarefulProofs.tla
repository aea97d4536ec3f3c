--------------------------- MODULE SDBCarefulProofs ---------------------------
(***************************************************************************)
(* Proofs about the debugger in the hands of a careful user, for every     *)
(* program and every list length: the memory of the program stays that of  *)
(* the file but for the int3s of the list, and the program that runs under *)
(* the debugger is the program of the file.                                *)
(***************************************************************************)
EXTENDS SDBProofs

\* fork succeeds and nobody else kills the program: after either the code goes
\* on with an index or a process that is not there.
NoOutsideFaults == "fork" \notin Faults /\ "kill" \notin Faults

\* The user asks for break points inside the mapping only.
InMapping == BreakAddrs \subseteq Image

Final == {"done", "aborted"}

\* By how much the addresses of the list differ from those of the file.
Offset == IF current = "RUNNING" THEN bias ELSE 0

-----------------------------------------------------------------------------
(* The invariant.                                                          *)

\* Each entry of the list names a byte the user asked for, and holds it.
Home == pc \notin Final =>
    \A i \in Live : /\ slots[i].addr - Offset \in BreakAddrs
                    /\ slots[i].original_byte = slots[i].addr - Offset

\* Each int3 is in the list.
Explained == current = "RUNNING" /\ pc \notin Final =>
    \A x \in Image : mem[x] = CC => \E i \in Live : slots[i].addr = x + bias

\* Each entry is armed, but for the one being stepped over and those that were
\* not re-armed in time.
Armings == current = "RUNNING" /\ pc \notin Final =>
    \A i \in Live : \/ mem[slots[i].addr - bias] = CC
                    \/ slots[i].addr \in missed
                    \/ pc = "resumed" /\ bp_idx = i

\* A program that does not run has no int3.
Unbroken == current # "RUNNING" => mem = Own /\ bp_idx = -1

\* bp_idx is an index of the list, set while it is stepped over.
Standing ==
    /\ bp_idx \in Live \cup {-1}
    /\ pc = "resumed" => bp_idx # -1

\* The program is stopped while the user types, and gone at the end.
Stopped ==
    /\ pc = "prompt" /\ current = "RUNNING" => tracee = "stopped"
    /\ pc \in Final => tracee = "none"

CareInv == Home /\ TextIntegrity /\ Explained /\ Armings /\ Unbroken /\ Standing
           /\ Stopped

\* What the other proofs say of every user.
Known == TypeOK /\ WaitsAnswered /\ Biased /\ BaseAddrTrue /\ DumpOver /\ BpDistinct

-----------------------------------------------------------------------------
(* What the steps do to the list and to the memory.                        *)

LEMMA LiveSlot ==
    ASSUME TypeOK, NEW i \in Live
    PROVE  /\ i \in Slot /\ i # -1
           /\ slots[i].addr \in Int /\ slots[i].original_byte \in Byte
           /\ slots[i] \in BPs
<1>1. i \in Slot
  BY DebuggerAssumption DEF Live, Slot, TypeOK
<1>2. slots[i] \in BPs
  BY <1>1 DEF TypeOK
<1>3. QED BY <1>1, <1>2 DEF BPs, Slot

\* No byte of the file is taken for an int3, or for one that was not read.
LEMMA NotTraps == \A x \in Image : x \in Int /\ x # CC /\ x # BadByte
BY ProgramAssumption DEF Image, CC, BadByte

\* POKETEXT in a stopped program writes one byte.
LEMMA PokeOne ==
    ASSUME tracee = "stopped", mem \in [Image -> Byte], NEW a, a - bias \in Image, NEW b
    PROVE  /\ Poke(mem, a, b)[a - bias] = b
           /\ \A x \in Image \ {a - bias} : Poke(mem, a, b)[x] = mem[x]
BY DEF Poke

\* Where an entry was before entry i was erased.
From(i, k) == IF i <= k THEN k + 1 ELSE k

\* vector::erase keeps every other entry.
LEMMA ErasedFrom ==
    ASSUME TypeOK, NEW i \in Live, slots' = Erased(i), nbp' = nbp - 1
    PROVE  /\ \A k \in Live' : From(i, k) \in Live \ {i} /\ slots'[k] = slots[From(i, k)]
           /\ \A j \in Live \ {i} : \E k \in Live' : slots'[k] = slots[j]
<1>1. nbp \in Int /\ i \in Int /\ nbp >= 1 /\ nbp <= MaxBP /\ MaxBP \in Int
  BY DebuggerAssumption DEF TypeOK, Live
<1>2. ASSUME NEW k \in Live'
      PROVE  From(i, k) \in Live \ {i} /\ slots'[k] = slots[From(i, k)]
  <2>1. k \in Slot /\ k \in 0..(nbp - 2) /\ k \in Int
    BY <1>1 DEF Live, Slot
  <2>2. From(i, k) \in Live \ {i}
    BY <1>1, <2>1 DEF Live, From
  <2>3. k < nbp - 1
    BY <1>1, <2>1
  <2>4. QED BY <2>1, <2>2, <2>3 DEF Erased, From
<1>3. ASSUME NEW j \in Live \ {i}
      PROVE  \E k \in Live' : slots'[k] = slots[j]
  <2> DEFINE k == IF i < j THEN j - 1 ELSE j
  <2>1. k \in Live' /\ From(i, k) = j
    BY <1>1 DEF Live, From
  <2>2. QED BY <1>2, <2>1
<1>4. QED BY <1>2, <1>3

\* check_if_bp finds an entry of the list or none.
LEMMA HitLive ==
    ASSUME NEW s, NEW r, CheckIfBp(s, r)
    PROVE  bp_idx' \in Live \cup {-1}
BY DEF CheckIfBp, HitAt

\* A step that leaves list and memory alone.
LEMMA Framed ==
    ASSUME CareInv, UNCHANGED <<slots, nbp, mem, bias, missed>>,
           current' = "RUNNING" <=> current = "RUNNING",
           bp_idx' \in Live \cup {-1},
           current # "RUNNING" => bp_idx' = -1,
           pc = "resumed" => pc' = "resumed" /\ bp_idx' = bp_idx,
           pc' = "resumed" => bp_idx' # -1,
           pc \in Final => pc' \in Final,
           Stopped'
    PROVE  CareInv'
<1>1. Live' = Live /\ Offset' = Offset
  BY DEF Live, Offset
<1>2. Home'
  BY <1>1 DEF CareInv, Home
<1>3. TextIntegrity'
  BY DEF CareInv, TextIntegrity
<1>4. Explained'
  BY <1>1 DEF CareInv, Explained
<1>5. Armings'
  BY <1>1 DEF CareInv, Armings
<1>6. Unbroken' /\ Standing'
  BY <1>1 DEF CareInv, Unbroken, Standing
<1>7. QED BY <1>2, <1>3, <1>4, <1>5, <1>6 DEF CareInv

-----------------------------------------------------------------------------
(* The steps that change them.                                             *)

\* break on a program that does not run.
LEMMA CareBreakLoaded ==
    ASSUME Known, CareInv, NEW a \in BreakAddrs, BreakLoaded(a)
    PROVE  CareInv'
<1> DEFINE b == [addr |-> a, original_byte |-> FileByte(a)]
<1>1. b.addr = a /\ b.original_byte = a
  <2>1. a \in Image
    BY DebuggerAssumption DEF BreakLoaded
  <2>2. FileByte(a) = a
    BY <2>1, OwnType DEF FileByte
  <2>3. QED BY <2>2
<1>2. slots' = [slots EXCEPT ![nbp] = b] /\ nbp' = nbp + 1 /\ nbp < MaxBP
  BY DEF BreakLoaded
<1>3. UNCHANGED <<mem, bias, missed, current, bp_idx, pc, tracee>>
  BY DEF BreakLoaded, traceeVars
<1>4. current = "LOADED" /\ pc = "prompt" /\ a \in Int
  BY DebuggerAssumption DEF BreakLoaded
<1> HIDE DEF b
<1>5. /\ Live' = Live \cup {nbp} /\ slots'[nbp] = b
      /\ \A i \in Live : slots'[i] = slots[i] /\ i # nbp
  <2>1. nbp \in Slot /\ Live \subseteq Slot /\ Live' = Live \cup {nbp} /\ nbp \notin Live
    BY <1>2, DebuggerAssumption DEF Known, TypeOK, Live, Slot
  <2>2. QED BY <1>2, <2>1 DEF Known, TypeOK
<1>6. Home'
  BY <1>1, <1>3, <1>4, <1>5 DEF CareInv, Home, Offset, Final
<1>7. TextIntegrity'
  BY <1>3 DEF CareInv, TextIntegrity
<1>8. Explained' /\ Armings'
  BY <1>3, <1>4 DEF Explained, Armings
<1>9. Unbroken' /\ Standing' /\ Stopped'
  BY <1>3, <1>4, <1>5 DEF CareInv, Unbroken, Standing, Stopped
<1>10. QED BY <1>6, <1>7, <1>8, <1>9 DEF CareInv

\* break on a running program: the byte it reads is the program's own, since an
\* int3 would be in the list.
LEMMA CareBreakRunning ==
    ASSUME InMapping, Known, CareInv, NEW a \in BreakAddrs, BreakRunning(a)
    PROVE  CareInv'
<1> DEFINE addr == a + bias
           b == [addr |-> addr, original_byte |-> Peek(addr)]
<1>1. a \in Image /\ a \in Int /\ bias \in Int /\ mem \in [Image -> Byte]
  BY NotTraps DEF InMapping, Known, TypeOK, TraceeTypeOK
<1>2. current = "RUNNING" /\ pc = "prompt" /\ tracee = "stopped" /\ Offset = bias
  BY DEF BreakRunning, CareInv, Stopped, Offset
<1>3. addr \in Int /\ addr - bias = a
  BY <1>1
<1>4. \A i \in Live : slots[i].addr # addr
  BY DEF BreakRunning, NotListed
<1>5. mem[a] = a
  <2>1. mem[a] # CC
    BY <1>1, <1>2, <1>4 DEF CareInv, Explained, Final
  <2>2. QED BY <1>1, <2>1 DEF CareInv, TextIntegrity
<1>6. Peek(addr) = a
  BY <1>1, <1>2, <1>3, <1>5 DEF Peek
<1>7. b.addr = addr /\ b.original_byte = a
  BY <1>6
<1>8. /\ slots' = [slots EXCEPT ![nbp] = b] /\ nbp' = nbp + 1 /\ nbp < MaxBP
      /\ mem' = Poke(mem, addr, CC) /\ missed' = missed \ {addr}
  BY DEF BreakRunning
<1>9. UNCHANGED <<bias, current, bp_idx, pc, tracee>>
  BY DEF BreakRunning
<1> HIDE DEF b, addr
<1>10. /\ Live' = Live \cup {nbp} /\ slots'[nbp] = b
       /\ \A i \in Live : slots'[i] = slots[i] /\ i # nbp
  <2>1. nbp \in Slot /\ Live \subseteq Slot /\ Live' = Live \cup {nbp} /\ nbp \notin Live
    BY <1>8, DebuggerAssumption DEF Known, TypeOK, Live, Slot
  <2>2. QED BY <1>8, <2>1 DEF Known, TypeOK
<1>11. mem'[a] = CC /\ \A x \in Image \ {a} : mem'[x] = mem[x]
  <2>1. /\ Poke(mem, addr, CC)[addr - bias] = CC
        /\ \A x \in Image \ {addr - bias} : Poke(mem, addr, CC)[x] = mem[x]
    BY <1>1, <1>2, <1>3, PokeOne
  <2>2. QED BY <1>3, <1>8, <2>1
<1>12. Home'
  BY <1>2, <1>3, <1>7, <1>9, <1>10 DEF CareInv, Home, Offset, Final
<1>13. TextIntegrity'
  BY <1>11 DEF CareInv, TextIntegrity
<1>14. Explained'
  <2>1. ASSUME NEW x \in Image, mem'[x] = CC
        PROVE  \E i \in Live' : slots'[i].addr = x + bias
    <3>1. CASE x = a
      <4>1. slots'[nbp].addr = x + bias /\ nbp \in Live'
        BY <1>7, <1>10, <3>1 DEF addr
      <4>2. QED BY <4>1
    <3>2. CASE x # a
      <4>1. PICK i \in Live : slots[i].addr = x + bias
        BY <1>2, <1>11, <2>1, <3>2 DEF CareInv, Explained, Final
      <4>2. QED BY <1>10, <4>1
    <3>3. QED BY <3>1, <3>2
  <2>2. QED BY <1>9, <2>1 DEF Explained
<1>15. Armings'
  <2>1. ASSUME NEW i \in Live
        PROVE  mem'[slots'[i].addr - bias] = CC \/ slots'[i].addr \in missed'
    <3>1. slots'[i] = slots[i] /\ slots[i].addr # addr
      BY <1>4, <1>10
    <3>2. slots[i].addr \in Int /\ slots[i].addr - bias \in Image
      BY <1>2, LiveSlot DEF Known, CareInv, Home, Final, InMapping
    <3>3. slots[i].addr - bias # a
      BY <1>1, <1>3, <3>1, <3>2
    <3>4. mem[slots[i].addr - bias] = CC \/ slots[i].addr \in missed
      BY <1>2 DEF CareInv, Armings, Final
    <3>5. QED BY <1>8, <1>11, <3>1, <3>2, <3>3, <3>4
  <2>2. mem'[slots'[nbp].addr - bias] = CC
    BY <1>3, <1>7, <1>10, <1>11
  <2>3. QED BY <1>9, <1>10, <2>1, <2>2 DEF Armings
<1>16. Unbroken' /\ Standing' /\ Stopped'
  BY <1>2, <1>9, <1>10 DEF CareInv, Unbroken, Standing, Stopped
<1>17. QED BY <1>12, <1>13, <1>14, <1>15, <1>16 DEF CareInv

\* Putting the original byte back at one entry: every other entry keeps its
\* int3, and every int3 left belongs to another entry.
LEMMA LiftOne ==
    ASSUME InMapping, Known, CareInv, current = "RUNNING", pc \notin Final,
           tracee = "stopped", NEW i \in Live,
           mem' = Poke(mem, slots[i].addr, slots[i].original_byte)
    PROVE  /\ TextIntegrity'
           /\ \A x \in Image : mem'[x] = CC =>
                 \E j \in Live \ {i} : slots[j].addr = x + bias
           /\ \A j \in Live \ {i} : mem'[slots[j].addr - bias] = mem[slots[j].addr - bias]
<1> DEFINE at == slots[i].addr - bias
<1>1. /\ bias \in Int /\ mem \in [Image -> Byte] /\ Offset = bias
      /\ \A j \in Live : slots[j].addr \in Int /\ slots[j].addr - bias \in Image
  BY LiveSlot DEF Known, TypeOK, TraceeTypeOK, Offset, CareInv, Home, InMapping
<1>2. at \in Image /\ slots[i].original_byte = at
  BY <1>1 DEF CareInv, Home
<1>3. mem'[at] = at /\ \A x \in Image \ {at} : mem'[x] = mem[x]
  BY <1>1, <1>2, PokeOne
<1>4. TextIntegrity'
  BY <1>2, <1>3 DEF CareInv, TextIntegrity
<1>5. ASSUME NEW x \in Image, mem'[x] = CC
      PROVE  \E j \in Live \ {i} : slots[j].addr = x + bias
  <2>1. x # at /\ mem[x] = CC
    BY <1>2, <1>3, <1>5, NotTraps
  <2>2. PICK j \in Live : slots[j].addr = x + bias
    BY <2>1 DEF CareInv, Explained
  <2>3. j # i
    BY <1>1, <2>1, <2>2, NotTraps
  <2>4. QED BY <2>2, <2>3
<1>6. ASSUME NEW j \in Live \ {i}
      PROVE  mem'[slots[j].addr - bias] = mem[slots[j].addr - bias]
  <2>1. slots[j].addr # slots[i].addr
    BY DEF Known, BpDistinct
  <2>2. slots[j].addr - bias # at /\ slots[j].addr - bias \in Image
    BY <1>1, <2>1
  <2>3. QED BY <1>3, <2>2
<1>7. QED BY <1>4, <1>5, <1>6

\* delete.  Only the entry the program stands at, or no current entry.
LEMMA CareDelete ==
    ASSUME InMapping, Known, CareInv, NEW i \in Slot, Delete(i), bp_idx \in {-1, i}
    PROVE  CareInv'
<1>1. /\ pc = "prompt" /\ slots' = Erased(i) /\ nbp' = nbp - 1 /\ i < nbp
      /\ UNCHANGED <<current, bias, tracee, pc, missed>>
  BY DEF Delete, IsIndex
<1>2. i \in Live /\ nbp' < nbp /\ nbp \in Int
  BY <1>1, DebuggerAssumption DEF Live, Slot, Known, TypeOK
<1>3. bp_idx' = -1
  BY DEF Delete, Leave, CareInv, Unbroken
<1>4. /\ \A k \in Live' : From(i, k) \in Live \ {i} /\ slots'[k] = slots[From(i, k)]
      /\ \A j \in Live \ {i} : \E k \in Live' : slots'[k] = slots[j]
  BY <1>1, <1>2, ErasedFrom DEF Known
<1>5. Home'
  BY <1>1, <1>4 DEF CareInv, Home, Offset, Final
<1>6. Standing' /\ Stopped'
  BY <1>1, <1>3 DEF CareInv, Standing, Stopped
<1>7. CASE current = "RUNNING"
  <2>1. mem' = Poke(mem, slots[i].addr, slots[i].original_byte) /\ tracee = "stopped"
    BY <1>1, <1>7 DEF Delete, Disarmed, CareInv, Stopped
  <2>2. /\ TextIntegrity'
        /\ \A x \in Image : mem'[x] = CC =>
              \E j \in Live \ {i} : slots[j].addr = x + bias
        /\ \A j \in Live \ {i} :
              mem'[slots[j].addr - bias] = mem[slots[j].addr - bias]
    BY <1>1, <1>2, <1>7, <2>1, LiftOne DEF Final
  <2>3. Explained'
    <3>1. ASSUME NEW x \in Image, mem'[x] = CC
          PROVE  \E k \in Live' : slots'[k].addr = x + bias
      <4>1. PICK j \in Live \ {i} : slots[j].addr = x + bias
        BY <2>2, <3>1
      <4>2. QED BY <1>4, <4>1
    <3>2. QED BY <1>1, <3>1 DEF Explained
  <2>4. Armings'
    <3>1. ASSUME NEW k \in Live'
          PROVE  mem'[slots'[k].addr - bias] = CC \/ slots'[k].addr \in missed
      <4>1. From(i, k) \in Live \ {i} /\ slots'[k] = slots[From(i, k)]
        BY <1>4
      <4>2. \/ mem[slots[From(i, k)].addr - bias] = CC
            \/ slots[From(i, k)].addr \in missed
        BY <1>1, <1>7, <4>1 DEF CareInv, Armings, Final
      <4>3. QED BY <2>2, <4>1, <4>2
    <3>2. QED BY <1>1, <3>1 DEF Armings
  <2>5. Unbroken'
    BY <1>1, <1>7 DEF Unbroken
  <2>6. QED BY <1>5, <1>6, <2>2, <2>3, <2>4, <2>5 DEF CareInv
<1>8. CASE current # "RUNNING"
  <2>1. mem' = mem
    BY <1>8 DEF Delete, Disarmed
  <2>2. TextIntegrity' /\ Unbroken'
    BY <1>1, <1>3, <1>8, <2>1 DEF CareInv, TextIntegrity, Unbroken
  <2>3. QED BY <1>1, <1>5, <1>6, <1>8, <2>2 DEF CareInv, Explained, Armings
<1>9. QED BY <1>7, <1>8

\* cont and si.
LEMMA CareContinue ==
    ASSUME InMapping, Known, CareInv, NEW step \in BOOLEAN, Continue(step)
    PROVE  CareInv'
<1>1. /\ pc = "prompt" /\ current = "RUNNING" /\ tracee = "stopped"
      /\ UNCHANGED <<bias, current, slots, nbp, bp_idx, missed>>
  BY DEF Continue, CareInv, Stopped
<1>2. CASE bp_idx = -1
  <2>1. mem' = mem /\ pc' = "waiting"
    BY <1>2 DEF Continue, Resume, Lifted
  <2>2. QED BY <1>1, <1>2, <2>1, Framed DEF Stopped, Final
<1>3. CASE bp_idx # -1
  <2>1. /\ bp_idx \in Live /\ pc' = "resumed"
        /\ mem' = Poke(mem, slots[bp_idx].addr, slots[bp_idx].original_byte)
    BY <1>3 DEF CareInv, Standing, Continue, Resume, Lifted
  <2>2. /\ TextIntegrity'
        /\ \A x \in Image : mem'[x] = CC =>
              \E j \in Live \ {bp_idx} : slots[j].addr = x + bias
        /\ \A j \in Live \ {bp_idx} :
              mem'[slots[j].addr - bias] = mem[slots[j].addr - bias]
    BY <1>1, <2>1, LiftOne DEF Final
  <2>3. Live' = Live /\ Offset' = Offset
    BY <1>1 DEF Live, Offset
  <2>4. Home'
    BY <1>1, <2>3 DEF CareInv, Home, Final
  <2>5. Explained'
    BY <1>1, <2>2, <2>3 DEF Explained
  <2>6. Armings'
    <3>1. ASSUME NEW j \in Live, j # bp_idx
          PROVE  mem'[slots[j].addr - bias] = CC \/ slots[j].addr \in missed
      <4>1. mem[slots[j].addr - bias] = CC \/ slots[j].addr \in missed
        BY <1>1 DEF CareInv, Armings, Final
      <4>2. QED BY <2>2, <3>1, <4>1
    <3>2. QED BY <1>1, <2>1, <2>3, <3>1 DEF Armings
  <2>7. Unbroken' /\ Standing' /\ Stopped'
    BY <1>1, <1>3, <2>1, <2>3 DEF Unbroken, Standing, Stopped, Final
  <2>8. QED BY <2>2, <2>4, <2>5, <2>6, <2>7 DEF CareInv
<1>4. QED BY <1>2, <1>3

\* The int3 goes back, or the entry is missed.
LEMMA CareRearm ==
    ASSUME InMapping, Known, CareInv, Rearm
    PROVE  CareInv'
<1> DEFINE at == slots[bp_idx].addr - bias
<1>1. /\ pc = "resumed" /\ pc' = "waiting" /\ bp_idx \in Live
      /\ mem' = Poke(mem, slots[bp_idx].addr, CC)
      /\ UNCHANGED <<tracee, bias, current, slots, nbp, bp_idx>>
  BY DEF Rearm, CareInv, Standing
<1>2. current = "RUNNING"
  BY <1>1 DEF Known, WaitsAnswered
<1>3. /\ bias \in Int /\ mem \in [Image -> Byte] /\ Offset = bias
      /\ \A j \in Live : slots[j].addr \in Int /\ slots[j].addr - bias \in Image
  BY <1>1, <1>2, LiveSlot
  DEF Known, TypeOK, TraceeTypeOK, Offset, CareInv, Home, InMapping, Final
<1>4. at \in Image /\ at + bias = slots[bp_idx].addr
  BY <1>1, <1>3
<1>5. Live' = Live /\ Offset' = Offset
  BY <1>1 DEF Live, Offset
<1>6. \A x \in Image \ {at} : mem'[x] = mem[x]
  BY <1>1, <1>3, <1>4 DEF Poke
<1>7. mem'[at] \in {mem[at], CC}
  BY <1>1, <1>3, <1>4 DEF Poke
<1>8. mem'[at] = CC \/ slots[bp_idx].addr \in missed'
  BY <1>1, <1>3, <1>4 DEF Rearm, Poke
<1>9. \A j \in Live \ {bp_idx} : slots[j].addr # slots[bp_idx].addr
  BY <1>1 DEF Known, BpDistinct
<1>10. TextIntegrity'
  BY <1>6, <1>7 DEF CareInv, TextIntegrity
<1>11. Explained'
  <2>1. ASSUME NEW x \in Image, mem'[x] = CC
        PROVE  \E j \in Live : slots[j].addr = x + bias
    <3>1. CASE x = at  BY <1>1, <1>4, <3>1
    <3>2. CASE x # at  BY <1>1, <1>2, <1>6, <2>1, <3>2 DEF CareInv, Explained, Final
    <3>3. QED BY <3>1, <3>2
  <2>2. QED BY <1>1, <1>5, <2>1 DEF Explained
<1>12. Armings'
  <2>1. ASSUME NEW j \in Live, j # bp_idx
        PROVE  mem'[slots[j].addr - bias] = CC \/ slots[j].addr \in missed'
    <3>1. slots[j].addr - bias # at /\ slots[j].addr - bias \in Image
      BY <1>1, <1>3, <1>9, <2>1
    <3>2. mem[slots[j].addr - bias] = CC \/ slots[j].addr \in missed
      BY <1>1, <1>2, <2>1 DEF CareInv, Armings, Final
    <3>3. slots[j].addr \in missed => slots[j].addr \in missed'
      BY <1>9, <2>1 DEF Rearm
    <3>4. QED BY <1>6, <3>1, <3>2, <3>3
  <2>2. QED BY <1>1, <1>5, <1>8, <2>1 DEF Armings
<1>13. Home'
  BY <1>1, <1>5 DEF CareInv, Home, Final
<1>14. Unbroken' /\ Standing' /\ Stopped'
  BY <1>1, <1>2, <1>5 DEF CareInv, Unbroken, Standing, Stopped, Final
<1>15. QED BY <1>10, <1>11, <1>12, <1>13, <1>14 DEF CareInv

\* The end of the program.
LEMMA CareWaitEnd ==
    ASSUME InMapping, NoOutsideFaults, Known, CareInv, WaitEnd
    PROVE  CareInv'
<1>1. current = "RUNNING" /\ pc = "waiting" /\ base_addr = bias /\ Offset = bias
  BY DEF WaitEnd, Known, WaitsAnswered, BaseAddrTrue, DumpOver, Offset, NoOutsideFaults
<1>2. /\ slots' = Shifted(-bias) /\ nbp' = nbp /\ current' = "LOADED"
      /\ bp_idx' = -1 /\ mem' = Own /\ pc' = "prompt"
  BY <1>1 DEF WaitEnd, ProgramTerminated, Reap
<1>3. Live' = Live /\ Offset' = 0
  BY <1>2 DEF Live, Offset
<1>4. bias \in Int /\ -bias \in Int
  BY DEF Known, TypeOK, TraceeTypeOK
<1>5. ASSUME NEW i \in Live
      PROVE  /\ slots'[i].addr = slots[i].addr - bias
             /\ slots'[i].original_byte = slots[i].original_byte
             /\ slots[i].addr - bias \in Int
  <2>1. i \in Slot /\ slots[i] \in BPs /\ slots[i].addr \in Int
    BY LiveSlot DEF Known
  <2>2. slots'[i] = [slots[i] EXCEPT !.addr = @ + (-bias)]
    BY <1>2, <2>1 DEF Shifted
  <2>3. QED BY <1>4, <2>1, <2>2 DEF BPs
<1>6. Home'
  <2>1. ASSUME NEW i \in Live
        PROVE  slots'[i].addr - 0 \in BreakAddrs /\ slots'[i].original_byte = slots'[i].addr - 0
    <3>1. slots[i].addr - bias \in BreakAddrs /\ slots[i].original_byte = slots[i].addr - bias
      BY <1>1 DEF CareInv, Home, Final
    <3>2. QED BY <1>5, <3>1
  <2>2. QED BY <1>3, <2>1 DEF Home
<1>7. TextIntegrity'
  BY <1>2, OwnType DEF TextIntegrity
<1>8. Explained' /\ Armings' /\ Unbroken' /\ Standing' /\ Stopped'
  BY <1>2 DEF Explained, Armings, Unbroken, Standing, Stopped, Final
<1>9. QED BY <1>6, <1>7, <1>8 DEF CareInv

\* The launch: every entry is armed, and nothing is lifted when run goes on.
LEMMA CareExecStop ==
    ASSUME InMapping, AnyKind, Known, CareInv, ExecStop
    PROVE  CareInv'
<1>1. /\ current = "LOADED" /\ pc \in {"exec_start", "exec_run"} /\ tracee = "stopped"
      /\ mem = Own /\ bp_idx = -1 /\ Offset = 0
  BY DEF ExecStop, Known, WaitsAnswered, CareInv, Unbroken, Offset
<1>2. bias \in Int /\ ExecBase = bias
  BY <1>1, ExecBaseTrue DEF Known, Biased, DumpOver, TypeOK, TraceeTypeOK
<1>3. /\ slots' = Shifted(bias) /\ nbp' = nbp /\ current' = "RUNNING" /\ bias' = bias
  BY <1>2 DEF ExecStop
<1>4. mem' = Armed(slots')
  BY <1>1 DEF ExecStop, Resume, Lifted
<1>5. Live' = Live /\ Offset' = bias
  BY <1>3 DEF Live, Offset
<1>6. /\ bp_idx' \in Live \cup {-1}
      /\ pc' \in {"prompt", "waiting"}
      /\ pc' = "prompt" => tracee' = "stopped"
  BY <1>1, HitLive DEF ExecStop, Resume
<1>7. ASSUME NEW i \in Live
      PROVE  /\ slots'[i].addr = slots[i].addr + bias
             /\ slots'[i].original_byte = slots[i].original_byte
             /\ slots[i].addr \in BreakAddrs /\ slots[i].addr \in Image
             /\ slots[i].original_byte = slots[i].addr
  <2>1. i \in Slot /\ slots[i] \in BPs /\ slots[i].addr \in Int
    BY LiveSlot DEF Known
  <2>2. slots'[i] = [slots[i] EXCEPT !.addr = @ + bias]
    BY <1>3, <2>1 DEF Shifted
  <2>3. slots[i].addr - 0 \in BreakAddrs /\ slots[i].original_byte = slots[i].addr - 0
    BY <1>1 DEF CareInv, Home, Final
  <2>4. QED BY <2>1, <2>2, <2>3 DEF BPs, InMapping
<1>8. \A x \in Image : mem'[x] = IF \E i \in Live : slots'[i].addr = x + bias
                                 THEN CC ELSE x
  BY <1>1, <1>4 DEF Armed, Own
<1>9. Home'
  <2>1. ASSUME NEW i \in Live
        PROVE  slots'[i].addr - bias \in BreakAddrs
               /\ slots'[i].original_byte = slots'[i].addr - bias
    <3>1. slots'[i].addr - bias = slots[i].addr
      BY <1>2, <1>7, NotTraps
    <3>2. QED BY <1>7, <3>1
  <2>2. QED BY <1>5, <2>1 DEF Home
<1>10. TextIntegrity'
  BY <1>8 DEF TextIntegrity
<1>11. Explained'
  BY <1>3, <1>5, <1>8, NotTraps DEF Explained
<1>12. Armings'
  <2>1. ASSUME NEW i \in Live
        PROVE  mem'[slots'[i].addr - bias] = CC
    <3>1. slots'[i].addr - bias = slots[i].addr
      BY <1>2, <1>7, NotTraps
    <3>2. mem'[slots[i].addr] = CC
      BY <1>7, <1>8
    <3>3. QED BY <3>1, <3>2
  <2>2. QED BY <1>3, <1>5, <2>1 DEF Armings
<1>13. Unbroken' /\ Standing' /\ Stopped'
  BY <1>3, <1>5, <1>6 DEF Unbroken, Standing, Stopped, Final
<1>14. QED BY <1>9, <1>10, <1>11, <1>12, <1>13 DEF CareInv

\* exit, and the assertion of exec_impl: the program is gone.
LEMMA CareFinal ==
    ASSUME CareInv, Quit \/ ExecAbort
    PROVE  CareInv'
<1>1. /\ pc' \in Final /\ tracee' = "none" /\ mem' = Own
      /\ UNCHANGED <<current, bp_idx, nbp>>
  BY DEF Quit, ExecAbort, Reap, Final
<1>2. Home' /\ Explained' /\ Armings'
  BY <1>1 DEF Home, Explained, Armings
<1>3. TextIntegrity'
  BY <1>1, OwnType DEF TextIntegrity
<1>4. Unbroken' /\ Standing' /\ Stopped'
  BY <1>1 DEF CareInv, Unbroken, Standing, Stopped, Final, Live
<1>5. QED BY <1>2, <1>3, <1>4 DEF CareInv

\* exec in the child.
LEMMA CareChildExec ==
    ASSUME Known, CareInv, ChildExec
    PROVE  CareInv'
<1>1. tracee = "forked" /\ mem' = Own /\ UNCHANGED sdbVars
  BY DEF ChildExec, ExecSucceeds
<1>2. UNCHANGED <<pc, current, slots, nbp, bp_idx, missed>>
  BY <1>1 DEF sdbVars
<1>3. current # "RUNNING" /\ pc \notin Final
  BY <1>1 DEF CareInv, Stopped, Known, WaitsAnswered, TypeOK, Phase, Final
<1>4. Live' = Live /\ Offset' = Offset
  BY <1>2, <1>3 DEF Live, Offset
<1>5. Home' /\ Explained' /\ Armings'
  BY <1>2, <1>3, <1>4 DEF CareInv, Home, Explained, Armings
<1>6. TextIntegrity'
  BY <1>1, OwnType DEF TextIntegrity
<1>7. Unbroken' /\ Standing' /\ Stopped'
  BY <1>1, <1>2, <1>3, <1>4 DEF CareInv, Unbroken, Standing, Stopped
<1>8. QED BY <1>5, <1>6, <1>7 DEF CareInv

\* Every step of a careful user's session keeps the invariant.
LEMMA CareNext ==
    ASSUME InMapping, AnyKind, NoOutsideFaults, Known, CareInv, [CarefulNext]_vars
    PROVE  CareInv'
<1>0. /\ bp_idx \in Live \cup {-1}
      /\ pc = "resumed" => bp_idx # -1
      /\ pc = "prompt" /\ current = "RUNNING" => tracee = "stopped"
      /\ pc \in Final => tracee = "none"
      /\ current # "RUNNING" => bp_idx = -1
  BY DEF CareInv, Standing, Stopped, Unbroken
<1>1. CASE UNCHANGED vars
  BY <1>0, <1>1, Framed DEF vars, traceeVars, sdbVars, Stopped
<1>2. ASSUME NEW k \in Paths, Load(k) PROVE CareInv'
  <2>1. UNCHANGED <<slots, nbp, mem, bias, missed, pc, bp_idx, tracee>>
    BY <1>2 DEF Load, traceeVars
  <2>2. current = "BEGIN" /\ current' = "LOADED" /\ pc = "prompt"
    BY <1>2 DEF Load
  <2>3. QED BY <1>0, <2>1, <2>2, Framed DEF Stopped, Final
<1>3. ASSUME NEW a \in BreakAddrs, BreakLoaded(a) PROVE CareInv'
  BY <1>3, CareBreakLoaded
<1>4. ASSUME NEW a \in BreakAddrs, BreakRunning(a) PROVE CareInv'
  BY <1>4, CareBreakRunning
<1>5. ASSUME NEW i \in Slot, bp_idx \in {-1, i}, Delete(i) PROVE CareInv'
  BY <1>5, CareDelete
<1>6. CASE SetReg
  BY <1>0, <1>6, Framed DEF SetReg, sdbVars, Stopped, Final
<1>7. ASSUME NEW a \in RipTargets, SetRip(a) PROVE CareInv'
  <2>1. /\ pc = "prompt" /\ current = "RUNNING"
        /\ UNCHANGED <<slots, nbp, mem, bias, missed, pc, current, tracee>>
    BY <1>7 DEF SetRip
  <2>2. bp_idx' \in Live \cup {-1}
    BY <1>7, HitLive DEF SetRip
  <2>3. QED BY <1>0, <2>1, <2>2, Framed DEF Stopped, Final
<1>8. CASE Disasm \/ Dump
  <2>1. UNCHANGED <<slots, nbp, mem, bias, missed, pc, bp_idx, tracee, current>>
    BY <1>8 DEF Disasm, DisasmFrom, Dump, DumpFrom, traceeVars
  <2>2. QED BY <1>0, <2>1, Framed DEF Stopped
<1>9. CASE Cont \/ Si
  BY <1>9, CareContinue DEF Cont, Si
<1>10. CASE StartAgain
  <2>1. /\ pc = "prompt" /\ current = "RUNNING"
        /\ UNCHANGED <<slots, nbp, mem, bias, missed, pc, current, tracee>>
    BY <1>10 DEF StartAgain, traceeVars
  <2>2. bp_idx' \in Live \cup {-1}
    BY <1>10, HitLive DEF StartAgain
  <2>3. QED BY <1>0, <2>1, <2>2, Framed DEF Stopped, Final
<1>11. CASE Start \/ Run
  <2>1. /\ pc = "prompt" /\ pc' \in {"exec_start", "exec_run"}
        /\ UNCHANGED <<slots, nbp, mem, bias, missed, bp_idx, current>>
    BY <1>11 DEF Start, Run, Launch, Fork
  <2>2. QED BY <1>0, <2>1, Framed DEF Stopped, Final
<1>12. /\ ~StartForkFails /\ ~RunForkFails /\ ~WaitNobody
       /\ ~ExecKilled /\ ~ProgramKilled
  BY DEF NoOutsideFaults, StartForkFails, RunForkFails, WaitNobody, ExecKilled,
         ProgramKilled, Killed, Known, WaitsAnswered
<1>13. CASE Quit \/ ExecAbort
  BY <1>13, CareFinal
<1>14. CASE ExecStop
  BY <1>14, CareExecStop
<1>15. CASE Rearm
  BY <1>15, CareRearm
<1>16. CASE WaitStop
  <2>1. /\ pc = "waiting" /\ pc' = "prompt" /\ tracee = "stopped"
        /\ UNCHANGED <<slots, nbp, mem, bias, missed, current, tracee>>
    BY <1>16 DEF WaitStop, traceeVars
  <2>2. bp_idx' \in Live \cup {-1} /\ current = "RUNNING"
    BY <1>16, <2>1, HitLive DEF WaitStop, Known, WaitsAnswered
  <2>3. QED BY <1>0, <2>1, <2>2, Framed DEF Stopped, Final
<1>17. CASE WaitEnd
  BY <1>17, CareWaitEnd
<1>18. CASE ChildExec
  BY <1>18, CareChildExec
<1>19. CASE ChildExecFails \/ ChildQuits \/ ProgramRuns \/ ProgramSignal
  <2>1. UNCHANGED sdbVars /\ UNCHANGED <<mem, bias>>
        /\ tracee \in {"forked", "repl", "running"}
    BY <1>19 DEF ChildExecFails, ChildQuits, ProgramRuns, Runs, Trap, Execute, Exit,
                 Misexecute, ProgramSignal, SignalStop
  <2>2. UNCHANGED <<slots, nbp, missed, pc, bp_idx, current>>
    BY <2>1 DEF sdbVars
  <2>3. Stopped'
    BY <1>0, <2>1, <2>2 DEF Stopped
  <2>4. QED BY <1>0, <2>1, <2>2, <2>3, Framed
<1>20. QED
  BY <1>1, <1>2, <1>3, <1>4, <1>5, <1>6, <1>7, <1>8, <1>9, <1>10, <1>11, <1>12,
     <1>13, <1>14, <1>15, <1>16, <1>17, <1>18, <1>19
  DEF CarefulNext, CarefulUser, Registers, Looking, Launching, Debugger, Process, Halted

\* It holds at the beginning.
LEMMA CareInit == Init => CareInv
<1> SUFFICES ASSUME Init PROVE CareInv
  OBVIOUS
<1>1. Live = {}
  BY DEF Init, Live
<1>2. Home /\ Explained /\ Armings
  BY <1>1 DEF Init, Home, Explained, Armings
<1>3. TextIntegrity /\ Unbroken
  BY OwnType DEF Init, NoTracee, TextIntegrity, Unbroken
<1>4. Standing /\ Stopped
  BY DEF Init, Standing, Stopped, Final
<1>5. QED BY <1>2, <1>3, <1>4 DEF CareInv

-----------------------------------------------------------------------------
(* The theorems.                                                           *)

\* All invariants together, for a careful user.
LEMMA CareAlways ==
    ASSUME InMapping, AnyKind, PlainOnly, NoOutsideFaults
    PROVE  CarefulSpec => [](Known /\ CareInv)
<1>1. Init => Known /\ CareInv
  <2>1. Init => WaitsAnswered /\ Biased /\ BaseAddrTrue /\ DumpOver /\ BpDistinct
    BY DEF Init, NoTracee, WaitsAnswered, Biased, BaseAddrTrue, DumpOver,
           BpDistinct, Live
  <2>2. QED BY <2>1, TypeInit, CareInit DEF Known
<1>2. Known /\ CareInv /\ [CarefulNext]_vars => (Known /\ CareInv)'
  <2> SUFFICES ASSUME Known, CareInv, [CarefulNext]_vars PROVE Known' /\ CareInv'
    OBVIOUS
  <2>1. [Next]_vars
    BY DEF CarefulNext, CarefulUser, Next, User, Breaking
  <2>2. TypeOK' /\ WaitsAnswered' /\ Biased' /\ BpDistinct' /\ DumpOver'
    BY <2>1, TypeNext, WaitsNext, BiasedNext, DistinctNext, DumpOverNext DEF Known
  <2>3. BaseAddrTrue'
    BY <2>1, BaseNext DEF Known
  <2>4. QED BY <2>2, <2>3, CareNext DEF Known
<1>3. QED BY <1>1, <1>2, PTL DEF CarefulSpec

\* No sequence of break, delete, set, cont, si, launches and signals leaves a
\* byte in the program that is neither its own nor an int3.
THEOREM TextStaysWhole ==
    ASSUME InMapping, AnyKind, PlainOnly, NoOutsideFaults
    PROVE  CarefulSpec => []TextIntegrity
<1>1. Known /\ CareInv => TextIntegrity
  BY DEF CareInv
<1>2. QED BY <1>1, CareAlways, PTL

\* No int3 is left in the stopped program without an entry in the list.
THEOREM NoTrapOrphaned ==
    ASSUME InMapping, AnyKind, PlainOnly, NoOutsideFaults
    PROVE  CarefulSpec => []NoOrphanTrap
<1>1. Known /\ CareInv => NoOrphanTrap
  BY DEF CareInv, Explained, NoOrphanTrap, AtPrompt, Final
<1>2. QED BY <1>1, CareAlways, PTL

\* A break point is lost by the race of continue_impl and in no other way.
THEOREM LostOnlyByTheRace ==
    ASSUME InMapping, AnyKind, PlainOnly, NoOutsideFaults
    PROVE  CarefulSpec => []ArmedUnlessMissed
<1>1. Known /\ CareInv => ArmedUnlessMissed
  <2> SUFFICES ASSUME Known, CareInv, AtPrompt, NEW i \in Live
               PROVE  slots[i].addr \in missed \/ Peek(slots[i].addr) = CC
    BY DEF ArmedUnlessMissed
  <2>1. pc = "prompt" /\ current = "RUNNING" /\ tracee = "stopped" /\ Offset = bias
    BY DEF AtPrompt, Offset
  <2>2. slots[i].addr - bias \in Image
    BY <2>1 DEF CareInv, Home, InMapping, Final
  <2>3. mem[slots[i].addr - bias] = CC \/ slots[i].addr \in missed
    BY <2>1 DEF CareInv, Armings, Final
  <2>4. QED BY <2>1, <2>2, <2>3 DEF Peek
<1>2. QED BY <1>1, CareAlways, PTL

\* disasm shows the code of the file.
THEOREM DisasmIsTheFile ==
    ASSUME InMapping, AnyKind, PlainOnly, NoOutsideFaults
    PROVE  CarefulSpec => []DisasmShows
<1>1. Known /\ CareInv => DisasmShows
  <2> SUFFICES ASSUME Known, CareInv, AtPrompt, NEW x \in Image
               PROVE  Shown(x + bias) = x
    BY DEF DisasmShows
  <2>1. /\ pc = "prompt" /\ current = "RUNNING" /\ tracee = "stopped" /\ Offset = bias
        /\ bias \in Int /\ x \in Int /\ (x + bias) - bias = x
    BY NotTraps DEF AtPrompt, Offset, Known, TypeOK, TraceeTypeOK
  <2>2. ASSUME NEW i \in Live, slots[i].addr = x + bias
        PROVE  Shown(x + bias) = x
    <3>1. \A j \in Live : slots[j].addr = x + bias => j = i
      BY <2>2 DEF Known, BpDistinct
    <3>2. i \in Int
      BY <2>2, DebuggerAssumption DEF Live, Known, TypeOK
    <3> DEFINE Last(k) == /\ slots[k].addr = x + bias
                          /\ \A j \in Live : slots[j].addr = x + bias => j <= k
               last == CHOOSE k \in Live : Last(k)
    <3>3. last = i
      <4>1. Last(i)
        BY <2>2, <3>1, <3>2
      <4>2. \A k \in Live : Last(k) => k = i
        BY <3>1
      <4> HIDE DEF Last
      <4>3. last \in Live /\ Last(last)
        BY <2>2, <4>1, Zenon
      <4>4. QED BY <4>2, <4>3
    <3>4. slots[i].original_byte = x
      BY <2>1, <2>2 DEF CareInv, Home, Final
    <3>5. Shown(x + bias) = slots[last].original_byte
      BY <2>2 DEF Shown
    <3>6. QED BY <3>3, <3>4, <3>5
  <2>3. ASSUME \A i \in Live : slots[i].addr # x + bias
        PROVE  Shown(x + bias) = x
    <3>1. mem[x] # CC
      BY <2>1, <2>3 DEF CareInv, Explained, Final
    <3>2. Peek(x + bias) = x
      BY <2>1, <3>1 DEF Peek, CareInv, TextIntegrity
    <3>3. QED BY <2>3, <3>2 DEF Shown
  <2>4. QED BY <2>2, <2>3
<1>2. QED BY <1>1, CareAlways, PTL

-----------------------------------------------------------------------------
(* The program under the debugger is the program.                          *)

\* Instructions have at least two bytes and do not overlap, and the user breaks
\* at instructions.
Wide ==
    /\ \A a \in Starts : Length[a] >= 2
    /\ \A a \in Starts : \A x \in (a + 1)..(a + Length[a] - 1) : x \notin Starts
    /\ BreakAddrs \subseteq Starts

\* The user does not move the instruction pointer.
NoJumps == RipTargets = {}

Sound == Wide /\ NoJumps /\ AnyKind /\ PlainOnly /\ NoOutsideFaults

\* The instruction the program executes next.
Place == IF trapped THEN here - 1 ELSE here

\* It is an instruction of the file.
PlaceReal == tracee \in {"stopped", "running"} => Place \in Starts

\* Past an int3, the program is stopped and the int3 is in the list.
TrapListed == trapped =>
    /\ tracee = "stopped" /\ current = "RUNNING"
    /\ \E i \in Live : slots[i].addr = trip - 1

\* At the prompt the debugger knows whether it is, and holds the registers to
\* go on with.
StopSeen == pc = "prompt" /\ current = "RUNNING" =>
    IF bp_idx = -1 THEN rip = trip /\ ~trapped ELSE rip - bias = Place

PlaceInv == PlaceReal /\ TrapListed /\ StopSeen

\* What a step may do with the instruction pointer.
Moves ==
    \/ At' = At
    \/ At = -1 /\ At' = Entry
    \/ At \in Starts \ Exits /\ At' \in Succ[At]
    \/ At \in Exits /\ At' = -2
    \/ At \in Starts /\ At' \in {-2, -1}
    \/ At = -1 /\ At' = -2
    \/ At = -2 /\ At' = -1

\* Instructions are bytes of the segment.
LEMMA StartsInts ==
    ASSUME Sound
    PROVE  /\ Starts \subseteq Image /\ BreakAddrs \subseteq Starts /\ InMapping
           /\ \A a \in Starts : a \in Int /\ a >= 0 /\ a + 1 \notin Starts
<1>1. ASSUME NEW a \in Starts
      PROVE  a \in Int /\ a >= 0 /\ a + 1 \notin Starts
  <2>1. a \in Int /\ a >= 0 /\ Length[a] \in Int /\ Length[a] >= 2
    BY ProgramAssumption DEF Sound, Wide, Image
  <2>2. a + 1 \in (a + 1)..(a + Length[a] - 1)
    BY <2>1
  <2>3. QED BY <2>1, <2>2 DEF Sound, Wide
<1>2. QED BY <1>1, ProgramAssumption DEF Sound, Wide, InMapping

\* Two steps of the program and what they find: the instruction pointer.
LEMMA PlaceInts ==
    ASSUME Known
    PROVE  /\ trip \in Int /\ bias \in Int /\ rip \in Int /\ trapped \in BOOLEAN
           /\ mem \in [Image -> Byte]
           /\ here = trip - bias
BY DEF Known, TypeOK, TraceeTypeOK, here

\* A step that leaves the process alone and only adds to the list.
LEMMA PlaceFramed ==
    ASSUME PlaceInv, UNCHANGED <<tracee, bias, trip, trapped>>,
           current' = "RUNNING" <=> current = "RUNNING",
           \A i \in Live : i \in Live' /\ slots'[i].addr = slots[i].addr,
           StopSeen'
    PROVE  PlaceInv' /\ Moves
<1>1. here' = here /\ Place' = Place /\ At' = At
  BY DEF here, Place, At
<1>2. PlaceReal' /\ TrapListed'
  BY <1>1 DEF PlaceInv, PlaceReal, TrapListed
<1>3. QED BY <1>1, <1>2 DEF PlaceInv, Moves

\* What check_if_bp finds of a stopped program: the int3 it has just executed,
\* or none.  An instruction of one byte would be taken for an int3 here.
LEMMA HitTrue ==
    ASSUME Sound, Known, CareInv, PlaceInv, tracee = "stopped", current = "RUNNING",
           pc \notin Final, CheckIfBp(slots, trip), UNCHANGED <<trip, trapped, bias>>
    PROVE  IF bp_idx' = -1 THEN rip' = trip /\ ~trapped
           ELSE rip' - bias = Place /\ trapped /\ slots[bp_idx'].addr = trip - 1
<1>1. /\ trip \in Int /\ bias \in Int /\ here = trip - bias
      /\ Offset = bias /\ Place \in Starts
  BY PlaceInts DEF Offset, PlaceInv, PlaceReal
<1>2. CASE HitAt(slots, trip) = {} /\ bp_idx' = -1 /\ rip' = trip
  <2>1. ~trapped
    BY <1>2 DEF HitAt, PlaceInv, TrapListed
  <2>2. QED BY <1>2, <2>1
<1>3. ASSUME NEW i \in HitAt(slots, trip), bp_idx' = i, rip' = trip - 1
      PROVE  /\ bp_idx' # -1 /\ rip' - bias = Place /\ trapped
             /\ slots[bp_idx'].addr = trip - 1
  <2>1. i \in Live /\ slots[i].addr = trip - 1
    BY <1>3 DEF HitAt
  <2>2. trip - 1 - bias \in Starts /\ i # -1
    BY <1>1, <2>1, StartsInts, LiveSlot DEF CareInv, Home, Known
  <2>3. here - 1 \in Starts
    BY <1>1, <2>2
  <2>4. trapped
    <3>1. here - 1 + 1 \notin Starts
      BY <2>3, StartsInts
    <3>2. here \notin Starts
      BY <1>1, <3>1
    <3>3. QED BY <1>1, <3>2 DEF Place
  <2>5. QED BY <1>1, <1>3, <2>1, <2>2, <2>4 DEF Place
<1>4. QED BY <1>2, <1>3 DEF CheckIfBp

\* SETREGS with the registers of the prompt: the program stays where it is.
LEMMA SetTripPlace ==
    ASSUME Known, PlaceInv, pc = "prompt", current = "RUNNING", tracee = "stopped",
           SetTrip(rip), bias' = bias
    PROVE  Place' = Place /\ trip' = rip /\ ~trapped'
<1>1. trip' = rip /\ trapped' = (trapped /\ rip = trip)
  BY DEF SetTrip
<1>2. trip \in Int /\ bias \in Int /\ rip \in Int /\ here = trip - bias /\ here' = rip - bias
  BY <1>1, PlaceInts DEF here
<1>3. CASE bp_idx = -1
  <2>1. rip = trip /\ ~trapped /\ ~trapped'
    BY <1>1, <1>3 DEF PlaceInv, StopSeen
  <2>2. QED BY <1>1, <1>2, <1>3, <2>1 DEF Place
<1>4. CASE bp_idx # -1
  <2>1. rip - bias = Place
    BY <1>4 DEF PlaceInv, StopSeen
  <2>2. trapped => rip # trip
    BY <1>2, <2>1 DEF Place
  <2>3. ~trapped'
    BY <1>1, <2>2
  <2>4. QED BY <1>1, <1>2, <2>1, <2>3 DEF Place
<1>5. QED BY <1>3, <1>4

\* The steps of the program.
LEMMA PlaceRuns ==
    ASSUME Sound, Known, CareInv, PlaceInv, ProgramRuns
    PROVE  PlaceInv' /\ Moves
<1>1. /\ tracee = "running" /\ bias' = bias /\ mem' = mem
      /\ UNCHANGED <<pc, current, slots, nbp, bp_idx, rip>>
  BY DEF ProgramRuns, Runs, Trap, Execute, Exit, Misexecute, sdbVars
<1>2. current = "RUNNING" /\ pc \in {"resumed", "waiting"}
  BY <1>1 DEF Known, WaitsAnswered, CareInv, Stopped, TypeOK, Phase, Final
<1>3. /\ ~trapped /\ Place = here /\ At = here /\ here \in Starts /\ Offset = bias
      /\ trip \in Int /\ bias \in Int /\ here = trip - bias /\ mem \in [Image -> Byte]
  BY <1>1, <1>2, PlaceInts DEF PlaceInv, TrapListed, PlaceReal, Place, At, Offset
<1>4. Live' = Live /\ StopSeen'
  BY <1>1, <1>2 DEF Live, StopSeen
<1>5. CASE Trap
  <2>1. /\ here \in Image /\ mem[here] = CC /\ tracee' = "stopped"
        /\ trip' = trip + 1 /\ trapped'
    BY <1>5 DEF Trap
  <2>2. here' = here + 1 /\ Place' = here /\ At' = here
    <3>1. trip' = trip + 1 /\ bias' = bias
      BY <1>1, <2>1
    <3>2. here' = trip + 1 - bias
      BY <1>3, <3>1 DEF here
    <3>3. here' = here + 1
      BY <1>3, <3>2
    <3>4. At' = Place'
      BY <2>1 DEF Place, At
    <3>5. Place' = here' - 1
      BY <2>1 DEF Place
    <3>6. Place' = here
      BY <1>3, <3>3, <3>5
    <3>7. QED BY <3>3, <3>4, <3>6
  <2>3. PICK i \in Live : slots[i].addr = here + bias
    BY <1>2, <2>1 DEF CareInv, Explained, Final
  <2>4. slots[i].addr = trip' - 1
    BY <1>3, <2>1, <2>3
  <2>5. QED
    BY <1>1, <1>2, <1>3, <1>4, <2>1, <2>2, <2>4
    DEF PlaceInv, PlaceReal, TrapListed, Moves
<1>6. CASE Execute
  <2>1. PICK a \in Succ[here] : trip' = a + bias
    BY <1>6 DEF Execute
  <2>2. /\ ~trapped' /\ tracee' \in {"stopped", "running"} /\ here \notin Exits
        /\ a \in Starts /\ a \in Int
    BY <1>3, <1>6, ProgramAssumption, StartsInts DEF Execute, StopIfSingle
  <2>3. here' = a
    BY <1>1, <1>3, <2>1, <2>2 DEF here
  <2>4. Place' = a /\ At' = a
    BY <2>2, <2>3 DEF Place, At
  <2>5. QED
    BY <1>3, <1>4, <2>2, <2>4 DEF PlaceInv, PlaceReal, TrapListed, Moves
<1>7. CASE Exit
  <2>1. tracee' = "zombie" /\ ~trapped' /\ here \in Exits /\ At' = -2
    BY <1>3, <1>7 DEF Exit, At
  <2>2. QED BY <1>3, <1>4, <2>1 DEF PlaceInv, PlaceReal, TrapListed, Moves
<1>8. ~Misexecute
  <2> SUFFICES ASSUME Misexecute PROVE FALSE
    OBVIOUS
  <2>1. PICK x \in here..(here + Length[here] - 1) : mem[x] # x
    BY <1>3 DEF Misexecute, Intact
  <2>2. /\ here \in Image /\ here \in Int /\ Length[here] \in Int
        /\ here + Length[here] <= SegHi /\ SegHi \in Int /\ SegLo \in Int /\ here >= SegLo
    BY <1>3, ProgramAssumption DEF Image
  <2>3. x \in Image /\ x \in Int
    BY <2>1, <2>2 DEF Image
  <2>4. mem[x] = CC
    BY <2>1, <2>3 DEF CareInv, TextIntegrity
  <2>5. PICK i \in Live : slots[i].addr = x + bias
    BY <1>2, <2>3, <2>4 DEF CareInv, Explained, Final
  <2>6. x \in Starts
    <3>1. slots[i].addr - bias \in Starts
      BY <1>2, <1>3, StartsInts DEF CareInv, Home, Final
    <3>2. QED BY <1>3, <2>3, <2>5, <3>1
  <2>7. x = here
    <3>1. x \notin (here + 1)..(here + Length[here] - 1)
      BY <1>3, <2>6 DEF Sound, Wide
    <3>2. QED BY <2>1, <2>2, <2>3, <3>1
  <2>8. QED BY <2>2, <2>4, <2>7 DEF Misexecute
<1>9. QED BY <1>5, <1>6, <1>7, <1>8 DEF ProgramRuns, Runs

\* Every step of a careful user's session is a step of the program, or none.
LEMMA PlaceNext ==
    ASSUME Sound, Known, CareInv, PlaceInv, [CarefulNext]_vars
    PROVE  PlaceInv' /\ Moves
<1>0. /\ pc = "prompt" /\ current = "RUNNING" => tracee = "stopped"
      /\ pc = "prompt" => tracee \in {"none", "stopped", "zombie"}
      /\ pc \in Final => tracee = "none"
      /\ current # "RUNNING" => bp_idx = -1 /\ ~trapped
      /\ trapped => tracee = "stopped"
      /\ tracee \in {"stopped", "running"} => Place \in Starts /\ At = Place
      /\ tracee \in {"none", "forked", "repl"} => At = -1
      /\ tracee = "zombie" => At = -2
      /\ NoOutsideFaults /\ InMapping /\ AnyKind /\ PlainOnly
  BY StartsInts
  DEF CareInv, Stopped, Unbroken, Known, WaitsAnswered, PlaceInv, TrapListed,
      PlaceReal, Place, At, Sound
<1>1. CASE UNCHANGED vars
  <2>1. /\ UNCHANGED <<tracee, bias, trip, trapped, current, slots, nbp, pc, bp_idx, rip>>
        /\ Live' = Live
    BY <1>1 DEF vars, traceeVars, sdbVars, Live
  <2>2. StopSeen'
    BY <2>1 DEF PlaceInv, StopSeen, Place, here
  <2>3. QED BY <2>1, <2>2, PlaceFramed
<1>2. ASSUME NEW k \in Paths, Load(k) PROVE PlaceInv' /\ Moves
  <2>1. /\ UNCHANGED <<tracee, bias, trip, trapped, slots, nbp>> /\ Live' = Live
        /\ current = "BEGIN" /\ current' = "LOADED"
    BY <1>2 DEF Load, traceeVars, Live
  <2>2. StopSeen'
    BY <2>1 DEF StopSeen
  <2>3. QED BY <2>1, <2>2, PlaceFramed
<1>3. ASSUME NEW a \in BreakAddrs, BreakLoaded(a) \/ BreakRunning(a)
      PROVE  PlaceInv' /\ Moves
  <2>1. /\ UNCHANGED <<tracee, bias, trip, trapped, current, pc, bp_idx, rip>>
        /\ nbp < MaxBP /\ nbp' = nbp + 1
    BY <1>3 DEF BreakLoaded, BreakRunning, traceeVars
  <2>2. PICK b : slots' = [slots EXCEPT ![nbp] = b]
    BY <1>3 DEF BreakLoaded, BreakRunning
  <2>3. \A i \in Live : i \in Live' /\ slots'[i] = slots[i]
    BY <2>1, <2>2, LiveSlot, DebuggerAssumption DEF Live, Slot, Known, TypeOK
  <2>4. StopSeen'
    BY <2>1 DEF PlaceInv, StopSeen, Place, here
  <2>5. QED BY <2>1, <2>3, <2>4, PlaceFramed
<1>4. ASSUME NEW i \in Slot, bp_idx \in {-1, i}, Delete(i)
      PROVE  PlaceInv' /\ Moves
  <2>1. UNCHANGED <<tracee, bias, pc, current, rip>> /\ pc = "prompt"
    BY <1>4 DEF Delete
  <2>2. ~trapped' /\ Place' = Place
        /\ (current = "RUNNING" => bp_idx' = -1 /\ rip' = trip')
    <3>1. CASE current = "RUNNING" /\ bp_idx = i
      BY <1>0, <1>4, <2>1, <3>1, SetTripPlace DEF Delete, Leave
    <3>2. CASE ~(current = "RUNNING" /\ bp_idx = i)
      <4>1. UNCHANGED <<bp_idx, trip, trapped>> /\ bp_idx = -1
        BY <1>0, <1>4, <3>2 DEF Delete, Leave
      <4>2. ~trapped /\ (current = "RUNNING" => rip = trip)
        BY <1>0, <2>1, <4>1 DEF PlaceInv, StopSeen
      <4>3. Place' = Place
        BY <2>1, <4>1 DEF Place, here
      <4>4. QED BY <2>1, <4>1, <4>2, <4>3
    <3>3. QED BY <3>1, <3>2
  <2>3. At' = At
    BY <1>0, <2>1, <2>2 DEF At, Place
  <2>4. QED
    BY <1>0, <2>1, <2>2, <2>3 DEF PlaceInv, PlaceReal, TrapListed, StopSeen, Moves
<1>5. CASE SetReg
  <2>1. /\ UNCHANGED <<tracee, bias, pc, current, bp_idx, rip>> /\ pc = "prompt"
        /\ current = "RUNNING" /\ SetTrip(rip) /\ tracee = "stopped"
    BY <1>0, <1>5 DEF SetReg, sdbVars
  <2>2. ~trapped' /\ Place' = Place /\ trip' = rip
    BY <2>1, SetTripPlace
  <2>3. At' = At
    BY <1>0, <2>1, <2>2 DEF At, Place
  <2>4. StopSeen'
    BY <2>1, <2>2 DEF PlaceInv, StopSeen
  <2>5. QED
    BY <1>0, <2>1, <2>2, <2>3, <2>4 DEF PlaceInv, PlaceReal, TrapListed, Moves
<1>6. ~\E a \in RipTargets : SetRip(a)
  BY DEF Sound, NoJumps
<1>7. CASE Disasm \/ Dump
  <2>1. /\ UNCHANGED <<tracee, bias, trip, trapped, current, slots, nbp, pc, bp_idx, rip>>
        /\ Live' = Live
    BY <1>7 DEF Disasm, DisasmFrom, Dump, DumpFrom, traceeVars, Live
  <2>2. StopSeen'
    BY <2>1 DEF PlaceInv, StopSeen, Place, here
  <2>3. QED BY <2>1, <2>2, PlaceFramed
<1>8. ASSUME NEW step \in BOOLEAN, Continue(step) PROVE PlaceInv' /\ Moves
  <2>1. /\ pc = "prompt" /\ current = "RUNNING" /\ tracee = "stopped"
        /\ tracee' = "running" /\ bias' = bias /\ StoreRegs
        /\ pc' \in {"waiting", "resumed"}
    BY <1>0, <1>8 DEF Continue, Resume
  <2>2. ~trapped' /\ Place' = Place
    <3>1. CASE bp_idx = -1
      <4>1. UNCHANGED <<trip, trapped>> /\ ~trapped
        BY <2>1, <3>1 DEF StoreRegs, PlaceInv, StopSeen
      <4>2. QED BY <2>1, <4>1 DEF Place, here
    <3>2. CASE bp_idx # -1
      BY <2>1, <3>2, SetTripPlace DEF StoreRegs
    <3>3. QED BY <3>1, <3>2
  <2>3. At' = At
    BY <1>0, <2>1, <2>2 DEF At, Place
  <2>4. QED
    BY <1>0, <2>1, <2>2, <2>3 DEF PlaceInv, PlaceReal, TrapListed, StopSeen, Moves
<1>9. CASE StartAgain \/ WaitStop
  <2>1. /\ tracee = "stopped" /\ current = "RUNNING" /\ pc \notin Final
        /\ CheckIfBp(slots, trip)
        /\ UNCHANGED <<tracee, bias, trip, trapped, current, slots, nbp>> /\ Live' = Live
    BY <1>0, <1>9
    DEF StartAgain, WaitStop, Fetched, traceeVars, Known, WaitsAnswered, Live, Final
  <2>2. Place' = Place
    BY <2>1 DEF Place, here
  <2>3. StopSeen'
    BY <2>1, <2>2, HitTrue DEF StopSeen
  <2>4. QED BY <2>1, <2>3, PlaceFramed
<1>10. CASE Start \/ Run
  <2>1. /\ pc = "prompt" /\ current = "LOADED" /\ tracee' = "forked" /\ trapped' = trapped
        /\ pc' # "prompt"
    BY <1>10 DEF Start, Run, Launch, Fork
  <2>2. At' = -1
    BY <2>1 DEF At
  <2>3. QED
    BY <1>0, <2>1, <2>2 DEF PlaceInv, PlaceReal, TrapListed, StopSeen, Moves
<1>11. /\ ~StartForkFails /\ ~RunForkFails /\ ~WaitNobody
       /\ ~ExecKilled /\ ~ProgramKilled /\ ~ChildExecFails
  BY <1>0 DEF NoOutsideFaults, StartForkFails, RunForkFails, WaitNobody, ExecKilled,
              ProgramKilled, Killed, ChildExecFails, Known, WaitsAnswered, DumpOver
<1>12. CASE Quit \/ ExecAbort \/ WaitEnd
  <2>1. /\ tracee \in {"none", "stopped", "zombie"} /\ tracee' = "none" /\ ~trapped'
        /\ ~(pc' = "prompt" /\ current' = "RUNNING")
    BY <1>0, <1>12 DEF Quit, ExecAbort, WaitEnd, ProgramTerminated, Reap
  <2>2. At' = -1
    BY <2>1 DEF At
  <2>3. QED
    BY <1>0, <2>1, <2>2 DEF PlaceInv, PlaceReal, TrapListed, StopSeen, Moves
<1>13. CASE ExecStop
  <2>1. /\ tracee = "stopped" /\ current # "RUNNING" /\ bias' = bias /\ ~trapped
        /\ current' = "RUNNING" /\ bp_idx = -1
        /\ Place = here /\ here \in Starts /\ here = trip - bias
        /\ trip \in Int /\ bias \in Int
    BY <1>0, <1>13, PlaceInts DEF ExecStop, Known, WaitsAnswered, Place
  <2>2. UNCHANGED <<trip, trapped>> /\ tracee' \in {"stopped", "running"}
    BY <1>13, <2>1 DEF ExecStop, Resume, StoreRegs
  <2>3. here' = here /\ Place' = Place /\ At' = At
    BY <1>0, <2>1, <2>2 DEF here, Place, At
  <2>4. ASSUME pc' = "prompt" PROVE bp_idx' = -1 /\ rip' = trip
    <3>1. CheckIfBp(slots', trip)
      BY <1>13, <2>1, <2>4 DEF ExecStop, Resume, Fetched
    <3>2. ASSUME NEW i \in HitAt(slots', trip) PROVE FALSE
      <4>1. i \in Live' /\ slots'[i].addr = trip - 1
        BY <1>13, <3>2 DEF HitAt, ExecStop, Live
      <4>2. slots'[i].addr - bias \in Starts
        <5>1. CareInv'
          BY <1>0, <1>13, CareExecStop
        <5>2. Offset' = bias
          BY <2>1 DEF Offset
        <5>3. QED BY <2>4, <4>1, <5>1, <5>2, StartsInts DEF CareInv, Home, Final
      <4>3. here - 1 \in Starts
        BY <2>1, <4>1, <4>2
      <4>4. here - 1 + 1 \notin Starts
        BY <4>3, StartsInts
      <4>5. QED BY <2>1, <4>4
    <3>3. QED BY <3>1, <3>2 DEF CheckIfBp
  <2>5. StopSeen'
    BY <2>1, <2>2, <2>4 DEF StopSeen
  <2>6. QED BY <1>0, <2>1, <2>2, <2>3, <2>5 DEF PlaceInv, PlaceReal, TrapListed, Moves
<1>14. CASE Rearm
  <2>1. /\ UNCHANGED <<tracee, bias, trip, trapped, current, slots, nbp>> /\ Live' = Live
        /\ pc' = "waiting"
    BY <1>14 DEF Rearm, Live
  <2>2. StopSeen'
    BY <2>1 DEF StopSeen
  <2>3. QED BY <2>1, <2>2, PlaceFramed
<1>15. CASE ChildExec
  <2>1. PICK b \in Biases : ExecSucceeds(b, Own)
    BY <1>15 DEF ChildExec
  <2>2. /\ tracee = "forked" /\ tracee' = "stopped" /\ trip' = Entry + b /\ bias' = b
        /\ ~trapped' /\ Entry \in Starts /\ Entry \in Int /\ b \in Int
    BY <2>1, ProgramAssumption, StartsInts DEF ExecSucceeds
  <2>3. here' = Entry
    BY <2>2 DEF here
  <2>4. Place' = Entry /\ At' = Entry
    BY <2>2, <2>3 DEF Place, At
  <2>5. ~(pc' = "prompt" /\ current' = "RUNNING")
    BY <1>0, <1>15, <2>2 DEF ChildExec, sdbVars
  <2>6. QED
    BY <1>0, <2>2, <2>4, <2>5 DEF PlaceInv, PlaceReal, TrapListed, StopSeen, Moves
<1>16. CASE ChildQuits
  <2>1. /\ tracee = "repl" /\ tracee' = "zombie" /\ trapped' = trapped
        /\ UNCHANGED <<pc, current>>
    BY <1>16 DEF ChildQuits, sdbVars
  <2>2. At' = -2
    BY <2>1 DEF At
  <2>3. QED
    BY <1>0, <2>1, <2>2 DEF PlaceInv, PlaceReal, TrapListed, StopSeen, Moves
<1>17. CASE ProgramSignal
  <2>1. /\ tracee = "running" /\ tracee' = "stopped"
        /\ UNCHANGED <<bias, trip, trapped, pc, current>>
    BY <1>17 DEF ProgramSignal, SignalStop, sdbVars
  <2>2. Place' = Place /\ At' = Place'
    BY <2>1 DEF Place, At, here
  <2>3. QED
    BY <1>0, <2>1, <2>2 DEF PlaceInv, PlaceReal, TrapListed, StopSeen, Moves
<1>18. CASE ProgramRuns
  BY <1>18, PlaceRuns
<1>19. QED
  BY <1>1, <1>2, <1>3, <1>4, <1>5, <1>6, <1>7, <1>8, <1>9, <1>10, <1>11, <1>12,
     <1>13, <1>14, <1>15, <1>16, <1>17, <1>18
  DEF CarefulNext, CarefulUser, Registers, Looking, Launching, Cont, Si, Debugger,
      Process, Halted

\* What the instruction pointer does is what the program without a debugger may
\* do.
LEMMA MovesAllowed == Moves => [Undebugged!Next]_At
BY DEF Moves, Undebugged!Next, Undebugged!Launch, Undebugged!Step, Undebugged!End,
       Undebugged!Kill, Undebugged!Stillborn, Undebugged!Gone, Undebugged!Off,
       Undebugged!Over

\* Refinement: with instructions of two bytes or more, whatever is broken,
\* deleted, stepped and continued, in any number of runs and under signals, the
\* program executes what it would execute without a debugger.
THEOREM RunsUndisturbed == ASSUME Sound PROVE CarefulSpec => Transparent
<1>1. Init => PlaceInv /\ Undebugged!Init
  BY DEF Init, NoTracee, PlaceInv, PlaceReal, TrapListed, StopSeen, At,
         Undebugged!Init, Undebugged!Off
<1>2. Known /\ CareInv /\ PlaceInv /\ [CarefulNext]_vars
      => PlaceInv' /\ [Undebugged!Next]_At
  BY PlaceNext, MovesAllowed
<1>3. CarefulSpec => [](Known /\ CareInv)
  BY CareAlways, StartsInts DEF Sound
<1>4. QED
  BY <1>1, <1>2, <1>3, PTL DEF CarefulSpec, Transparent, Undebugged!Spec

=============================================================================
