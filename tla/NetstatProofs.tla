---------------------------- MODULE NetstatProofs ---------------------------
(***************************************************************************)
(* Proofs about the netstat clone, for every system and every way it may   *)
(* change during the scans: types, that owners are real, and what may be   *)
(* relied on while nothing changes - that the scan is complete, that the   *)
(* tool does not fail, and when the table it prints is true. The last      *)
(* section shows that no loop of the tool can be kept going by the system. *)
(***************************************************************************)
EXTENDS Netstat, FiniteSetTheorems, WellFoundedInduction, TLAPS

-----------------------------------------------------------------------------
(* Type correctness.                                                       *)

\* The types of the system's variables.
SystemType ==
    /\ open \subseteq Sock /\ lingering \subseteq Sock
    /\ fds \in [Pid -> [Fd -> Target]]
    /\ status \in [Pid -> {"alive", "nameless", "zombie", "gone"}]
    /\ changes \in Nat /\ held \subseteq Pid \X Sock

\* The types of the tool's variables.
ToolType ==
    /\ npc \in {"inodes", "locals", "remotes", "pids", "dirs", "cmdline"}
    /\ todo \in Seq(Kinds) /\ filter \subseteq Pid
    /\ inodes \subseteq Sock /\ locals \subseteq Sock /\ remotes \subseteq Sock
    /\ pids \subseteq Pid /\ pid \in Pid \cup {-1} /\ dirents \subseteq Fd
    /\ dirents # {} => pid \in Pid
    /\ tcpudp_pid \in Seq(Pid) /\ ncmd \in 0..Len(tcpudp_pid)
    /\ nfds \in 0..MaxFiles
    /\ rows \subseteq Row
    /\ outcome \in {"", "ok", "exit", "crash", "aborted"}
    /\ outcome = "" => todo # <<>>
    /\ overlooked \in BOOLEAN

\* The type invariant has a half for the system and a half for the tool.
LEMMA TypeSplit == TypeOK <=> SystemType /\ ToolType
BY DEF TypeOK, SystemType, ToolType

\* A closed or inherited set of descriptors is one again.
LEMMA ReleaseType ==
    ASSUME SystemType, NEW F \in [Pid -> [Fd -> Target]], Release(F)
    PROVE  /\ open' \subseteq Sock /\ lingering' \subseteq Sock
           /\ fds' \in [Pid -> [Fd -> Target]] /\ held' \subseteq Pid \X Sock
BY DEF Release, Unheld, SystemType

\* Every change of the system leaves a system, and the tool alone.
LEMMA SystemStep ==
    ASSUME TypeOK, System
    PROVE  TypeOK'
<1> SystemType /\ ToolType  BY TypeSplit
<1>1. PICK p \in Pid : Die(p) \/ \E f \in Fd : Close(p, f) \/ \E s \in Sock : Open(p, f, s)
  BY DEF System
<1>2. ASSUME Changing PROVE ToolType' /\ changes' \in Nat
  <2>1. changes \in Nat  BY DEF SystemType
  <2>2. changes' = changes + 1  BY <1>2 DEF Changing
  <2>3. ToolType'  BY <1>2 DEF Changing, vectors, ToolType
  <2>4. QED BY <2>1, <2>2, <2>3
<1>3. CASE Die(p)
  <2>1. [fds EXCEPT ![p] = [f \in Fd |-> Shut]] \in [Pid -> [Fd -> Target]]
    BY DEF SystemType, Target
  <2>2. status' \in [Pid -> {"alive", "nameless", "zombie", "gone"}]
    BY <1>3 DEF Die, SystemType
  <2>3. Changing /\ Release([fds EXCEPT ![p] = [f \in Fd |-> Shut]])
    BY <1>3 DEF Die
  <2>4. SystemType'  BY <1>2, <2>1, <2>2, <2>3, ReleaseType DEF SystemType
  <2>5. QED BY <1>2, <2>3, <2>4, TypeSplit DEF TypeOK, SystemType, ToolType
<1>4. ASSUME NEW f \in Fd, Close(p, f) PROVE TypeOK'
  <2>1. [fds EXCEPT ![p][f] = Shut] \in [Pid -> [Fd -> Target]]
    BY DEF SystemType, Target
  <2>2. Changing /\ Release([fds EXCEPT ![p][f] = Shut])
    BY <1>4 DEF Close
  <2>3. status' \in [Pid -> {"alive", "nameless", "zombie", "gone"}]
    BY <1>4 DEF Close, SystemType
  <2>4. SystemType'  BY <1>2, <2>1, <2>2, <2>3, ReleaseType DEF SystemType
  <2>5. QED BY <1>2, <2>2, <2>4 DEF TypeOK, SystemType, ToolType
<1>5. ASSUME NEW f \in Fd, NEW s \in Sock, Open(p, f, s) PROVE TypeOK'
  <2>1. fds' \in [Pid -> [Fd -> Target]]
    BY <1>5 DEF Open, SystemType, Target
  <2>2. Changing /\ open' \subseteq Sock /\ held' \subseteq Pid \X Sock
    BY <1>5 DEF Open, SystemType
  <2>3. SystemType'  BY <1>2, <1>5, <2>1, <2>2 DEF Open, SystemType
  <2>4. QED BY <1>2, <2>2, <2>3 DEF TypeOK, SystemType, ToolType
<1>6. QED BY <1>1, <1>3, <1>4, <1>5

\* The start.
LEMMA InitType == Init => TypeOK
<1>1. SUFFICES ASSUME Init PROVE TypeOK
  OBVIOUS
<1>2. open \subseteq Sock
  BY <1>1, NetstatAssumption DEF Init, SystemInit
<1>3. fds \in [Pid -> [Fd -> Target]]
  BY <1>1, <1>2 DEF Init, SystemInit, Target
<1>4. SystemType
  BY <1>1, <1>2, <1>3 DEF Init, SystemInit, Unheld, Holding, SystemType
<1>5. todo \in Seq(Kinds) /\ todo # <<>>
  <2>1. PICK options \in Requests : todo = Requested(options)
    BY <1>1 DEF Init
  <2>2. /\ <<"TCP", "TCP6">> \in Seq(Kinds)
        /\ <<"UDP", "UDP6">> \in Seq(Kinds)
        /\ <<"TCP", "TCP6", "UDP", "UDP6">> \in Seq(Kinds)
        /\ <<"TCP", "TCP6">> # <<>> /\ <<"UDP", "UDP6">> # <<>>
        /\ <<"TCP", "TCP6", "UDP", "UDP6">> # <<>>
    BY DEF Kinds
  <2>3. QED BY <2>1, <2>2 DEF Requested
<1>6. nfds \in 0..MaxFiles /\ filter \subseteq Pid
  <2>1. nfds = 0 /\ filter \in Filters  BY <1>1 DEF Init
  <2>2. MaxFiles \in Nat /\ Filters \subseteq SUBSET Pid  BY NetstatAssumption
  <2>3. QED BY <2>1, <2>2
<1>7. ncmd \in 0..Len(tcpudp_pid) /\ tcpudp_pid \in Seq(Pid)
  <2>1. tcpudp_pid = <<>> /\ ncmd = 0  BY <1>1 DEF Init, EmptyVectors
  <2>2. QED BY <2>1
<1>8. overlooked \in BOOLEAN
  BY <1>1 DEF Init
<1>9. QED
  BY <1>1, <1>4, <1>5, <1>6, <1>7, <1>8 DEF Init, EmptyVectors, TypeOK, SystemType

\* What is printed are rows of sockets and processes.
LEMMA PrintedType == ASSUME TypeOK, NEW n PROVE Printed(n) \subseteq Row
BY DEF Printed, TypeOK, Row

\* Every step of the tool keeps the types.
LEMMA ToolStep ==
    ASSUME TypeOK, Tool
    PROVE  TypeOK'
<1> SystemType /\ ToolType  BY TypeSplit
<1>0. tcpudp_pid \in Seq(Pid) /\ ncmd \in 0..Len(tcpudp_pid) /\ todo \in Seq(Kinds)
  BY DEF ToolType
<1>1. ASSUME UNCHANGED system PROVE SystemType'
  BY <1>1 DEF system, SystemType
<1>2. ASSUME CanOpen, nfds' = nfds + 1 PROVE nfds' \in 0..MaxFiles
  <2>1. nfds \in 0..MaxFiles  BY DEF ToolType
  <2>2. MaxFiles \in Nat  BY NetstatAssumption
  <2>3. QED BY <1>2, <2>1, <2>2 DEF CanOpen
<1>3. CASE ReadInodes \/ ReadLocals \/ ReadRemotes
  <2>1. /\ inodes' \subseteq Sock /\ locals' \subseteq Sock /\ remotes' \subseteq Sock
        /\ UNCHANGED system
    BY <1>3 DEF ReadInodes, ReadLocals, ReadRemotes, Pass, At, Column, ToolType,
                SystemType
  <2>2. nfds' \in 0..MaxFiles
    BY <1>2, <1>3 DEF ReadInodes, ReadLocals, ReadRemotes, Pass, CanRead
  <2>3. ToolType'
    BY <1>3, <2>1, <2>2 DEF ReadInodes, ReadLocals, ReadRemotes, Pass, At, ToolType
  <2>4. QED BY <1>1, <2>1, <2>3 DEF TypeOK, SystemType, ToolType
<1>4. CASE PassFails \/ LinkGone \/ CmdlineFails
  <2>1. UNCHANGED <<system, todo, filter, npc, vectors, nfds, overlooked>>
    BY <1>4 DEF PassFails, LinkGone, CmdlineFails, At, Fail
  <2>2. outcome' \in {"exit", "crash"}
    BY <1>4 DEF PassFails, LinkGone, CmdlineFails, Fail
  <2>3. ToolType'  BY <2>1, <2>2 DEF vectors, ToolType
  <2>4. QED BY <1>1, <2>1, <2>3 DEF TypeOK, SystemType, ToolType
<1>5. CASE SearchPid \/ AllSearched
  <2>1. ToolType' /\ UNCHANGED system
    BY <1>5 DEF SearchPid, AllSearched, At, vectors, ToolType
  <2>2. QED BY <1>1, <2>1 DEF TypeOK, SystemType, ToolType
<1>6. CASE OpenDir
  <2>1. PICK p \in First(pids) :
          /\ pids' = Others(p)
          /\ IF p \in Visible /\ status[p] # "gone" /\ CanOpen
             THEN /\ nfds' = nfds + 1 /\ pid' = p
                  /\ dirents' = {f \in Fd : fds[p][f] # Shut}
             ELSE UNCHANGED <<nfds, pid, dirents>>
    BY <1>6 DEF OpenDir
  <2>2. p \in Pid /\ pids' \subseteq Pid
    BY <2>1 DEF First, Others, ToolType
  <2>3. nfds' \in 0..MaxFiles
    BY <1>2, <2>1 DEF ToolType
  <2>4. pid' \in Pid \cup {-1} /\ dirents' \subseteq Fd
    BY <2>1, <2>2 DEF ToolType
  <2>5. dirents' # {} => pid' \in Pid
    BY <1>6, <2>1, <2>2 DEF OpenDir, ToolType
  <2>6. UNCHANGED <<system, npc, todo, filter, inodes, locals, remotes, tcpudp_pid,
                    ncmd, rows, outcome, overlooked>>
    BY <1>6 DEF OpenDir, At
  <2>7. ToolType' /\ UNCHANGED system
    BY <2>2, <2>3, <2>4, <2>5, <2>6 DEF ToolType
  <2>8. QED BY <1>1, <2>7 DEF TypeOK, SystemType, ToolType
<1>7. CASE ReadLink
  <2>1. PICK f \in First(dirents), nul \in Tails :
          /\ dirents' = dirents \ {f}
          /\ tcpudp_pid' = IF nul /\ IsTcpSocket(fds[pid][f]) THEN Entered(pid)
                                                             ELSE tcpudp_pid
          /\ overlooked' = (overlooked \/ (fds[pid][f] \in Sock /\ ~nul))
    BY <1>7 DEF ReadLink
  <2>2. overlooked' \in BOOLEAN
    BY <2>1
  <2>3. pid \in Pid /\ dirents' \subseteq Fd
    BY <2>1 DEF First, ToolType
  <2>4. tcpudp_pid' \in Seq(Pid) /\ Len(tcpudp_pid') >= Len(tcpudp_pid)
    BY <1>0, <2>1, <2>3 DEF Entered
  <2>5. ncmd' \in 0..Len(tcpudp_pid')
    <3>1. ncmd' = ncmd  BY <1>7 DEF ReadLink
    <3>2. QED BY <1>0, <2>4, <3>1
  <2>6. ToolType' /\ UNCHANGED system
    BY <1>7, <2>2, <2>3, <2>4, <2>5 DEF ReadLink, At, ToolType
  <2>7. QED BY <1>1, <2>6 DEF TypeOK, SystemType, ToolType
<1>8. CASE ReadCmdline
  <2>1. ncmd' \in 0..Len(tcpudp_pid')
    <3>1. ncmd' = ncmd + 1 /\ tcpudp_pid' = tcpudp_pid /\ ncmd < Len(tcpudp_pid)
      BY <1>8 DEF ReadCmdline, MoreOwners
    <3>2. QED BY <1>0, <3>1
  <2>2. ToolType' /\ UNCHANGED system
    BY <1>8, <2>1 DEF ReadCmdline, At, ToolType
  <2>3. QED BY <1>1, <2>2 DEF TypeOK, SystemType, ToolType
<1>9. CASE PrintTable
  <2>1. rows' \subseteq Row
    BY <1>9, PrintedType DEF PrintTable
  <2>2. tcpudp_pid' \in Seq(Pid) /\ ncmd' \in 0..Len(tcpudp_pid')
    <3>1. tcpudp_pid' = <<>> /\ ncmd' = 0  BY <1>9 DEF PrintTable
    <3>2. QED BY <3>1
  <2>3. todo' \in Seq(Kinds)
    <3>1. todo' = Tail(todo) /\ todo # <<>>  BY <1>9 DEF PrintTable, ToolType
    <3>2. QED BY <1>0, <3>1
  <2>4. ToolType' /\ UNCHANGED system
    BY <1>9, <2>1, <2>2, <2>3 DEF PrintTable, ToolType
  <2>5. QED BY <1>1, <2>4 DEF TypeOK, SystemType, ToolType
<1>10. CASE PrintAborts
  <2>1. rows' \subseteq Row
    BY <1>10, PrintedType DEF PrintAborts
  <2>2. ToolType' /\ UNCHANGED system
    BY <1>10, <2>1 DEF PrintAborts, At, ToolType
  <2>3. QED BY <1>1, <2>2 DEF TypeOK, SystemType, ToolType
<1>11. QED
  BY <1>3, <1>4, <1>5, <1>6, <1>7, <1>8, <1>9, <1>10 DEF Tool

\* Every step keeps the types.
LEMMA NextType == TypeOK /\ [Next]_vars => TypeOK'
<1>1. TypeOK /\ UNCHANGED vars => TypeOK'
  BY DEF vars, system, vectors, TypeOK
<1>2. QED BY <1>1, SystemStep, ToolStep DEF Next, Ended

\* The vectors, the descriptors and the history of the tool and the system stay
\* in their types, for every system, option, filter and limit of descriptors.
THEOREM NetstatTypeCorrect == Spec => []TypeOK
BY InitType, NextType, PTL DEF Spec

-----------------------------------------------------------------------------
(* Owners are real.                                                        *)

\* Whoever has a socket open is in the history.
Recorded == \A p \in Pid, f \in Fd : fds[p][f] \in Sock => <<p, fds[p][f]>> \in held

\* The columns are of the table that is being printed, and no process is
\* entered before the inodes are read.
ColumnsOfTable ==
    /\ \A s \in inodes \cup locals : Family[s] = Head(todo)
    /\ npc \in {"inodes", "locals", "remotes", "pids"} => tcpudp_pid = <<>>

OwnersInv == Recorded /\ ColumnsOfTable /\ OwnersReal

\* At the start nothing is entered.
LEMMA InitOwners == Init => OwnersInv
<1>1. SUFFICES ASSUME Init PROVE OwnersInv
  OBVIOUS
<1>2. Recorded
  BY <1>1 DEF Init, SystemInit, Holding, Holds, Recorded
<1>3. ColumnsOfTable
  BY <1>1 DEF Init, EmptyVectors, ColumnsOfTable
<1>4. OwnersReal
  <2>1. tcpudp_pid = <<>> /\ rows = {}  BY <1>1 DEF Init, EmptyVectors
  <2>2. DOMAIN tcpudp_pid = {}  BY <2>1
  <2>3. QED BY <2>1, <2>2 DEF OwnersReal
<1>5. QED BY <1>2, <1>3, <1>4 DEF OwnersInv

\* A longer history and unchanged columns keep every owner real.
LEMMA HistoryGrows ==
    ASSUME OwnersReal, held \subseteq held',
           UNCHANGED <<tcpudp_pid, inodes, rows>>
    PROVE  OwnersReal'
BY DEF OwnersReal

\* Changes of the system.
LEMMA SystemOwners ==
    ASSUME TypeOK, OwnersInv, System
    PROVE  OwnersInv'
<1>1. PICK p \in Pid : Die(p) \/ \E f \in Fd : Close(p, f) \/ \E s \in Sock : Open(p, f, s)
  BY DEF System
<1>2. fds \in [Pid -> [Fd -> Target]]  BY DEF TypeOK
<1>3. Shut \notin Sock
  <2>1. Sock \subseteq Nat  BY NetstatAssumption
  <2>2. QED BY <2>1 DEF Shut
<1>4. ASSUME Changing, held \subseteq held' PROVE ColumnsOfTable' /\ OwnersReal'
  <2>1. UNCHANGED <<npc, todo, inodes, locals, tcpudp_pid, rows>>
    BY <1>4 DEF Changing, vectors
  <2>2. QED BY <1>4, <2>1, HistoryGrows DEF OwnersInv, ColumnsOfTable
<1>5. CASE Die(p)
  <2>1. Changing /\ held' = held /\ fds' = [fds EXCEPT ![p] = [f \in Fd |-> Shut]]
    BY <1>5 DEF Die, Release
  <2>2. Recorded'
    BY <1>2, <1>3, <2>1 DEF OwnersInv, Recorded
  <2>3. QED BY <1>4, <2>1, <2>2 DEF OwnersInv
<1>6. ASSUME NEW f \in Fd, Close(p, f) PROVE OwnersInv'
  <2>1. Changing /\ held' = held /\ fds' = [fds EXCEPT ![p][f] = Shut]
    BY <1>6 DEF Close, Release
  <2>2. Recorded'
    BY <1>2, <1>3, <2>1 DEF OwnersInv, Recorded
  <2>3. QED BY <1>4, <2>1, <2>2 DEF OwnersInv
<1>7. ASSUME NEW f \in Fd, NEW s \in Sock, Open(p, f, s) PROVE OwnersInv'
  <2>1. /\ Changing /\ held' = held \cup {<<p, s>>}
        /\ fds' = [fds EXCEPT ![p][f] = s]
    BY <1>7 DEF Open
  <2>2. Recorded'
    BY <1>2, <2>1 DEF OwnersInv, Recorded
  <2>3. QED BY <1>4, <2>1, <2>2 DEF OwnersInv
<1>8. QED BY <1>1, <1>5, <1>6, <1>7

\* Rows printed from real owners name real owners.
LEMMA PrintedReal ==
    ASSUME TypeOK, OwnersInv, NEW n, NEW r \in Printed(n)
    PROVE  \E s \in Sock : Family[s] = Family[r.local] /\ <<r.pid, s>> \in held
<1>1. PICK i \in DOMAIN tcpudp_pid : r.pid = tcpudp_pid[i]
  BY DEF Printed
<1>2. r.local \in locals
  BY DEF Printed
<1>3. PICK s \in inodes : <<tcpudp_pid[i], s>> \in held
  BY <1>1 DEF OwnersInv, OwnersReal
<1>4. Family[s] = Head(todo) /\ Family[r.local] = Head(todo)
  BY <1>2, <1>3 DEF OwnersInv, ColumnsOfTable
<1>5. s \in Sock  BY <1>3 DEF TypeOK
<1>6. QED BY <1>1, <1>3, <1>4, <1>5

\* Steps of the tool.
LEMMA ToolOwners ==
    ASSUME TypeOK, OwnersInv, Tool
    PROVE  OwnersInv'
<1>1. ASSUME UNCHANGED <<system, inodes, locals, todo, tcpudp_pid, rows>>,
             npc' \in {"inodes", "locals", "remotes", "pids"} =>
                 npc \in {"inodes", "locals", "remotes", "pids"}
      PROVE OwnersInv'
  <2>1. Recorded'  BY <1>1 DEF system, OwnersInv, Recorded
  <2>2. ColumnsOfTable'  BY <1>1 DEF OwnersInv, ColumnsOfTable
  <2>3. OwnersReal'  BY <1>1, HistoryGrows DEF system, OwnersInv
  <2>4. QED BY <2>1, <2>2, <2>3 DEF OwnersInv
<1>2. CASE ReadInodes \/ ReadLocals
  <2>1. tcpudp_pid = <<>> /\ UNCHANGED <<system, tcpudp_pid, rows, todo>>
    BY <1>2 DEF ReadInodes, ReadLocals, Pass, At, OwnersInv, ColumnsOfTable
  <2>2. Recorded'  BY <2>1 DEF system, OwnersInv, Recorded
  <2>3. \A s \in inodes' \cup locals' : Family[s] = Head(todo)
    BY <1>2 DEF ReadInodes, ReadLocals, Column, OwnersInv, ColumnsOfTable
  <2>4. ColumnsOfTable'  BY <2>1, <2>3 DEF ColumnsOfTable
  <2>5. OwnersReal'
    <3>1. DOMAIN tcpudp_pid' = {}  BY <2>1
    <3>2. QED BY <2>1, <3>1 DEF system, OwnersInv, OwnersReal
  <2>6. QED BY <2>2, <2>4, <2>5 DEF OwnersInv
<1>3. CASE ReadRemotes \/ SearchPid
  BY <1>1, <1>3 DEF ReadRemotes, Pass, SearchPid, At
<1>4. CASE PassFails \/ LinkGone \/ CmdlineFails \/ AllSearched
  BY <1>1, <1>4 DEF PassFails, LinkGone, CmdlineFails, AllSearched, At, Fail, vectors
<1>5. CASE OpenDir \/ ReadCmdline
  BY <1>1, <1>5 DEF OpenDir, ReadCmdline, At
<1>6. CASE ReadLink
  <2>1. PICK f \in First(dirents), nul \in Tails :
          /\ fds[pid][f] # Shut
          /\ tcpudp_pid' = IF nul /\ IsTcpSocket(fds[pid][f]) THEN Entered(pid)
                                                             ELSE tcpudp_pid
    BY <1>6 DEF ReadLink
  <2>2. npc = "dirs" /\ UNCHANGED <<system, npc, inodes, locals, todo, rows>>
    BY <1>6 DEF ReadLink, At
  <2>3. CASE tcpudp_pid' = tcpudp_pid
    BY <1>1, <2>2, <2>3
  <2>4. CASE fds[pid][f] \in inodes /\ tcpudp_pid' = Append(tcpudp_pid, pid)
    <3>1. f \in Fd /\ pid \in Pid /\ fds[pid][f] \in Sock
      BY <2>1, <2>4 DEF First, TypeOK
    <3>2. <<pid, fds[pid][f]>> \in held  BY <3>1 DEF OwnersInv, Recorded
    <3>3. tcpudp_pid \in Seq(Pid)  BY DEF TypeOK
    <3>4. \A i \in DOMAIN tcpudp_pid' :
             (i \in DOMAIN tcpudp_pid /\ tcpudp_pid'[i] = tcpudp_pid[i])
             \/ tcpudp_pid'[i] = pid
      BY <2>4, <3>1, <3>3
    <3>5. \A i \in DOMAIN tcpudp_pid' : \E s \in inodes : <<tcpudp_pid'[i], s>> \in held
      BY <2>4, <3>2, <3>4 DEF OwnersInv, OwnersReal
    <3>6. OwnersReal'  BY <2>2, <3>5 DEF system, OwnersInv, OwnersReal
    <3>7. Recorded' /\ ColumnsOfTable'
      BY <2>2 DEF system, OwnersInv, Recorded, ColumnsOfTable
    <3>8. QED BY <3>6, <3>7 DEF OwnersInv
  <2>5. QED BY <2>1, <2>3, <2>4 DEF IsTcpSocket, Entered
<1>7. CASE PrintTable
  <2>1. /\ rows' = Printed(Cardinality(locals)) /\ UNCHANGED system
        /\ tcpudp_pid' = <<>> /\ inodes' = {} /\ locals' = {}
    BY <1>7 DEF PrintTable
  <2>2. Recorded'  BY <2>1 DEF system, OwnersInv, Recorded
  <2>3. ColumnsOfTable'  BY <2>1 DEF ColumnsOfTable
  <2>4. OwnersReal'
    <3>1. DOMAIN tcpudp_pid' = {}  BY <2>1
    <3>2. held' = held  BY <2>1 DEF system
    <3>3. QED BY <2>1, <3>1, <3>2, PrintedReal DEF OwnersReal
  <2>5. QED BY <2>2, <2>3, <2>4 DEF OwnersInv
<1>8. CASE PrintAborts
  <2>1. PICK n : rows' = Printed(n)
    BY <1>8 DEF PrintAborts
  <2>2. UNCHANGED <<system, todo, npc, inodes, locals, tcpudp_pid>>
    BY <1>8 DEF PrintAborts, At
  <2>3. Recorded' /\ ColumnsOfTable'
    BY <2>2 DEF system, OwnersInv, Recorded, ColumnsOfTable
  <2>4. held' = held  BY <2>2 DEF system
  <2>5. OwnersReal'
    BY <2>1, <2>2, <2>4, PrintedReal DEF OwnersInv, OwnersReal
  <2>6. QED BY <2>3, <2>5 DEF OwnersInv
<1>9. QED
  BY <1>2, <1>3, <1>4, <1>5, <1>6, <1>7, <1>8 DEF Tool

\* However descriptors, sockets and processes come and go during the scans,
\* whoever is entered or printed as an owner has held a socket of that table.
THEOREM OwnersAreReal == Spec => []OwnersReal
<1>1. TypeOK /\ OwnersInv /\ [Next]_vars => TypeOK' /\ OwnersInv'
  <2>1. OwnersInv /\ UNCHANGED vars => OwnersInv'
    BY DEF vars, system, vectors, OwnersInv, Recorded, ColumnsOfTable, OwnersReal
  <2>2. QED BY <2>1, NextType, SystemOwners, ToolOwners DEF Next, Ended
<1>2. OwnersInv => OwnersReal
  BY DEF OwnersInv
<1>3. QED BY InitType, InitOwners, <1>1, <1>2, PTL DEF Spec

-----------------------------------------------------------------------------
(* The scan of a quiet system.                                             *)

\* The tool has not ended.
Running == outcome = ""

\* The order in which descriptors are looked at.
Lex(d, c) == d[1] < c[1] \/ (d[1] = c[1] /\ d[2] < c[2])

\* The descriptors looked at so far, and those of them that lead to a listed
\* socket.
Scanned(d) == d[1] \notin pids /\ (d[1] = pid => d[2] \notin dirents)

Found == {d \in Visible \X Fd : fds[d[1]][d[2]] \in inodes /\ Scanned(d)}

\* The owners entered are those of the descriptors found, in their order.
Lists(e) ==
    /\ e \in [DOMAIN tcpudp_pid -> Visible \X Fd]
    /\ \A i \in DOMAIN tcpudp_pid : tcpudp_pid[i] = e[i][1]
    /\ \A i, j \in DOMAIN tcpudp_pid : i < j => Lex(e[i], e[j])
    /\ \A i \in DOMAIN tcpudp_pid : e[i] \in Found
    /\ \A d \in Found : \E i \in DOMAIN tcpudp_pid : e[i] = d

InOrder == \E e : Lists(e)

\* A system that has not changed.
QuietSystem == changes = 0 =>
    /\ \A p \in Pid : Lives(p) /\ \A f \in Fd : fds[p][f] \in open \cup {File, Shut}
    /\ lingering = Unheld(fds)

\* The columns are the whole table.
Columns ==
    /\ npc # "inodes" => inodes = Column \ lingering
    /\ npc \notin {"inodes", "locals"} => locals = Column
    /\ npc \notin {"inodes", "locals", "remotes"} => remotes = Column

\* What is still to be looked at comes after what was.
Ahead ==
    /\ \A q \in Pid \ pids, p \in pids : q < p
    /\ dirents # {} =>
          /\ pid \in Visible \ pids /\ \A q \in Pid \ pids : q <= pid
          /\ \A f \in dirents : fds[pid][f] # Shut
          /\ \A f \in dirents, g \in Fd \ dirents : fds[pid][g] # Shut => g < f

QuietInv ==
    /\ QuietSystem
    /\ npc # "dirs" => dirents = {}
    /\ npc \in {"inodes", "locals", "remotes", "pids"} => tcpudp_pid = <<>>
    /\ npc = "cmdline" => pids = {}
    /\ Undisturbed /\ Running => Columns
    /\ Undisturbed /\ Running /\ npc \in {"dirs", "cmdline"} => Ahead /\ InOrder

\* Processes, descriptors and sockets are numbers; no socket is Shut.
LEMMA Numbers ==
    /\ Pid \subseteq Nat /\ Fd \subseteq Nat /\ Sock \subseteq Nat /\ MaxFiles \in Nat
    /\ Shut \notin Sock /\ File \notin Sock /\ Visible \subseteq Pid
<1>1. Pid \subseteq Nat /\ Fd \subseteq Nat /\ MaxFiles \in Nat /\ Visible \subseteq Pid
  BY NetstatAssumption
<1>2. Sock \subseteq Nat \ {0}
  BY NetstatAssumption
<1>3. QED BY <1>1, <1>2 DEF Shut, File

\* What the scan needs of the types.
LEMMA ScanTypes ==
    ASSUME TypeOK
    PROVE  /\ inodes \subseteq Sock /\ open \subseteq Sock /\ locals \subseteq Sock
           /\ pids \subseteq Pid /\ dirents \subseteq Fd
           /\ tcpudp_pid \in Seq(Pid) /\ nfds \in Nat /\ changes \in Nat
           /\ overlooked \in BOOLEAN /\ pid \in Pid \cup {-1}
<1> SystemType /\ ToolType  BY TypeSplit
<1>1. nfds \in 0..MaxFiles  BY DEF ToolType
<1>2. nfds \in Nat  BY <1>1, Numbers
<1>3. tcpudp_pid \in Seq(Pid)  BY DEF ToolType
<1>4. QED BY <1>2, <1>3 DEF ToolType, SystemType

\* At the start there is nothing to say of the scan.
LEMMA InitQuiet == Init => QuietInv
<1> SUFFICES ASSUME Init PROVE QuietInv
  OBVIOUS
<1>1. npc = "inodes" /\ dirents = {} /\ tcpudp_pid = <<>>
  BY DEF Init, EmptyVectors
<1>2. QuietSystem
  BY DEF Init, SystemInit, QuietSystem, Lives
<1>3. Columns
  BY <1>1 DEF Columns
<1>4. QED BY <1>1, <1>2, <1>3 DEF QuietInv

\* After a change of the system nothing is claimed of the scan.
LEMMA SystemQuiet == TypeOK /\ QuietInv /\ System => QuietInv'
<1> SUFFICES ASSUME TypeOK, QuietInv, System PROVE QuietInv'
  OBVIOUS
<1>1. Changing
  BY DEF System, Die, Close, Open
<1>2. changes' # 0 /\ UNCHANGED <<npc, dirents, tcpudp_pid, pids>>
  <2>1. changes \in Nat /\ changes' = changes + 1
    BY <1>1, ScanTypes DEF Changing
  <2>2. changes' # 0
    BY <2>1
  <2>3. QED BY <1>1, <2>2 DEF Changing, vectors
<1>3. QuietSystem' /\ ~Undisturbed'
  BY <1>2 DEF QuietSystem, Undisturbed
<1>4. QED BY <1>2, <1>3 DEF QuietInv

\* A tool that is undisturbed was so before.
LEMMA QuietBefore ==
    ASSUME TypeOK, Tool
    PROVE  /\ UNCHANGED system /\ Running
           /\ Undisturbed' => Undisturbed
<1>1. UNCHANGED system /\ Running
  BY DEF Tool, ReadInodes, ReadLocals, ReadRemotes, Pass, PassFails, SearchPid, OpenDir, ReadLink,
         LinkGone, AllSearched, ReadCmdline, CmdlineFails, PrintTable, PrintAborts, At, Running
<1>2. nfds' = nfds \/ nfds' = nfds + 1
  BY DEF Tool, ReadInodes, ReadLocals, ReadRemotes, Pass, PassFails, SearchPid, OpenDir, ReadLink,
         LinkGone, AllSearched, ReadCmdline, CmdlineFails, PrintTable, PrintAborts, At, Fail
<1>3. overlooked => overlooked'
  BY DEF Tool, ReadInodes, ReadLocals, ReadRemotes, Pass, PassFails, SearchPid, OpenDir, ReadLink,
         LinkGone, AllSearched, ReadCmdline, CmdlineFails, PrintTable, PrintAborts, At, Fail
<1>4. CanOpen' => CanOpen
  BY <1>2, Numbers, ScanTypes DEF CanOpen
<1>5. changes' = changes
  BY <1>1 DEF system
<1>6. QED BY <1>1, <1>3, <1>4, <1>5 DEF Undisturbed

\* A new table of found descriptors for the same owners.
LEMMA SameList ==
    ASSUME InOrder, tcpudp_pid' = tcpudp_pid, Found' = Found
    PROVE  InOrder'
BY DEF InOrder, Lists

\* The scan of a table begins.
LEMMA SearchQuiet ==
    ASSUME TypeOK, QuietInv, SearchPid, Undisturbed, Running
    PROVE  Ahead' /\ InOrder'
<1>1. pids' = Pid /\ dirents' = {} /\ tcpudp_pid' = <<>>
  <2>1. \A p \in Pid : Lives(p)
    BY DEF QuietInv, QuietSystem, Undisturbed
  <2>2. npc = "pids" /\ pids' = {p \in Pid : status[p] # "gone"}
    BY DEF SearchPid, At
  <2>3. dirents' = dirents /\ tcpudp_pid' = tcpudp_pid
    BY DEF SearchPid
  <2>4. dirents = {} /\ tcpudp_pid = <<>>
    BY <2>2 DEF QuietInv
  <2>5. QED BY <2>1, <2>2, <2>3, <2>4 DEF Lives
<1>2. Ahead'
  BY <1>1 DEF Ahead
<1>3. Found' = {}
  BY <1>1, Numbers DEF Found, Scanned
<1>4. InOrder'
  <2>0. tcpudp_pid' = <<>>
    BY <1>1
  <2>1. DOMAIN tcpudp_pid' = {}
    <3>1. Len(<<>>) = 0 /\ DOMAIN <<>> = {}
      OBVIOUS
    <3>2. QED BY <2>0, <3>1
  <2>2. [i \in {} |-> i] \in [DOMAIN tcpudp_pid' -> Visible \X Fd]
    BY <2>1
  <2>3. Lists([i \in {} |-> i])'
    BY <1>3, <2>1, <2>2 DEF Lists
  <2>4. QED BY <2>3 DEF InOrder
<1>5. QED BY <1>2, <1>4

\* The next process.
LEMMA OpenQuiet ==
    ASSUME TypeOK, QuietInv, OpenDir, Undisturbed, Undisturbed', Running, Ahead, InOrder
    PROVE  Ahead' /\ InOrder'
<1>1. PICK p \in First(pids) :
        /\ pids' = pids \ {p}
        /\ IF p \in Visible /\ status[p] # "gone" /\ CanOpen
           THEN pid' = p /\ dirents' = {f \in Fd : fds[p][f] # Shut}
           ELSE UNCHANGED <<pid, dirents>>
  BY DEF OpenDir, Others
<1>2. /\ dirents = {} /\ p \in pids /\ p \in Pid /\ (\A q \in pids : p <= q)
      /\ UNCHANGED <<system, inodes, tcpudp_pid>> /\ Lives(p) /\ CanOpen
      /\ pids \subseteq Pid /\ Pid \subseteq Nat /\ fds' = fds
  <2>1. p \in pids /\ (\A q \in pids : p <= q)
    BY <1>1 DEF First
  <2>2. dirents = {} /\ UNCHANGED <<system, inodes, tcpudp_pid>>
    BY DEF OpenDir, At
  <2>3. fds' = fds
    BY <2>2 DEF system
  <2>4. Lives(p) /\ CanOpen
    BY <2>1, ScanTypes DEF QuietInv, QuietSystem, Undisturbed
  <2>5. QED BY <2>1, <2>2, <2>3, <2>4, ScanTypes, Numbers
<1>3. \A q \in Pid \ pids', r \in pids' : q < r
  <2>1. \A r \in pids' : p < r
    <3>1. p \in Nat /\ pids' \subseteq Nat
      BY <1>1, <1>2
    <3>2. \A r \in pids' : p <= r /\ r # p
      BY <1>1, <1>2
    <3>3. QED BY <3>1, <3>2
  <2>2. \A q \in Pid \ pids' : q = p \/ q \in Pid \ pids
    BY <1>1
  <2>3. \A q \in Pid \ pids, r \in pids : q < r
    BY DEF Ahead
  <2>4. pids' \subseteq pids
    BY <1>1
  <2>5. QED BY <2>1, <2>2, <2>3, <2>4
<1>4. \A q \in Pid \ pids' : q <= p
  <2>1. \A q \in Pid \ pids' : q = p \/ q \in Pid \ pids
    BY <1>1
  <2>2. \A q \in Pid \ pids : q < p
    BY <1>2 DEF Ahead
  <2>3. p \in Nat /\ Pid \subseteq Nat
    BY <1>2
  <2>4. QED BY <2>1, <2>2, <2>3
<1>5. Shut \notin inodes
  BY Numbers, ScanTypes
<1>6. CASE p \in Visible
  <2>1. pid' = p /\ dirents' = {f \in Fd : fds[p][f] # Shut}
    BY <1>1, <1>2, <1>6 DEF Lives
  <2>2. Ahead'
    BY <1>1, <1>2, <1>3, <1>4, <1>6, <2>1 DEF Ahead
  <2>3. ASSUME NEW d \in Visible \X Fd, fds[d[1]][d[2]] \in inodes
        PROVE  Scanned(d)' <=> Scanned(d)
    <3>1. CASE d[1] = p
      <4>1. ~Scanned(d)
        BY <1>2, <3>1 DEF Scanned
      <4>2. d[2] \in dirents'
        BY <1>5, <2>1, <2>3, <3>1
      <4>3. QED BY <2>1, <3>1, <4>1, <4>2 DEF Scanned
    <3>2. CASE d[1] # p
      BY <1>1, <1>2, <2>1, <3>2 DEF Scanned
    <3>3. QED BY <3>1, <3>2
  <2>4. Found' = Found
    BY <1>2, <2>3 DEF Found
  <2>5. QED BY <1>2, <2>2, <2>4, SameList
<1>7. CASE p \notin Visible
  <2>1. UNCHANGED <<pid, dirents>>
    BY <1>1, <1>7
  <2>2. Ahead'
    BY <1>2, <1>3, <2>1 DEF Ahead
  <2>3. \A d \in Visible \X Fd : Scanned(d)' <=> Scanned(d)
    BY <1>1, <1>2, <1>7, <2>1 DEF Scanned
  <2>4. Found' = Found
    BY <1>2, <2>3 DEF Found
  <2>5. QED BY <1>2, <2>2, <2>4, SameList
<1>8. QED BY <1>6, <1>7

\* One more descriptor found, after all those found before.
LEMMA ListLonger ==
    ASSUME TypeOK, InOrder, NEW d \in Visible \X Fd,
           tcpudp_pid' = Append(tcpudp_pid, d[1]),
           Found' = Found \cup {d}, \A c \in Found : Lex(c, d)
    PROVE  InOrder'
<1>1. PICK e : Lists(e)
  BY DEF InOrder
<1>2. tcpudp_pid \in Seq(Pid) /\ d[1] \in Pid
  BY ScanTypes, Numbers
<1> DEFINE n == Len(tcpudp_pid)
           m == n + 1
           F == [i \in 1..m |-> IF i = m THEN d ELSE e[i]]
<1>3. /\ n \in Nat /\ m \in Nat /\ DOMAIN tcpudp_pid = 1..n /\ 1..m = (1..n) \cup {m}
      /\ m \notin 1..n /\ \A i \in 1..n : i < m
  BY <1>2
<1>4. /\ DOMAIN tcpudp_pid' = 1..m /\ tcpudp_pid'[m] = d[1]
      /\ \A i \in 1..n : tcpudp_pid'[i] = tcpudp_pid[i]
  BY <1>2
<1>5. F[m] = d /\ \A i \in 1..n : F[i] = e[i]
  BY <1>3
<1>6. F \in [DOMAIN tcpudp_pid' -> Visible \X Fd]
  <2>1. \A i \in 1..n : e[i] \in Visible \X Fd
    BY <1>1, <1>3 DEF Lists
  <2>2. QED BY <1>3, <1>4, <2>1
<1> HIDE DEF F, m, n
<1>7. \A i \in 1..m : tcpudp_pid'[i] = F[i][1]
  BY <1>1, <1>3, <1>4, <1>5 DEF Lists
<1>8. \A i \in 1..m : F[i] \in Found'
  BY <1>1, <1>3, <1>5 DEF Lists
<1>9. \A c \in Found' : \E i \in 1..m : F[i] = c
  BY <1>1, <1>3, <1>5 DEF Lists
<1>10. ASSUME NEW i \in 1..m, NEW j \in 1..m, i < j PROVE Lex(F[i], F[j])
  <2>1. i \in 1..n
    BY <1>3, <1>10
  <2>2. CASE j = m
    BY <1>1, <1>3, <1>5, <2>1, <2>2 DEF Lists
  <2>3. CASE j \in 1..n
    BY <1>1, <1>3, <1>5, <1>10, <2>1, <2>3 DEF Lists
  <2>4. QED BY <1>3, <2>2, <2>3
<1>11. PICK G : G = F
  OBVIOUS
<1>12. Lists(G)'
  <2>1. G \in [DOMAIN tcpudp_pid' -> Visible \X Fd]
    BY <1>6, <1>11
  <2>2. \A i \in DOMAIN tcpudp_pid' : tcpudp_pid'[i] = G[i][1] /\ G[i] \in Found'
    BY <1>4, <1>7, <1>8, <1>11
  <2>3. \A i, j \in DOMAIN tcpudp_pid' : i < j => Lex(G[i], G[j])
    BY <1>4, <1>10, <1>11
  <2>4. \A c \in Found' : \E i \in DOMAIN tcpudp_pid' : G[i] = c
    BY <1>4, <1>9, <1>11
  <2>5. QED BY <2>1, <2>2, <2>3, <2>4 DEF Lists
<1>13. QED BY <1>12 DEF InOrder

\* The next link.
LEMMA LinkQuiet ==
    ASSUME TypeOK, QuietInv, ReadLink, Undisturbed, Undisturbed', Running, Ahead, InOrder
    PROVE  Ahead' /\ InOrder'
<1>1. PICK f \in First(dirents), nul \in Tails :
        /\ dirents' = dirents \ {f}
        /\ tcpudp_pid' = IF nul /\ fds[pid][f] \in inodes THEN Append(tcpudp_pid, pid)
                                                         ELSE tcpudp_pid
        /\ overlooked' = (overlooked \/ (fds[pid][f] \in Sock /\ ~nul))
  BY DEF ReadLink, IsTcpSocket, Entered
<1>2. f \in dirents /\ (\A g \in dirents : f <= g) /\ dirents \subseteq Fd
  BY ScanTypes DEF First
<1>3. /\ pid \in Visible \ pids /\ (\A q \in Pid \ pids : q <= pid)
      /\ (\A g \in dirents : fds[pid][g] # Shut)
      /\ (\A g \in dirents, h \in Fd \ dirents : fds[pid][h] # Shut => h < g)
  BY <1>2 DEF Ahead
<1>4. UNCHANGED <<inodes, pids, pid, fds>>
  BY DEF ReadLink, At, system
<1>5. fds[pid][f] \in inodes => nul
  BY <1>1, ScanTypes DEF Undisturbed
<1>6. dirents \subseteq Nat /\ f \in Nat /\ Fd \subseteq Nat /\ Pid \subseteq Nat /\ pid \in Pid
  BY <1>2, <1>3, Numbers
<1>7. Ahead'
  <2>1. \A g \in dirents' : f < g /\ g \in dirents
    BY <1>1, <1>2, <1>6
  <2>2. \A h \in Fd \ dirents' : h = f \/ h \in Fd \ dirents
    BY <1>1
  <2>3. \A g \in dirents', h \in Fd \ dirents' : fds[pid][h] # Shut => h < g
    BY <1>3, <2>1, <2>2
  <2>4. (\A q \in Pid \ pids, p \in pids : q < p) /\ \A g \in dirents' : fds[pid][g] # Shut
    BY <1>3, <2>1 DEF Ahead
  <2>5. QED BY <1>3, <1>4, <2>3, <2>4 DEF Ahead
<1> DEFINE d == <<pid, f>>
<1>8. d \in Visible \X Fd /\ d[1] = pid /\ d[2] = f
  BY <1>2, <1>3
<1>9. \A c \in Visible \X Fd : Scanned(c)' <=> Scanned(c) \/ c = d
  <2>1. ASSUME NEW c \in Visible \X Fd PROVE c = d <=> c[1] = pid /\ c[2] = f
    OBVIOUS
  <2> HIDE DEF d
  <2>2. QED BY <1>1, <1>2, <1>3, <1>4, <2>1 DEF Scanned
<1>10. \A c \in Found : Lex(c, d)
  <2>1. ASSUME NEW c \in Found PROVE Lex(c, d)
    <3>1. c[1] \in Pid \ pids /\ c[2] \in Fd
      BY <2>1, Numbers DEF Found, Scanned
    <3>2. c[1] <= pid
      BY <1>3, <3>1
    <3>3. CASE c[1] = pid
      <4>1. c[2] \in Fd \ dirents /\ fds[pid][c[2]] \in inodes
        BY <2>1, <3>1, <3>3 DEF Found, Scanned
      <4>2. fds[pid][c[2]] # Shut
        BY <4>1, Numbers, ScanTypes
      <4>3. c[2] < f
        BY <1>2, <1>3, <4>1, <4>2
      <4>4. QED BY <1>8, <3>3, <4>3 DEF Lex
    <3>4. CASE c[1] # pid
      <4>1. c[1] \in Nat /\ pid \in Nat
        BY <1>6, <3>1
      <4>2. c[1] < pid
        BY <3>2, <3>4, <4>1
      <4>3. QED BY <1>8, <4>2 DEF Lex
    <3>5. QED BY <3>3, <3>4
  <2>2. QED BY <2>1
<1> HIDE DEF d
<1>11. CASE fds[pid][f] \in inodes
  <2>1. tcpudp_pid' = Append(tcpudp_pid, d[1])
    BY <1>1, <1>5, <1>8, <1>11
  <2>2. Found' = Found \cup {d}
    BY <1>4, <1>8, <1>9, <1>11 DEF Found
  <2>3. QED BY <1>7, <1>8, <1>10, <2>1, <2>2, ListLonger
<1>12. CASE fds[pid][f] \notin inodes
  <2>1. tcpudp_pid' = tcpudp_pid
    BY <1>1, <1>12
  <2>2. Found' = Found
    BY <1>4, <1>8, <1>9, <1>12 DEF Found
  <2>3. QED BY <1>7, <2>1, <2>2, SameList
<1>13. QED BY <1>11, <1>12

\* The columns are read and kept whole.
LEMMA ColumnsQuiet ==
    ASSUME TypeOK, QuietInv, Tool, Undisturbed, Running, Running'
    PROVE  Columns'
<1>1. UNCHANGED system
  BY QuietBefore
<1>2. Columns /\ lingering' = lingering /\ open' = open
  BY <1>1 DEF QuietInv, system
<1>3. ASSUME UNCHANGED todo PROVE Column' = Column
  BY <1>2, <1>3 DEF Column
<1>4. CASE ReadInodes
  <2>1. inodes' = Column \ lingering /\ npc' = "locals" /\ UNCHANGED todo
    BY <1>4 DEF ReadInodes, Pass, At
  <2>2. QED BY <1>2, <1>3, <2>1 DEF Columns
<1>5. CASE ReadLocals
  <2>1. /\ locals' = Column /\ npc = "locals" /\ npc' = "remotes"
        /\ UNCHANGED <<todo, inodes>>
    BY <1>5 DEF ReadLocals, Pass, At
  <2>2. QED BY <1>2, <1>3, <2>1 DEF Columns
<1>6. CASE ReadRemotes
  <2>1. /\ remotes' = Column /\ npc = "remotes" /\ npc' = "pids"
        /\ UNCHANGED <<todo, inodes, locals>>
    BY <1>6 DEF ReadRemotes, Pass, At
  <2>2. QED BY <1>2, <1>3, <2>1 DEF Columns
<1>7. CASE SearchPid \/ OpenDir \/ ReadLink \/ AllSearched \/ ReadCmdline
  <2>1. /\ npc \in {"pids", "dirs", "cmdline"}
        /\ UNCHANGED <<todo, inodes, locals, remotes>>
    BY <1>7 DEF SearchPid, OpenDir, ReadLink, AllSearched, ReadCmdline, At, vectors
  <2>2. QED BY <1>2, <1>3, <2>1 DEF Columns
<1>8. CASE PassFails \/ LinkGone \/ CmdlineFails \/ PrintAborts
  BY <1>8 DEF PassFails, LinkGone, CmdlineFails, PrintAborts, Fail, Running
<1>9. CASE PrintTable
  <2>1. npc' = "inodes"
    BY <1>9 DEF PrintTable
  <2>2. QED BY <2>1 DEF Columns
<1>10. QED
  BY <1>4, <1>5, <1>6, <1>7, <1>8, <1>9 DEF Tool

\* The order of the scan is kept by every step of the tool.
LEMMA ScanQuiet ==
    ASSUME TypeOK, QuietInv, Tool, Undisturbed, Undisturbed', Running, Running',
           npc' \in {"dirs", "cmdline"}
    PROVE  Ahead' /\ InOrder'
<1>1. CASE ReadInodes \/ ReadLocals \/ ReadRemotes \/ PrintTable
  BY <1>1 DEF ReadInodes, ReadLocals, ReadRemotes, PrintTable, Pass
<1>2. CASE PassFails \/ LinkGone \/ CmdlineFails \/ PrintAborts
  BY <1>2 DEF PassFails, LinkGone, CmdlineFails, PrintAborts, Fail, Running
<1>3. CASE SearchPid
  BY <1>3, SearchQuiet
<1>4. npc \in {"dirs", "cmdline"} => Ahead /\ InOrder
  BY DEF QuietInv
<1>5. CASE OpenDir
  <2>1. npc = "dirs"
    BY <1>5 DEF OpenDir, At
  <2>2. QED BY <1>4, <1>5, <2>1, OpenQuiet
<1>6. CASE ReadLink
  <2>1. npc = "dirs"
    BY <1>6 DEF ReadLink, At
  <2>2. QED BY <1>4, <1>6, <2>1, LinkQuiet
<1>7. CASE AllSearched \/ ReadCmdline
  <2>1. /\ npc \in {"dirs", "cmdline"}
        /\ UNCHANGED <<fds, inodes, pids, pid, dirents, tcpudp_pid>>
    BY <1>7 DEF AllSearched, ReadCmdline, At, system, vectors
  <2>2. Found' = Found
    BY <2>1 DEF Found, Scanned
  <2>3. Ahead'
    BY <1>4, <2>1 DEF Ahead
  <2>4. QED BY <1>4, <2>1, <2>2, <2>3, SameList
<1>8. QED
  BY <1>1, <1>2, <1>3, <1>5, <1>6, <1>7 DEF Tool

\* Where the vectors of owners and of entries are empty.
LEMMA PhasesQuiet ==
    ASSUME QuietInv, Tool
    PROVE  /\ npc' # "dirs" => dirents' = {}
           /\ npc' \in {"inodes", "locals", "remotes", "pids"} => tcpudp_pid' = <<>>
           /\ npc' = "cmdline" => pids' = {}
<1>1. CASE ReadInodes \/ ReadLocals \/ ReadRemotes
  BY <1>1 DEF ReadInodes, ReadLocals, ReadRemotes, Pass, At, QuietInv
<1>2. CASE PassFails \/ LinkGone \/ CmdlineFails
  BY <1>2 DEF PassFails, LinkGone, CmdlineFails, At, Fail, vectors, QuietInv
<1>3. CASE SearchPid \/ OpenDir \/ ReadLink \/ ReadCmdline
  BY <1>3 DEF SearchPid, OpenDir, ReadLink, ReadCmdline, At, QuietInv
<1>4. CASE AllSearched \/ PrintAborts
  BY <1>4 DEF AllSearched, PrintAborts, At, vectors, QuietInv
<1>5. CASE PrintTable
  BY <1>5 DEF PrintTable, QuietInv
<1>6. QED BY <1>1, <1>2, <1>3, <1>4, <1>5 DEF Tool

\* Every step of the tool and of the system.
LEMMA NextQuiet == TypeOK /\ QuietInv /\ [Next]_vars => QuietInv'
<1> SUFFICES ASSUME TypeOK, QuietInv, [Next]_vars PROVE QuietInv'
  OBVIOUS
<1>1. CASE UNCHANGED vars
  <2>1. UNCHANGED <<system, npc, todo, vectors, nfds, outcome, overlooked>>
    BY <1>1 DEF vars
  <2>2. QuietSystem' /\ (Undisturbed' <=> Undisturbed) /\ (Running' <=> Running)
    BY <2>1 DEF system, QuietInv, QuietSystem, Lives, Unheld, Holds, Undisturbed, CanOpen, Running
  <2>3. (Columns => Columns') /\ (Ahead => Ahead')
    BY <2>1 DEF system, vectors, Columns, Column, Ahead
  <2>4. InOrder => InOrder'
    <3>1. Found' = Found
      BY <2>1 DEF system, vectors, Found, Scanned
    <3>2. QED BY <2>1, <3>1, SameList DEF vectors
  <2>5. QED BY <2>1, <2>2, <2>3, <2>4 DEF QuietInv, vectors
<1>2. CASE Tool
  <2>1. UNCHANGED system /\ Running /\ (Undisturbed' => Undisturbed)
    BY <1>2, QuietBefore
  <2>2. QuietSystem'
    BY <2>1 DEF QuietInv, QuietSystem, Lives, system, Unheld, Holds
  <2>3. QED BY <1>2, <2>1, <2>2, ColumnsQuiet, ScanQuiet, PhasesQuiet DEF QuietInv
<1>3. QED BY <1>1, <1>2, SystemQuiet DEF Next, Ended

\* Every step keeps what is known of a quiet scan.
LEMMA QuietAlways == Spec => [](TypeOK /\ QuietInv)
BY InitType, NextType, InitQuiet, NextQuiet, PTL DEF Spec

\* Sets between which there is a one-to-one correspondence have one size.
LEMMA SameSize ==
    ASSUME NEW S, NEW T, IsFiniteSet(S), NEW h \in [S -> T],
           \A x, y \in S : h[x] = h[y] => x = y, \A t \in T : \E x \in S : h[x] = t
    PROVE  IsFiniteSet(T) /\ Cardinality(T) = Cardinality(S)
<1>1. h \in Surjection(S, T)
  BY DEF Surjection
<1>2. h \in Injection(S, T)
  BY DEF Injection, IsInjective
<1>3. QED BY <1>1, <1>2, FS_Surjection

\* A set that fits into a finite one is not larger.
LEMMA NoLarger ==
    ASSUME NEW S, NEW T, IsFiniteSet(T), NEW h \in [S -> T],
           \A x, y \in S : h[x] = h[y] => x = y
    PROVE  Cardinality(S) <= Cardinality(T)
<1>1. h \in Injection(S, T)
  BY DEF Injection, IsInjective
<1>2. QED BY <1>1, FS_Injection

\* The numbers up to n are n.
LEMMA CountTo ==
    ASSUME NEW n \in Nat
    PROVE  IsFiniteSet(1..n) /\ Cardinality(1..n) = n
<1>1. IsFiniteSet(1..n) /\ Cardinality(1..n) = IF 1 > n THEN 0 ELSE n - 1 + 1
  BY FS_Interval
<1>2. QED BY <1>1

\* The places of the owners are numbers, and finitely many.
LEMMA OwnerPlaces ==
    ASSUME TypeOK
    PROVE  /\ Len(tcpudp_pid) \in Nat /\ DOMAIN tcpudp_pid = 1..Len(tcpudp_pid)
           /\ IsFiniteSet(DOMAIN tcpudp_pid)
           /\ Cardinality(DOMAIN tcpudp_pid) = Len(tcpudp_pid)
<1>1. tcpudp_pid \in Seq(Pid)
  BY ScanTypes
<1>2. Len(tcpudp_pid) \in Nat /\ DOMAIN tcpudp_pid = 1..Len(tcpudp_pid)
  BY <1>1
<1>3. QED BY <1>2, CountTo

\* When the scan is over, the entries are the visible descriptors of listed
\* sockets, each at one place.
LEMMA ScanOver ==
    ASSUME TypeOK, QuietInv, Undisturbed, Running, npc = "cmdline"
    PROVE  \E e : /\ Lists(e)
                  /\ \A d \in Visible \X Fd : fds[d[1]][d[2]] \in inodes =>
                         \E i \in DOMAIN tcpudp_pid : e[i] = d
                  /\ \A i, j \in DOMAIN tcpudp_pid : e[i] = e[j] => i = j
<1>1. InOrder /\ pids = {} /\ dirents = {}
  BY DEF QuietInv
<1>2. PICK e : Lists(e)
  BY <1>1 DEF InOrder
<1>3. \A d \in Visible \X Fd : fds[d[1]][d[2]] \in inodes =>
         \E i \in DOMAIN tcpudp_pid : e[i] = d
  BY <1>1, <1>2 DEF Lists, Found, Scanned
<1>4. ASSUME NEW i \in DOMAIN tcpudp_pid, NEW j \in DOMAIN tcpudp_pid, i < j
      PROVE  e[i] # e[j]
  <2>1. e[i] \in Visible \X Fd /\ Lex(e[i], e[j])
    BY <1>2, <1>4 DEF Lists
  <2>2. e[i][1] \in Nat /\ e[i][2] \in Nat
    BY <2>1, Numbers
  <2>3. QED BY <2>1, <2>2 DEF Lex
<1>5. \A i, j \in DOMAIN tcpudp_pid : i < j \/ j < i \/ i = j
  BY OwnerPlaces
<1>6. \A i, j \in DOMAIN tcpudp_pid : e[i] = e[j] => i = j
  BY <1>4, <1>5
<1>7. QED BY <1>2, <1>3, <1>6

\* Each descriptor of p that leads to a listed socket has one place among the
\* places of p.
LEMMA CompleteScan ==
    ASSUME TypeOK, QuietInv, Undisturbed, Running, npc = "cmdline", NEW p \in Visible
    PROVE  Cardinality({i \in DOMAIN tcpudp_pid : tcpudp_pid[i] = p})
              = Cardinality({f \in Fd : fds[p][f] \in inodes})
<1> DEFINE I == {i \in DOMAIN tcpudp_pid : tcpudp_pid[i] = p}
           D == {f \in Fd : fds[p][f] \in inodes}
<1>1. PICK e : /\ Lists(e)
               /\ \A d \in Visible \X Fd : fds[d[1]][d[2]] \in inodes =>
                      \E i \in DOMAIN tcpudp_pid : e[i] = d
               /\ \A i, j \in DOMAIN tcpudp_pid : e[i] = e[j] => i = j
  BY ScanOver
<1>2. \A i \in DOMAIN tcpudp_pid :
         /\ e[i] \in Visible \X Fd /\ tcpudp_pid[i] = e[i][1]
         /\ fds[e[i][1]][e[i][2]] \in inodes
  BY <1>1 DEF Lists, Found
<1> DEFINE h == [i \in I |-> e[i][2]]
<1>3. h \in [I -> D]
  BY <1>2
<1>4. ASSUME NEW i \in I, NEW j \in I, h[i] = h[j] PROVE i = j
  <2>1. e[i] = <<p, h[i]>> /\ e[j] = <<p, h[j]>>
    BY <1>2
  <2>2. QED BY <1>1, <1>4, <2>1
<1>5. ASSUME NEW f \in D PROVE \E i \in I : h[i] = f
  <2> DEFINE d == <<p, f>>
  <2>1. d \in Visible \X Fd /\ d[1] = p /\ d[2] = f /\ fds[d[1]][d[2]] \in inodes
    OBVIOUS
  <2>2. PICK i \in DOMAIN tcpudp_pid : e[i] = d
    BY <1>1, <2>1
  <2>3. i \in I /\ h[i] = f
    BY <1>2, <2>1, <2>2
  <2>4. QED BY <2>3
<1>6. IsFiniteSet(I)
  BY OwnerPlaces, FS_Subset
<1> HIDE DEF I, D, h
<1>7. Cardinality(D) = Cardinality(I)
  BY <1>3, <1>4, <1>5, <1>6, SameSize
<1>8. QED BY <1>7 DEF I, D

\* The scan of a system that does not change enters each visible process once
\* for each of its descriptors of a listed socket: nobody is missed, nobody is
\* counted twice, for every number of processes, descriptors and sockets.
THEOREM QuietScan == Spec => []QuietScanComplete
<1>1. TypeOK /\ QuietInv => QuietScanComplete
  BY CompleteScan DEF QuietScanComplete, Running
<1>2. QED BY <1>1, QuietAlways, PTL

-----------------------------------------------------------------------------
(* A failure has a reason.                                                 *)

\* When every socket of the table has an owner the tool can see, the owners
\* are not fewer than the sockets.
LEMMA OwnersSuffice ==
    ASSUME TypeOK, QuietInv, Undisturbed, Running, npc = "cmdline",
           \A s \in locals : ~Ownerless(s)
    PROVE  Cardinality(locals) <= Len(tcpudp_pid)
<1>1. PICK e : /\ Lists(e)
               /\ \A d \in Visible \X Fd : fds[d[1]][d[2]] \in inodes =>
                      \E i \in DOMAIN tcpudp_pid : e[i] = d
               /\ \A i, j \in DOMAIN tcpudp_pid : e[i] = e[j] => i = j
  BY ScanOver
<1>2. Columns /\ lingering = Unheld(fds)
  BY DEF QuietInv, QuietSystem, Undisturbed
<1>3. locals = Column /\ inodes = Column \ lingering
  BY <1>2 DEF Columns
<1>4. ASSUME NEW s \in locals
      PROVE  \E i \in DOMAIN tcpudp_pid : fds[e[i][1]][e[i][2]] = s
  <2>1. PICK p \in Visible, f \in Fd : fds[p][f] = s
    BY DEF Ownerless, Holds
  <2>2. s \notin lingering
    BY <1>2, <2>1, Numbers DEF Unheld, Holds
  <2>3. s \in inodes
    BY <1>3, <2>2
  <2> DEFINE d == <<p, f>>
  <2>4. d \in Visible \X Fd /\ d[1] = p /\ d[2] = f
    OBVIOUS
  <2>5. PICK i \in DOMAIN tcpudp_pid : e[i] = d
    BY <1>1, <2>1, <2>3, <2>4
  <2>6. QED BY <2>1, <2>4, <2>5
<1> DEFINE g == [s \in locals |->
                    CHOOSE i \in DOMAIN tcpudp_pid : fds[e[i][1]][e[i][2]] = s]
<1>5. \A s \in locals :
         g[s] \in DOMAIN tcpudp_pid /\ fds[e[g[s]][1]][e[g[s]][2]] = s
  BY <1>4
<1>6. g \in [locals -> DOMAIN tcpudp_pid]
  BY <1>5
<1> HIDE DEF g
<1>7. \A s, t \in locals : g[s] = g[t] => s = t
  BY <1>5
<1>8. Cardinality(locals) <= Cardinality(DOMAIN tcpudp_pid)
  BY <1>6, <1>7, OwnerPlaces, NoLarger
<1>9. QED BY <1>8, OwnerPlaces

\* vector::at throws only when the owners are fewer than the sockets.
LEMMA AbortHasReason ==
    ASSUME TypeOK, QuietInv, PrintAborts, Running, Undisturbed
    PROVE  \E s \in locals : Ownerless(s)
<1>1. npc = "cmdline" /\ ~MoreOwners
  BY DEF PrintAborts, At
<1>2. PICK i \in Positions : Throws(i)
  BY DEF PrintAborts
<1>3. locals = Column /\ remotes = Column
  BY <1>1 DEF QuietInv, Columns
<1>4. IsFiniteSet(locals)
  BY ScanTypes, NetstatAssumption, FS_Subset
<1>5. Cardinality(locals) \in Nat
  BY <1>4, FS_CardinalityType
<1>6. i \in 1..Cardinality(locals)
  BY DEF Positions
<1>7. ~(i <= ncmd)
  BY <1>2, <1>3, <1>5, <1>6 DEF Throws
<1>8. ncmd \in Nat /\ Len(tcpudp_pid) \in Nat /\ ncmd = Len(tcpudp_pid)
  <2>1. ncmd \in 0..Len(tcpudp_pid) /\ Len(tcpudp_pid) \in Nat
    BY OwnerPlaces DEF TypeOK
  <2>2. QED BY <1>1, <2>1 DEF MoreOwners
<1>9. ~(Cardinality(locals) <= Len(tcpudp_pid))
  BY <1>5, <1>6, <1>7, <1>8
<1>10. QED BY <1>1, <1>9, OwnersSuffice

\* The process whose command line is read next is one the tool can see, and
\* holds a listed socket.
LEMMA NextOwner ==
    ASSUME TypeOK, QuietInv, Undisturbed, Running, npc = "cmdline", MoreOwners
    PROVE  /\ tcpudp_pid[ncmd + 1] \in Visible
           /\ \E s \in inodes : Holds(fds, tcpudp_pid[ncmd + 1], s)
<1>1. PICK e : Lists(e)
  BY ScanOver
<1>2. ncmd + 1 \in DOMAIN tcpudp_pid
  <2>1. ncmd \in 0..Len(tcpudp_pid) /\ ncmd < Len(tcpudp_pid)
    BY DEF TypeOK, MoreOwners
  <2>2. QED BY <2>1, OwnerPlaces
<1>3. /\ e[ncmd + 1] \in Visible \X Fd /\ tcpudp_pid[ncmd + 1] = e[ncmd + 1][1]
      /\ fds[e[ncmd + 1][1]][e[ncmd + 1][2]] \in inodes
  BY <1>1, <1>2 DEF Lists, Found
<1>4. QED BY <1>3 DEF Holds

\* Each failing step of the tool, and its reason.
LEMMA ToolFails ==
    ASSUME TypeOK, QuietInv, Tool
    PROVE  FailsForAReason'
<1>1. UNCHANGED system /\ Running
  BY QuietBefore
<1>2. CASE PassFails
  <2>1. UNCHANGED <<todo, nfds>> /\ outcome' = "exit"
    BY <1>2 DEF PassFails, At, Fail
  <2>2. ~CanOpen' \/ Head(todo') \in Missing
    BY <1>2, <2>1 DEF PassFails, CanRead, CanOpen
  <2>3. QED BY <2>1, <2>2 DEF FailsForAReason, Undisturbed
<1>3. CASE LinkGone
  <2>1. UNCHANGED <<changes, overlooked, nfds>>
    BY <1>1, <1>3 DEF LinkGone, Fail, system
  <2>2. npc = "dirs" /\ \E f \in dirents : fds[pid][f] = Shut
    BY <1>3 DEF LinkGone, At, First
  <2>3. ~Undisturbed
    BY <1>1, <2>2 DEF QuietInv, Ahead
  <2>4. ~Undisturbed'
    BY <2>1, <2>3 DEF Undisturbed, CanOpen
  <2>5. QED BY <2>4 DEF FailsForAReason
<1>4. CASE CmdlineFails
  <2>1. UNCHANGED <<changes, overlooked, nfds>>
    BY <1>1, <1>4 DEF CmdlineFails, Fail, system
  <2>2. tcpudp_pid[ncmd + 1] \in Pid
    <3>1. tcpudp_pid \in Seq(Pid) /\ ncmd \in 0..Len(tcpudp_pid)
      BY DEF TypeOK
    <3>2. ncmd < Len(tcpudp_pid)
      BY <1>4 DEF CmdlineFails, MoreOwners
    <3>3. QED BY <3>1, <3>2
  <2> DEFINE p == tcpudp_pid[ncmd + 1]
  <2>3. \/ status[p] \in {"gone", "zombie"} \/ ~CanOpen
        \/ status[p] = "nameless" /\ outcome' = "exit"
    BY <1>4 DEF CmdlineFails, Fail
  <2>4. CASE ~Undisturbed
    <3>1. ~Undisturbed'
      BY <2>1, <2>4 DEF Undisturbed, CanOpen
    <3>2. QED BY <3>1 DEF FailsForAReason
  <2>5. CASE Undisturbed
    <3>1. status[p] = "nameless" /\ outcome' = "exit"
      BY <2>2, <2>3, <2>5 DEF QuietInv, QuietSystem, Undisturbed, Lives
    <3>2. p \in Visible /\ \E s \in inodes : Holds(fds, p, s)
      BY <1>1, <1>4, <2>5, NextOwner DEF CmdlineFails, At
    <3>3. UNCHANGED <<status, fds, inodes>>
      BY <1>1, <1>4 DEF CmdlineFails, Fail, system, vectors
    <3>4. PICK s \in inodes : Holds(fds, p, s)
      BY <3>2
    <3>5. Holds(fds', p, s) /\ s \in inodes' /\ status'[p] = "nameless"
      BY <3>1, <3>3, <3>4 DEF Holds
    <3>6. QED BY <3>1, <3>2, <3>5 DEF FailsForAReason
  <2>6. QED BY <2>4, <2>5
<1>5. CASE PrintAborts
  <2>1. UNCHANGED <<changes, overlooked, nfds, locals, fds>> /\ outcome' = "aborted"
    BY <1>1, <1>5 DEF PrintAborts, system
  <2>2. Undisturbed' <=> Undisturbed
    BY <2>1 DEF Undisturbed, CanOpen
  <2>3. Undisturbed => \E s \in locals : Ownerless(s)
    BY <1>1, <1>5, AbortHasReason
  <2>4. (\E s \in locals : Ownerless(s)) => (\E s \in locals : Ownerless(s))'
    BY <2>1 DEF Ownerless, Holds
  <2>5. QED BY <2>1, <2>2, <2>3, <2>4 DEF FailsForAReason
<1>6. CASE PrintTable
  <2>1. outcome' \in {"ok", ""}
    BY <1>6 DEF PrintTable
  <2>2. QED BY <2>1 DEF FailsForAReason
<1>7. CASE \/ ReadInodes \/ ReadLocals \/ ReadRemotes \/ SearchPid \/ OpenDir
           \/ ReadLink \/ AllSearched \/ ReadCmdline
  <2>1. outcome' = ""
    BY <1>1, <1>7 DEF ReadInodes, ReadLocals, ReadRemotes, Pass, SearchPid, OpenDir,
                      ReadLink, AllSearched, ReadCmdline, Running
  <2>2. QED BY <2>1 DEF FailsForAReason
<1>8. QED
  BY <1>2, <1>3, <1>4, <1>5, <1>6, <1>7 DEF Tool

\* The tool exits, crashes or aborts only after a change of the system, at the
\* limit of descriptors, after a misread link, for want of a table, or for a
\* socket whose owner has no command line or is not to be seen.
THEOREM FailuresHaveReasons == Spec => []FailsForAReason
<1>1. Init => FailsForAReason
  BY DEF Init, FailsForAReason
<1>2. ASSUME TypeOK, QuietInv, FailsForAReason, [Next]_vars PROVE FailsForAReason'
  <2>1. CASE UNCHANGED vars
    BY <1>2, <2>1 DEF vars, system, vectors, FailsForAReason, Undisturbed, CanOpen,
                      Ownerless, Holds
  <2>2. CASE System
    <3>1. outcome' = ""
      BY <2>2 DEF System, Die, Close, Open, Changing
    <3>2. QED BY <3>1 DEF FailsForAReason
  <2>3. QED BY <1>2, <2>1, <2>2, ToolFails DEF Next, Ended
<1>3. QED BY <1>1, <1>2, QuietAlways, PTL DEF Spec

-----------------------------------------------------------------------------
(* The table printed of a quiet system.                                    *)

\* Numbers counted off in their order come out at their places.
LEMMA PlaceIsRank ==
    ASSUME NEW C, C \subseteq Nat, IsFiniteSet(C), NEW n \in Nat, NEW k \in [C -> 1..n],
           \A s, t \in C : s < t => k[s] < k[t],
           \A j \in 1..n : \E s \in C : k[s] = j,
           NEW s \in C
    PROVE  Place(C, s) = k[s]
<1> DEFINE below == {t \in C : t <= s}
           h == [t \in below |-> k[t]]
<1>1. k[s] \in Nat /\ 1 <= k[s] /\ k[s] <= n
  OBVIOUS
<1>2. \A t \in C : k[t] \in Nat /\ k[t] >= 1 /\ t \in Nat
  OBVIOUS
<1>3. \A t, u \in C : k[t] = k[u] => t = u
  <2>1. ASSUME NEW t \in C, NEW u \in C, k[t] = k[u] PROVE t = u
    <3>1. ~(t < u) /\ ~(u < t)
      BY <1>2, <2>1
    <3>2. QED BY <1>2, <3>1
  <2>2. QED BY <2>1
<1>4. \A t \in below : k[t] \in 1..k[s]
  <2>1. ASSUME NEW t \in C, t <= s PROVE k[t] <= k[s]
    <3>1. t < s \/ t = s
      BY <1>2, <2>1
    <3>2. QED BY <1>1, <1>2, <3>1
  <2>2. QED BY <1>1, <1>2, <2>1
<1>5. h \in [below -> 1..k[s]]
  BY <1>4
<1>6. \A t, u \in below : h[t] = h[u] => t = u
  BY <1>3
<1>7. ASSUME NEW j \in 1..k[s] PROVE \E t \in below : h[t] = j
  <2>1. j \in 1..n
    BY <1>1
  <2>2. PICK t \in C : k[t] = j
    BY <2>1
  <2>3. ~(s < t)
    BY <1>1, <2>2
  <2>4. t \in below
    BY <1>2, <2>3
  <2>5. QED BY <2>2, <2>4
<1>8. IsFiniteSet(below)
  BY FS_Subset
<1> DEFINE places == 1..k[s]
<1>9. /\ h \in [below -> places] /\ \A t, u \in below : h[t] = h[u] => t = u
      /\ \A j \in places : \E t \in below : h[t] = j
  BY <1>5, <1>6, <1>7
<1>10. Cardinality(places) = k[s]
  BY <1>1, CountTo
<1> HIDE DEF below, h, places
<1>11. Cardinality(places) = Cardinality(below)
  BY <1>8, <1>9, SameSize
<1>12. QED BY <1>10, <1>11 DEF Place, below

\* Each socket of an aligned table has one visible descriptor.
LEMMA OneDescriptor ==
    ASSUME Aligned, NEW s \in Column
    PROVE  \E d \in Visible \X Fd : \A c \in Visible \X Fd : fds[c[1]][c[2]] = s <=> c = d
<1> DEFINE D == {d \in Visible \X Fd : fds[d[1]][d[2]] = s}
<1>1. IsFiniteSet(Visible \X Fd)
  <2>1. IsFiniteSet(Pid) /\ IsFiniteSet(Fd) /\ Visible \in SUBSET Pid
    BY NetstatAssumption
  <2>2. IsFiniteSet(Visible)
    BY <2>1, FS_Subset
  <2>3. QED BY <2>1, <2>2, FS_Product
<1>2. D \in SUBSET (Visible \X Fd) /\ Cardinality(D) = 1
  BY DEF Aligned
<1> HIDE DEF D
<1>3. IsFiniteSet(D)
  BY <1>1, <1>2, FS_Subset
<1>4. PICK d : D = {d}
  BY <1>2, <1>3, FS_Singleton
<1>5. \A c \in Visible \X Fd : fds[c[1]][c[2]] = s <=> c = d
  BY <1>4 DEF D
<1>6. d \in Visible \X Fd
  BY <1>2, <1>4
<1>7. QED BY <1>5, <1>6

\* k is the place at which the owner of a socket is entered: places follow the
\* order of the sockets.
Entries(k) ==
    /\ k \in [Column -> DOMAIN tcpudp_pid]
    /\ \A s, t \in Column : s < t => k[s] < k[t]
    /\ \A j \in DOMAIN tcpudp_pid : \E s \in Column : k[s] = j
    /\ \A s \in Column, p \in Pid : Owns(p, s) <=> p = tcpudp_pid[k[s]]

\* In an aligned table the sockets have such places.
LEMMA AlignedEntries ==
    ASSUME TypeOK, QuietInv, Undisturbed, Running, npc = "cmdline", Aligned
    PROVE  \E k : Entries(k)
<1>1. PICK e : /\ Lists(e)
               /\ \A d \in Visible \X Fd : fds[d[1]][d[2]] \in inodes =>
                      \E i \in DOMAIN tcpudp_pid : e[i] = d
               /\ \A i, j \in DOMAIN tcpudp_pid : e[i] = e[j] => i = j
  BY ScanOver
<1>2. \A i \in DOMAIN tcpudp_pid :
         /\ e[i] \in Visible \X Fd /\ tcpudp_pid[i] = e[i][1]
         /\ fds[e[i][1]][e[i][2]] \in inodes
  BY <1>1 DEF Lists, Found
<1>3. Columns /\ lingering = Unheld(fds)
  BY DEF QuietInv, QuietSystem, Undisturbed
<1>4. inodes = Column \ lingering
  BY <1>3 DEF Columns
<1>5. \A s \in Column : s \in inodes
  <2>1. ASSUME NEW s \in Column PROVE s \notin lingering
    <3>1. PICK d \in Visible \X Fd : fds[d[1]][d[2]] = s
      BY OneDescriptor
    <3>2. d[1] \in Pid /\ d[2] \in Fd
      BY Numbers
    <3>3. QED BY <1>3, <3>1, <3>2 DEF Unheld, Holds
  <2>2. QED BY <1>4, <2>1
<1>6. ASSUME NEW s \in Column
      PROVE  \E i \in DOMAIN tcpudp_pid : fds[e[i][1]][e[i][2]] = s
  <2>1. PICK d \in Visible \X Fd : fds[d[1]][d[2]] = s
    BY OneDescriptor
  <2>2. PICK i \in DOMAIN tcpudp_pid : e[i] = d
    BY <1>1, <1>5, <2>1
  <2>3. QED BY <2>1, <2>2
<1> DEFINE k == [s \in Column |-> CHOOSE i \in DOMAIN tcpudp_pid : fds[e[i][1]][e[i][2]] = s]
<1>7. \A s \in Column : k[s] \in DOMAIN tcpudp_pid /\ fds[e[k[s]][1]][e[k[s]][2]] = s
  BY <1>6
<1>8. k \in [Column -> DOMAIN tcpudp_pid]
  BY <1>7
<1> HIDE DEF k
<1>9. \A s \in Column, c \in Visible \X Fd : fds[c[1]][c[2]] = s => c = e[k[s]]
  <2>1. ASSUME NEW s \in Column, NEW c \in Visible \X Fd, fds[c[1]][c[2]] = s
        PROVE  c = e[k[s]]
    <3>1. e[k[s]] \in Visible \X Fd /\ fds[e[k[s]][1]][e[k[s]][2]] = s
      BY <1>2, <1>7
    <3>2. QED BY <2>1, <3>1, OneDescriptor
  <2>2. QED BY <2>1
<1>10. \A j \in DOMAIN tcpudp_pid : \E s \in Column : k[s] = j
  <2>1. ASSUME NEW j \in DOMAIN tcpudp_pid PROVE \E s \in Column : k[s] = j
    <3>1. PICK s \in Column : fds[e[j][1]][e[j][2]] = s
      BY <1>2, <1>4
    <3>2. e[j] = e[k[s]]
      BY <1>2, <1>9, <3>1
    <3>3. k[s] = j
      BY <1>1, <1>7, <3>2
    <3>4. QED BY <3>3
  <2>2. QED BY <2>1
<1>11. ASSUME NEW s \in Column, NEW t \in Column, s < t PROVE k[s] < k[t]
  <2>1. PICK p \in Visible, q \in Visible, f \in Fd, g \in Fd :
          /\ fds[p][f] = s /\ fds[q][g] = t
          /\ p < q \/ (p = q /\ f < g)
    BY <1>11 DEF Aligned, Before
  <2> DEFINE c == <<p, f>>
             d == <<q, g>>
  <2>2. /\ c \in Visible \X Fd /\ c[1] = p /\ c[2] = f
        /\ d \in Visible \X Fd /\ d[1] = q /\ d[2] = g
    OBVIOUS
  <2>3. c = e[k[s]] /\ d = e[k[t]]
    BY <1>9, <2>1, <2>2
  <2>4. p \in Nat /\ q \in Nat /\ f \in Nat /\ g \in Nat
    BY Numbers
  <2>5. ~Lex(d, c) /\ c # d
    BY <2>1, <2>2, <2>4 DEF Lex
  <2>6. k[s] \in DOMAIN tcpudp_pid /\ k[t] \in DOMAIN tcpudp_pid
    BY <1>7
  <2>7. ~(k[t] < k[s]) /\ k[s] # k[t]
    BY <1>1, <2>3, <2>5, <2>6 DEF Lists
  <2>8. k[s] \in Nat /\ k[t] \in Nat
    BY <2>6, OwnerPlaces
  <2>9. QED BY <2>7, <2>8
<1>12. ASSUME NEW s \in Column, NEW p \in Pid PROVE Owns(p, s) <=> p = tcpudp_pid[k[s]]
  <2>1. /\ k[s] \in DOMAIN tcpudp_pid /\ e[k[s]] \in Visible \X Fd
        /\ fds[e[k[s]][1]][e[k[s]][2]] = s /\ tcpudp_pid[k[s]] = e[k[s]][1]
    BY <1>2, <1>7
  <2>2. ASSUME Owns(p, s) PROVE p = e[k[s]][1]
    <3>1. PICK f \in Fd : fds[p][f] = s
      BY <2>2 DEF Owns, Holds
    <3> DEFINE c == <<p, f>>
    <3>2. c \in Visible \X Fd /\ c[1] = p /\ c[2] = f
      BY <2>2 DEF Owns
    <3>3. c = e[k[s]]
      BY <1>9, <3>1, <3>2
    <3>4. QED BY <3>2, <3>3
  <2>3. ASSUME p = e[k[s]][1] PROVE Owns(p, s)
    BY <2>1, <2>3 DEF Owns, Holds
  <2>4. QED BY <2>1, <2>2, <2>3
<1>13. QED BY <1>8, <1>10, <1>11, <1>12 DEF Entries

\* The join by position pairs each socket with itself and its owner.
LEMMA TableTrue ==
    ASSUME TypeOK, QuietInv, PrintTable, Undisturbed, Running, Aligned
    PROVE  rows' = {r \in Row : /\ r.local \in Column /\ r.remote = r.local
                                /\ Owns(r.pid, r.local) /\ r.pid \in filter}
<1>1. npc = "cmdline" /\ rows' = Printed(Cardinality(locals))
  BY DEF PrintTable
<1>2. PICK k : Entries(k)
  BY <1>1, AlignedEntries
<1>3. locals = Column /\ remotes = Column
  BY <1>1 DEF QuietInv, Columns
<1>4. Column \subseteq Sock /\ Column \subseteq Nat /\ IsFiniteSet(Column)
  BY ScanTypes, Numbers, NetstatAssumption, FS_Subset DEF Column
<1>5. Len(tcpudp_pid) \in Nat /\ DOMAIN tcpudp_pid = 1..Len(tcpudp_pid)
  BY OwnerPlaces
<1>6. /\ k \in [Column -> 1..Len(tcpudp_pid)]
      /\ \A s, t \in Column : s < t => k[s] < k[t]
      /\ \A j \in 1..Len(tcpudp_pid) : \E s \in Column : k[s] = j
  BY <1>2, <1>5 DEF Entries
<1>7. \A s \in Column : Place(Column, s) = k[s]
  BY <1>4, <1>5, <1>6, PlaceIsRank
<1>8. \A s, t \in Column : k[s] = k[t] => s = t
  <2>1. ASSUME NEW s \in Column, NEW t \in Column, k[s] = k[t] PROVE s = t
    <3>1. s \in Nat /\ t \in Nat /\ k[s] \in Nat /\ k[t] \in Nat
      BY <1>4, <1>5, <1>6
    <3>2. ~(s < t) /\ ~(t < s)
      BY <1>6, <2>1, <3>1
    <3>3. QED BY <3>1, <3>2
  <2>2. QED BY <2>1
<1>9. \A s \in Column : k[s] <= Cardinality(Column)
  <2>1. ASSUME NEW s \in Column PROVE k[s] <= Cardinality(Column)
    <3> DEFINE below == {t \in Column : t <= s}
    <3>1. Cardinality(below) = k[s]
      BY <1>7 DEF Place
    <3>2. Cardinality(below) <= Cardinality(Column)
      BY <1>4, FS_Subset
    <3>3. QED BY <3>1, <3>2
  <2>2. QED BY <2>1
<1>10. ASSUME NEW r
       PROVE  r \in Printed(Cardinality(locals)) <=>
                 r \in {x \in Row : /\ x.local \in Column /\ x.remote = x.local
                                    /\ Owns(x.pid, x.local) /\ x.pid \in filter}
  <2>1. r \in Printed(Cardinality(locals)) <=>
           /\ r \in [local : Column, remote : Column, pid : Pid]
           /\ Place(Column, r.local) <= Cardinality(Column)
           /\ Place(Column, r.local) = Place(Column, r.remote)
           /\ Place(Column, r.local) \in DOMAIN tcpudp_pid
           /\ r.pid = tcpudp_pid[Place(Column, r.local)]
           /\ tcpudp_pid[Place(Column, r.local)] \in filter
    BY <1>3 DEF Printed, Matches
  <2>2. CASE r \in [local : Column, remote : Column, pid : Pid]
    <3>1. r.local \in Column /\ r.remote \in Column /\ r.pid \in Pid /\ r \in Row
      BY <1>4, <2>2 DEF Row
    <3>2. Place(Column, r.local) = k[r.local] /\ Place(Column, r.remote) = k[r.remote]
      BY <1>7, <3>1
    <3>3. Owns(r.pid, r.local) <=> r.pid = tcpudp_pid[k[r.local]]
      BY <1>2, <3>1 DEF Entries
    <3>4. k[r.local] \in DOMAIN tcpudp_pid
      BY <1>5, <1>6, <3>1
    <3>5. k[r.local] = k[r.remote] <=> r.remote = r.local
      BY <1>8, <3>1
    <3>6. k[r.local] <= Cardinality(Column)
      BY <1>9, <3>1
    <3>7. QED BY <2>1, <2>2, <3>1, <3>2, <3>3, <3>4, <3>5, <3>6
  <2>3. CASE r \notin [local : Column, remote : Column, pid : Pid]
    <3>1. ~(r \in Row /\ r.local \in Column /\ r.remote = r.local)
      BY <2>3 DEF Row
    <3>2. QED BY <2>1, <2>3, <3>1
  <2>4. QED BY <2>2, <2>3
<1>11. QED BY <1>1, <1>10

\* In a system that does not change, where every socket of the table has one
\* descriptor the tool can see and the descriptors come in the order of the
\* sockets, the table printed is the truth: the matching sockets, each with its
\* own two addresses and its owner.
THEOREM PrintedIsTrue == Spec => PrintsOwners
<1>1. TypeOK /\ QuietInv /\ [Next]_vars =>
        [PrintTable /\ Undisturbed /\ Aligned =>
            rows' = {r \in Row : /\ r.local \in Column /\ r.remote = r.local
                                 /\ Owns(r.pid, r.local) /\ r.pid \in filter}]_vars
  <2>1. PrintTable => Running
    BY DEF PrintTable, Running
  <2>2. QED BY <2>1, TableTrue
<1>2. QED BY <1>1, QuietAlways, PTL DEF Spec, PrintsOwners

-----------------------------------------------------------------------------
(* The tool advances.                                                      *)

\* The order of the numbers, as a set of pairs.
Less == {d \in Nat \X Nat : d[1] < d[2]}

\* First a number, then what R orders.
Then(R, S) == LexPairOrdering(Less, R, Nat, S)

\* The measures: two to five numbers, compared from the left.
Pairs == Nat \X Nat
Triples == Nat \X Pairs
Fours == Nat \X Triples
Fives == Nat \X Fours

OnPairs == Then(Less, Nat)
OnTriples == Then(OnPairs, Pairs)
OnFours == Then(OnTriples, Triples)
Sooner == Then(OnFours, Fours)

\* There is no infinite descent.
LEMMA SoonerWellFounded == IsWellFoundedOn(Sooner, Fives)
<1>1. IsWellFoundedOn(Less, Nat)
  BY NatLessThanWellFounded DEF Less, OpToRel
<1>2. \A R, S : IsWellFoundedOn(R, S) => IsWellFoundedOn(Then(R, S), Nat \X S)
  BY <1>1, WFLexPairOrdering DEF Then
<1>3. IsWellFoundedOn(OnPairs, Pairs)
  BY <1>1, <1>2 DEF OnPairs, Pairs
<1>4. IsWellFoundedOn(OnTriples, Triples)
  BY <1>2, <1>3 DEF OnTriples, Triples
<1>5. IsWellFoundedOn(OnFours, Fours)
  BY <1>2, <1>4 DEF OnFours, Fours
<1>6. QED BY <1>2, <1>5 DEF Sooner, Fives

\* A smaller first number, or the same one and a smaller rest.
LEMMA ThenLess ==
    ASSUME NEW R, NEW S, NEW a \in Nat, NEW b \in Nat, NEW c \in S, NEW d \in S,
           a < b \/ (a = b /\ <<c, d>> \in R)
    PROVE  <<<<a, c>>, <<b, d>>>> \in Then(R, S)
<1> DEFINE p == <<a, c>>
           q == <<b, d>>
           pq == <<p, q>>
<1>1. /\ p \in Nat \X S /\ p[1] = a /\ p[2] = c
      /\ q \in Nat \X S /\ q[1] = b /\ q[2] = d
  OBVIOUS
<1>2. a < b => <<a, b>> \in Less
  BY DEF Less
<1> HIDE DEF p, q
<1>3. pq \in (Nat \X S) \X (Nat \X S) /\ pq[1] = p /\ pq[2] = q
  BY <1>1
<1> HIDE DEF pq
<1>4. <<pq[1][1], pq[2][1]>> \in Less \/ (pq[1][1] = pq[2][1] /\ <<pq[1][2], pq[2][2]>> \in R)
  BY <1>1, <1>2, <1>3
<1>5. pq \in Then(R, S)
  BY <1>3, <1>4 DEF Then, LexPairOrdering
<1>6. QED BY <1>5 DEF p, q, pq

\* A finite set without one of its members is smaller.
LEMMA OneLess ==
    ASSUME NEW S, IsFiniteSet(S), NEW x \in S
    PROVE  Cardinality(S \ {x}) < Cardinality(S)
<1>1. Cardinality(S \ {x}) = Cardinality(S) - 1
  BY FS_RemoveElement
<1>2. Cardinality(S) \in Nat
  BY FS_CardinalityType
<1>3. QED BY <1>1, <1>2

\* What the tool has still to do: families, phases, processes, entries of the
\* directory and command lines.
PhasesLeft ==
    IF npc = "inodes" THEN 5 ELSE IF npc = "locals" THEN 4 ELSE IF npc = "remotes" THEN 3
    ELSE IF npc = "pids" THEN 2 ELSE IF npc = "dirs" THEN 1 ELSE 0

FamiliesLeft == IF Running THEN Len(todo) ELSE 0

OwnersLeft == Len(tcpudp_pid) - ncmd

Work == <<FamiliesLeft, <<PhasesLeft,
            <<Cardinality(pids), <<Cardinality(dirents), OwnersLeft>>>>>>>>

\* What is left is counted by numbers; while the tool runs a family is left.
Counts ==
    /\ FamiliesLeft \in Nat /\ PhasesLeft \in Nat /\ OwnersLeft \in Nat
    /\ IsFiniteSet(pids) /\ IsFiniteSet(dirents)
    /\ Cardinality(pids) \in Nat /\ Cardinality(dirents) \in Nat
    /\ Running => FamiliesLeft = Len(todo) /\ Len(todo) \in Nat \ {0}

\* The types of the tool make them numbers.
LEMMA WorkCounts == TypeOK => Counts
<1> SUFFICES ASSUME TypeOK PROVE Counts
  OBVIOUS
<1>1. todo \in Seq(Kinds) /\ (Running => todo # <<>>)
  BY DEF TypeOK, Running
<1>2. Len(todo) \in Nat /\ (Running => Len(todo) # 0)
  BY <1>1
<1>3. ncmd \in 0..Len(tcpudp_pid) /\ Len(tcpudp_pid) \in Nat
  BY OwnerPlaces DEF TypeOK
<1>4. OwnersLeft \in Nat
  BY <1>3 DEF OwnersLeft
<1>5. IsFiniteSet(pids) /\ IsFiniteSet(dirents)
  <2>1. IsFiniteSet(Pid) /\ IsFiniteSet(Fd)
    BY NetstatAssumption
  <2>2. QED BY <2>1, ScanTypes, FS_Subset
<1>6. Cardinality(pids) \in Nat /\ Cardinality(dirents) \in Nat
  BY <1>5, FS_CardinalityType
<1>7. PhasesLeft \in Nat
  BY DEF PhasesLeft
<1>8. FamiliesLeft \in Nat /\ (Running => FamiliesLeft = Len(todo))
  BY <1>2 DEF FamiliesLeft
<1>9. QED BY <1>2, <1>4, <1>5, <1>6, <1>7, <1>8 DEF Counts

\* One of the numbers falls and those before it stay.
LEMMA LessWork ==
    ASSUME Counts, Counts',
           \/ FamiliesLeft' < FamiliesLeft
           \/ /\ FamiliesLeft' = FamiliesLeft
              /\ \/ PhasesLeft' < PhasesLeft
                 \/ /\ PhasesLeft' = PhasesLeft
                    /\ \/ Cardinality(pids') < Cardinality(pids)
                       \/ /\ pids' = pids
                          /\ \/ Cardinality(dirents') < Cardinality(dirents)
                             \/ dirents' = dirents /\ OwnersLeft' < OwnersLeft
    PROVE  <<Work', Work>> \in Sooner
<1> DEFINE w1 == <<Cardinality(dirents), OwnersLeft>>
           w2 == <<Cardinality(pids), w1>>
           w3 == <<PhasesLeft, w2>>
<1>1. /\ FamiliesLeft \in Nat /\ PhasesLeft \in Nat /\ OwnersLeft \in Nat
      /\ Cardinality(pids) \in Nat /\ Cardinality(dirents) \in Nat
      /\ FamiliesLeft' \in Nat /\ PhasesLeft' \in Nat /\ OwnersLeft' \in Nat
      /\ Cardinality(pids') \in Nat /\ Cardinality(dirents') \in Nat
  BY DEF Counts
<1>2. w1 \in Pairs /\ w1' \in Pairs /\ w2 \in Triples /\ w2' \in Triples
      /\ w3 \in Fours /\ w3' \in Fours
  BY <1>1 DEF Pairs, Triples, Fours
<1>3. OwnersLeft' < OwnersLeft => <<OwnersLeft', OwnersLeft>> \in Less
  BY <1>1 DEF Less
<1>4. Cardinality(dirents') < Cardinality(dirents) \/ (dirents' = dirents /\ OwnersLeft' < OwnersLeft)
        => <<w1', w1>> \in OnPairs
  BY <1>1, <1>3, ThenLess DEF OnPairs
<1> HIDE DEF w1
<1>5. Cardinality(pids') < Cardinality(pids) \/ (pids' = pids /\ <<w1', w1>> \in OnPairs)
        => <<w2', w2>> \in OnTriples
  BY <1>1, <1>2, ThenLess DEF OnTriples
<1> HIDE DEF w2
<1>6. PhasesLeft' < PhasesLeft \/ (PhasesLeft' = PhasesLeft /\ <<w2', w2>> \in OnTriples)
        => <<w3', w3>> \in OnFours
  BY <1>1, <1>2, ThenLess DEF OnFours
<1> HIDE DEF w3
<1>7. FamiliesLeft' < FamiliesLeft \/ (FamiliesLeft' = FamiliesLeft /\ <<w3', w3>> \in OnFours)
        => <<<<FamiliesLeft', w3'>>, <<FamiliesLeft, w3>>>> \in Sooner
  BY <1>1, <1>2, ThenLess DEF Sooner
<1>8. Work = <<FamiliesLeft, w3>>
  BY DEF Work, w1, w2, w3
<1>9. Work' = <<FamiliesLeft', w3'>>
  BY DEF Work, w1, w2, w3
<1>10. QED BY <1>4, <1>5, <1>6, <1>7, <1>8, <1>9

\* Each step of the tool lowers one of them and leaves those before it.
LEMMA ToolWorks ==
    ASSUME TypeOK, Counts, Counts', Tool
    PROVE  <<Work', Work>> \in Sooner
<1>1. Running /\ FamiliesLeft = Len(todo) /\ Len(todo) \in Nat \ {0}
  BY QuietBefore DEF Counts
<1>2. ASSUME ~Running' PROVE FamiliesLeft' < FamiliesLeft
  BY <1>1, <1>2 DEF FamiliesLeft
<1>3. ASSUME UNCHANGED <<outcome, todo>> PROVE FamiliesLeft' = FamiliesLeft
  BY <1>3 DEF FamiliesLeft, Running
<1>4. CASE ReadInodes \/ ReadLocals \/ ReadRemotes \/ SearchPid \/ AllSearched
  <2>1. UNCHANGED <<outcome, todo>>
    BY <1>4 DEF ReadInodes, ReadLocals, ReadRemotes, SearchPid, AllSearched, Pass, At
  <2>2. \/ npc = "inodes" /\ npc' = "locals"
        \/ npc = "locals" /\ npc' = "remotes"
        \/ npc = "remotes" /\ npc' = "pids"
        \/ npc = "pids" /\ npc' = "dirs"
        \/ npc = "dirs" /\ npc' = "cmdline"
    BY <1>4 DEF ReadInodes, ReadLocals, ReadRemotes, SearchPid, AllSearched, Pass, At
  <2>3. PhasesLeft' < PhasesLeft
    BY <2>2 DEF PhasesLeft
  <2>4. QED BY <1>3, <2>1, <2>3, LessWork
<1>5. CASE PassFails \/ LinkGone \/ CmdlineFails \/ PrintAborts
  <2>1. ~Running'
    BY <1>5 DEF PassFails, LinkGone, CmdlineFails, PrintAborts, Fail, Running
  <2>2. QED BY <1>2, <2>1, LessWork
<1>6. CASE OpenDir
  <2>1. UNCHANGED <<outcome, todo, npc>>
    BY <1>6 DEF OpenDir, At
  <2>2. PICK p \in pids : pids' = pids \ {p}
    BY <1>6 DEF OpenDir, First, Others
  <2>3. Cardinality(pids') < Cardinality(pids)
    BY <2>2, OneLess DEF Counts
  <2>4. PhasesLeft' = PhasesLeft
    BY <2>1 DEF PhasesLeft
  <2>5. QED BY <1>3, <2>1, <2>3, <2>4, LessWork
<1>7. CASE ReadLink
  <2>1. UNCHANGED <<outcome, todo, npc, pids>>
    BY <1>7 DEF ReadLink, At
  <2>2. PICK f \in dirents : dirents' = dirents \ {f}
    BY <1>7 DEF ReadLink, First
  <2>3. Cardinality(dirents') < Cardinality(dirents)
    BY <2>2, OneLess DEF Counts
  <2>4. PhasesLeft' = PhasesLeft
    BY <2>1 DEF PhasesLeft
  <2>5. QED BY <1>3, <2>1, <2>3, <2>4, LessWork
<1>8. CASE ReadCmdline
  <2>1. UNCHANGED <<outcome, todo, npc, pids, dirents, tcpudp_pid>> /\ ncmd' = ncmd + 1
    BY <1>8 DEF ReadCmdline, At
  <2>2. ncmd \in 0..Len(tcpudp_pid) /\ Len(tcpudp_pid) \in Nat
    BY OwnerPlaces DEF TypeOK
  <2>3. OwnersLeft' < OwnersLeft
    BY <2>1, <2>2 DEF OwnersLeft
  <2>4. PhasesLeft' = PhasesLeft
    BY <2>1 DEF PhasesLeft
  <2>5. QED BY <1>3, <2>1, <2>3, <2>4, LessWork
<1>9. CASE PrintTable
  <2>1. todo' = Tail(todo) /\ todo \in Seq(Kinds) /\ Len(todo) # 0
    BY <1>1, <1>9 DEF PrintTable, TypeOK
  <2>2. Len(todo') < Len(todo)
    <3>1. \A t \in Seq(Kinds) : Len(t) # 0 => Len(Tail(t)) < Len(t)
      OBVIOUS
    <3>2. QED BY <2>1, <3>1
  <2>3. FamiliesLeft' < FamiliesLeft
    BY <1>1, <2>2 DEF FamiliesLeft
  <2>4. QED BY <2>3, LessWork
<1>10. QED
  BY <1>4, <1>5, <1>6, <1>7, <1>8, <1>9 DEF Tool

\* Every step of the tool leaves less work in a well-founded order, and nothing
\* the system does meanwhile adds to it: however often processes, descriptors
\* and sockets change, no loop of the tool can be kept going by them.
THEOREM ToolAdvances ==
    /\ IsWellFoundedOn(Sooner, Fives)
    /\ Spec => [][/\ Work \in Fives
                  /\ Tool => <<Work', Work>> \in Sooner
                  /\ System => Work' = Work]_vars
<1>1. TypeOK => Work \in Fives
  BY WorkCounts DEF Counts, Work, Fives, Fours, Triples, Pairs
<1>2. System => Work' = Work
  BY DEF System, Die, Close, Open, Changing, vectors, Work, FamiliesLeft, PhasesLeft,
         OwnersLeft, Running
<1>3. TypeOK /\ Counts /\ Counts' /\ [Next]_vars =>
        [/\ Work \in Fives
         /\ Tool => <<Work', Work>> \in Sooner
         /\ System => Work' = Work]_vars
  BY <1>1, <1>2, ToolWorks
<1>4. Spec => [][/\ Work \in Fives
                 /\ Tool => <<Work', Work>> \in Sooner
                 /\ System => Work' = Work]_vars
  BY <1>3, WorkCounts, NetstatTypeCorrect, PTL DEF Spec
<1>5. QED BY <1>4, SoonerWellFounded
=============================================================================
