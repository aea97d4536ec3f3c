------------------------------- MODULE Netstat ------------------------------
(***************************************************************************)
(* The netstat clone of homework1/hw1.cpp: for each requested family of    *)
(* sockets, three passes over the kernel's table (inodes, local addresses, *)
(* remote addresses), a scan of all processes and their descriptors, one   *)
(* read of a command line per owner found, and a table printed by joining  *)
(* the columns by position.  The system goes on meanwhile.                 *)
(*                                                                         *)
(* A socket is a number; it stands for its inode and for its two           *)
(* addresses.  The kernel lists a table in the order of its hash buckets:  *)
(* sockets are numbered in that order, and a column read from the table is *)
(* the set of its sockets.  One pass over a table is one step: the kernel  *)
(* fills a page of rows at once, and the tables of the model fit a page.   *)
(***************************************************************************)
EXTENDS Integers, Sequences, FiniteSets

CONSTANTS
    Sock, Family,  \* sockets (positive numbers) and the table each is in
    Opens,         \* the sockets that may be open at the start
    Pid, Fd,       \* process ids and descriptor numbers
    Missing,       \* families the kernel has no table of (no IPv6)
    Nameless,      \* processes that may have an empty command line
    Visible,       \* processes whose descriptors the user may list
    Requests,      \* the sets of options -t, -u the user may give
    Filters,       \* the sets of processes a filter string may match
    Tails,         \* what the byte after linktype may be: {TRUE} is NUL
    MaxFiles,      \* descriptors the tool may open before EMFILE
    MaxChanges     \* bound: changes of the system during one run

Kinds == {"TCP", "TCP6", "UDP", "UDP6"}
File == 0    \* a descriptor that is no socket
Shut == -1   \* no descriptor

Target == Sock \cup {File, Shut}

ASSUME NetstatAssumption ==
    /\ Sock \subseteq Nat \ {0} /\ Family \in [Sock -> Kinds]
    /\ Pid \subseteq Nat /\ Fd \subseteq Nat
    /\ Opens \subseteq SUBSET Sock
    /\ IsFiniteSet(Sock) /\ IsFiniteSet(Pid) /\ IsFiniteSet(Fd)
    /\ Missing \subseteq Kinds /\ Nameless \subseteq Pid
    /\ Visible \subseteq Pid
    /\ Requests \subseteq SUBSET {"t", "u"}
    /\ Filters \subseteq SUBSET Pid
    /\ Tails \subseteq BOOLEAN /\ Tails # {}
    /\ MaxFiles \in Nat /\ MaxChanges \in Nat

VARIABLES
    \* the system
    open,       \* the sockets the kernel lists
    lingering,  \* sockets nobody holds any more (inode 0 in the table)
    fds,        \* what the descriptors of each process lead to
    status,     \* of each process: alive, nameless (alive, with an empty
                \* command line), zombie or gone
    changes,    \* how often the system has changed
    held,       \* history: who has held which socket
    \* the tool
    npc, todo,  \* where it is, and the families still to print
    filter,
    inodes, locals, remotes,   \* the columns read
    pids, pid, dirents,        \* processes and descriptors still to look at
    tcpudp_pid, ncmd,          \* owners, and how many command lines are read
    nfds,       \* descriptors left open
    rows,       \* what is printed of this family
    outcome,    \* "", ok, exit, crash or aborted
    overlooked  \* history: a socket link was not recognised

system == <<open, lingering, fds, status, changes, held>>
vectors == <<inodes, locals, remotes, pids, pid, dirents, tcpudp_pid, ncmd, rows>>
vars == <<system, npc, todo, filter, vectors, nfds, outcome, overlooked>>

Row == [local : Sock, remote : Sock, pid : Pid]

TypeOK ==
    /\ open \subseteq Sock /\ lingering \subseteq Sock
    /\ fds \in [Pid -> [Fd -> Target]]
    /\ status \in [Pid -> {"alive", "nameless", "zombie", "gone"}]
    /\ changes \in Nat /\ held \subseteq Pid \X Sock
    /\ npc \in {"inodes", "locals", "remotes", "pids", "dirs", "cmdline"}
    /\ todo \in Seq(Kinds) /\ filter \subseteq Pid
    /\ inodes \subseteq Sock /\ locals \subseteq Sock /\ remotes \subseteq Sock
    /\ pids \subseteq Pid /\ pid \in Pid \cup {-1} /\ dirents \subseteq Fd
    /\ dirents # {} => pid \in Pid
    /\ tcpudp_pid \in Seq(Pid) /\ ncmd \in 0..Len(tcpudp_pid)
    /\ nfds \in 0..MaxFiles
    /\ rows \subseteq Row
    /\ outcome \in {"", "ok", "exit", "crash", "aborted"}
    /\ outcome = "" => todo # <<>>
    /\ overlooked \in BOOLEAN

-----------------------------------------------------------------------------
(* The system.                                                             *)

Holds(F, p, s) == \E f \in Fd : F[p][f] = s

Unheld(F) == {s \in open : \A p \in Pid : ~Holds(F, p, s)}

Holding == {h \in Pid \X Sock : Holds(fds, h[1], h[2])}

SystemInit ==
    /\ open \in Opens
    /\ fds \in [Pid -> [Fd -> open \cup {File, Shut}]]
    /\ lingering = Unheld(fds)
    /\ \E n \in SUBSET Nameless :
          status = [p \in Pid |-> IF p \in n THEN "nameless" ELSE "alive"]
    /\ changes = 0 /\ held = Holding

Changing ==
    /\ outcome = "" /\ changes < MaxChanges /\ changes' = changes + 1
    /\ UNCHANGED <<npc, todo, filter, vectors, nfds, outcome, overlooked>>

Lives(p) == status[p] \in {"alive", "nameless"}

\* With descriptors F, a socket nobody holds leaves the table or lingers.
Release(F) ==
    /\ fds' = F
    /\ \E leave \in SUBSET (Unheld(F) \ lingering) :
          /\ open' = open \ leave
          /\ lingering' = Unheld(F) \ leave
    /\ UNCHANGED held

Close(p, f) ==
    /\ Changing
    /\ Lives(p) /\ fds[p][f] # Shut
    /\ Release([fds EXCEPT ![p][f] = Shut])
    /\ UNCHANGED status

Open(p, f, s) ==
    /\ Changing
    /\ Lives(p) /\ fds[p][f] = Shut
    /\ \A q \in Pid : <<q, s>> \notin held
    /\ s \notin open /\ open' = open \cup {s}
    /\ fds' = [fds EXCEPT ![p][f] = s]
    /\ held' = held \cup {<<p, s>>}
    /\ UNCHANGED <<lingering, status>>

Die(p) ==
    /\ Changing
    /\ Lives(p)
    /\ \E end \in {"zombie", "gone"} : status' = [status EXCEPT ![p] = end]
    /\ Release([fds EXCEPT ![p] = [f \in Fd |-> Shut]])

System == \E p \in Pid : Die(p) \/ \E f \in Fd : Close(p, f) \/ \E s \in Sock : Open(p, f, s)

-----------------------------------------------------------------------------
(* The tool.                                                               *)

\* main: neither option, or both, asks for both tables.  (Mutant: both
\* options switch each other off.)
RequestedOff(options) ==
    (IF "u" \in options THEN <<>> ELSE <<"TCP", "TCP6">>)
        \o (IF "t" \in options THEN <<>> ELSE <<"UDP", "UDP6">>)

Requested(options) ==
    IF options = {"t"} THEN <<"TCP", "TCP6">>
    ELSE IF options = {"u"} THEN <<"UDP", "UDP6">>
    ELSE <<"TCP", "TCP6", "UDP", "UDP6">>

EmptyVectors ==
    /\ inodes = {} /\ locals = {} /\ remotes = {}
    /\ pids = {} /\ pid = -1 /\ dirents = {}
    /\ tcpudp_pid = <<>> /\ ncmd = 0 /\ rows = {}

Init ==
    /\ SystemInit
    /\ npc = "inodes"
    /\ \E options \in Requests : todo = Requested(options)
    /\ filter \in Filters
    /\ EmptyVectors
    /\ nfds = 0 /\ outcome = "" /\ overlooked = FALSE

At(phase) == outcome = "" /\ npc = phase /\ UNCHANGED <<system, todo, filter>>

Fail(how) == outcome' = how /\ UNCHANGED <<npc, vectors, nfds, overlooked>>

\* RLIMIT_NOFILE.
CanOpen == nfds < MaxFiles

\* fopen of a table.
CanRead == CanOpen /\ Head(todo) \notin Missing

\* parse_TCPUDPFIELD: the file is opened, read to its end and left open.
Column == {s \in open : Family[s] = Head(todo)}

Pass(phase, next) ==
    /\ At(phase)
    /\ CanRead /\ nfds' = nfds + 1 /\ npc' = next
    /\ UNCHANGED <<outcome, overlooked, pids, pid, dirents, tcpudp_pid, ncmd, rows>>

\* A table that cannot be opened ends the program, also when there is none;
\* so does /proc.
PassFails ==
    /\ At(npc) /\ Fail("exit")
    /\ \/ npc \in {"inodes", "locals", "remotes"} /\ ~CanRead
       \/ npc = "pids" /\ ~CanOpen

\* Only inodes of sockets somebody holds can match a link; a lingering socket
\* has inode 0.
ReadInodes ==
    /\ Pass("inodes", "locals")
    /\ inodes' = Column \ lingering
    /\ UNCHANGED <<locals, remotes>>

ReadLocals ==
    /\ Pass("locals", "remotes")
    /\ locals' = Column /\ UNCHANGED <<inodes, remotes>>

ReadRemotes ==
    /\ Pass("remotes", "pids")
    /\ remotes' = Column /\ UNCHANGED <<inodes, locals>>

\* search_pid reads /proc and closes it again.
SearchPid ==
    /\ At("pids") /\ CanOpen
    /\ pids' = {p \in Pid : status[p] # "gone"}
    /\ npc' = "dirs"
    /\ UNCHANGED <<inodes, locals, remotes, pid, dirents, tcpudp_pid, ncmd,
                   rows, nfds, outcome, overlooked>>

\* Directories are read in ascending order.  (Mutant: in descending order.)
LastOf(S) == {x \in S : \A y \in S : x >= y}

First(S) == {x \in S : \A y \in S : x <= y}

\* search_tcppid, the next process: its fd directory is opened, and left open;
\* when it cannot be opened the process is passed over without a word.
\* (Mutant: the loop does not get past such a process.)
Rest(p) == IF p \in Visible /\ status[p] # "gone" THEN pids \ {p} ELSE pids

Others(p) == pids \ {p}

OpenDir ==
    /\ At("dirs") /\ dirents = {}
    /\ \E p \in First(pids) :
          /\ pids' = Others(p)
          /\ IF p \in Visible /\ status[p] # "gone" /\ CanOpen
             THEN /\ nfds' = nfds + 1 /\ pid' = p
                  /\ dirents' = {f \in Fd : fds[p][f] # Shut}
             ELSE UNCHANGED <<nfds, pid, dirents>>
    /\ UNCHANGED <<npc, inodes, locals, remotes, tcpudp_pid, ncmd, rows,
                   outcome, overlooked>>

\* is_tcpsocket.  (Mutant: any socket will do.)
IsAnySocket(t) == t \in Sock

IsTcpSocket(t) == t \in inodes

\* The owners after one link.  (Mutant: a process is entered once.)
EnteredOnce(p) == IF \E i \in DOMAIN tcpudp_pid : tcpudp_pid[i] = p THEN tcpudp_pid
                                             ELSE Append(tcpudp_pid, p)

Entered(p) == Append(tcpudp_pid, p)

\* One entry of the directory: lstat and readlink.  linktype has no NUL behind
\* "socket", so whether it equals "socket" depends on the byte that is there.
ReadLink ==
    /\ At("dirs")
    /\ \E f \in First(dirents), nul \in Tails :
          LET target == fds[pid][f] IN
          /\ target # Shut
          /\ dirents' = dirents \ {f}
          /\ tcpudp_pid' = IF nul /\ IsTcpSocket(target) THEN Entered(pid)
                                                        ELSE tcpudp_pid
          /\ overlooked' = (overlooked \/ (target \in Sock /\ ~nul))
    /\ UNCHANGED <<npc, inodes, locals, remotes, pids, pid, ncmd, rows, nfds,
                   outcome>>

\* A descriptor closed since readdir ends the program.
LinkGone ==
    /\ At("dirs")
    /\ \E f \in First(dirents) : fds[pid][f] = Shut
    /\ Fail("exit")

AllSearched ==
    /\ At("dirs") /\ pids = {} /\ dirents = {}
    /\ npc' = "cmdline"
    /\ UNCHANGED <<vectors, nfds, outcome, overlooked>>

\* search_cmdline, the next owner: fopen of a process that is gone, or without
\* a descriptor left, gives fgets a null FILE; an empty line, as a zombie has
\* it and any process may, ends the program.
MoreOwners == ncmd < Len(tcpudp_pid)

ReadCmdline ==
    /\ At("cmdline") /\ MoreOwners
    /\ status[tcpudp_pid[ncmd + 1]] = "alive" /\ CanOpen
    /\ ncmd' = ncmd + 1
    /\ UNCHANGED <<npc, inodes, locals, remotes, pids, pid, dirents, tcpudp_pid,
                   rows, nfds, outcome, overlooked>>

CmdlineFails ==
    /\ At("cmdline") /\ MoreOwners
    /\ \/ (status[tcpudp_pid[ncmd + 1]] = "gone" \/ ~CanOpen) /\ Fail("crash")
       \/ /\ status[tcpudp_pid[ncmd + 1]] \in {"zombie", "nameless"}
          /\ CanOpen /\ Fail("exit")

-----------------------------------------------------------------------------
(* print_table.                                                            *)

Matches(i) == tcpudp_pid[i] \in filter

\* vector::at throws when a column is too short.
Throws(i) == i <= ncmd => Matches(i) /\ i > Cardinality(remotes)

\* The position of a socket in a column.
Place(column, s) == Cardinality({t \in column : t <= s})

\* The rows of positions 1 to n: columns are joined by position.
Printed(n) ==
    {row \in [local : locals, remote : remotes, pid : Pid] :
        LET i == Place(locals, row.local) IN
        /\ i <= n /\ i = Place(remotes, row.remote)
        /\ i \in DOMAIN tcpudp_pid /\ row.pid = tcpudp_pid[i] /\ Matches(i)}

\* The positions of the table.  (Mutant: one too many.)
PositionsAndOne == 1..(Cardinality(locals) + 1)

Positions == 1..Cardinality(locals)

PrintTable ==
    /\ outcome = "" /\ npc = "cmdline" /\ ~MoreOwners
    /\ \A i \in Positions : ~Throws(i)
    /\ rows' = Printed(Cardinality(locals))
    /\ todo' = Tail(todo)
    /\ npc' = "inodes"
    /\ outcome' = IF todo' = <<>> THEN "ok" ELSE ""
    /\ inodes' = {} /\ locals' = {} /\ remotes' = {}
    /\ tcpudp_pid' = <<>> /\ ncmd' = 0
    /\ UNCHANGED <<system, filter, pids, pid, dirents, nfds, overlooked>>

PrintAborts ==
    /\ At("cmdline") /\ ~MoreOwners
    /\ \E i \in Positions :
          /\ Throws(i) /\ \A j \in 1..(i - 1) : ~Throws(j)
          /\ rows' = Printed(i - 1)
    /\ outcome' = "aborted"
    /\ UNCHANGED <<npc, inodes, locals, remotes, pids, pid, dirents, tcpudp_pid,
                   ncmd, nfds, overlooked>>

Tool == ReadInodes \/ ReadLocals \/ ReadRemotes \/ PassFails \/ SearchPid
        \/ OpenDir \/ ReadLink \/ LinkGone \/ AllSearched
        \/ ReadCmdline \/ CmdlineFails \/ PrintTable \/ PrintAborts

Ended == outcome # "" /\ UNCHANGED vars

Next == System \/ Tool \/ Ended

Spec == Init /\ [][Next]_vars /\ WF_vars(Tool)

-----------------------------------------------------------------------------
(* Properties.                                                             *)

\* However the system changes during the scans, a process that is entered as
\* an owner has held a socket of the inode column, and a process that is
\* printed has held a socket of the table its row is in.
OwnersReal ==
    /\ \A i \in DOMAIN tcpudp_pid : \E s \in inodes : <<tcpudp_pid[i], s>> \in held
    /\ \A r \in rows : \E s \in Sock :
          Family[s] = Family[r.local] /\ <<r.pid, s>> \in held

\* Nothing has disturbed the tool so far.
Undisturbed == changes = 0 /\ ~overlooked /\ CanOpen

\* The scan of a system that does not change misses nobody and counts nobody
\* twice: each visible process is entered once for each of its descriptors of
\* a listed socket, unless links were misread or descriptors ran out.
QuietScanComplete ==
    Undisturbed /\ npc = "cmdline" /\ outcome = "" => \A p \in Visible :
        Cardinality({i \in DOMAIN tcpudp_pid : tcpudp_pid[i] = p})
            = Cardinality({f \in Fd : fds[p][f] \in inodes})

\* No process whose descriptors the user may list holds s.
Ownerless(s) == \A p \in Visible : ~Holds(fds, p, s)

\* The tool fails for these reasons only: the system changed under it, its own
\* leaked descriptors used up the limit, the kernel has no table of a family
\* asked for, a socket of the table belongs to a process without a command
\* line, or to none the tool can see, so that owners run out before rows.
FailsForAReason ==
    outcome \in {"exit", "crash", "aborted"} =>
        \/ ~Undisturbed
        \/ outcome = "exit" /\ Head(todo) \in Missing
        \/ outcome = "exit" /\ \E p \in Visible, s \in inodes :
              status[p] = "nameless" /\ Holds(fds, p, s)
        \/ outcome = "aborted" /\ \E s \in locals : Ownerless(s)

\* The scan can find p as an owner of s.
Owns(p, s) == p \in Visible /\ Holds(fds, p, s)

\* A descriptor of s is scanned before one of t.
Before(s, t) ==
    \E p, q \in Visible, f, g \in Fd :
        /\ fds[p][f] = s /\ fds[q][g] = t
        /\ p < q \/ (p = q /\ f < g)

\* One descriptor for each socket, in the order of the sockets.
Aligned ==
    /\ \A s \in Column :
          Cardinality({d \in Visible \X Fd : fds[d[1]][d[2]] = s}) = 1
    /\ \A s, t \in Column : s < t => Before(s, t)

\* When every socket of the table has one descriptor, and the descriptors come
\* in the order of the sockets, the table printed is the truth: the matching
\* sockets, each with its own addresses and its owner.
PrintsOwners ==
    [][ PrintTable /\ Undisturbed /\ Aligned =>
          rows' = {r \in Row : /\ r.local \in Column /\ r.remote = r.local
                               /\ Owns(r.pid, r.local) /\ r.pid \in filter} ]_vars

\* Every row printed shows the two addresses of one socket and a process that
\* holds it ("PID/Program name and arguments").
RowsTrue ==
    [][ PrintTable => \A r \in rows' :
          r.remote = r.local /\ <<r.pid, r.local>> \in held ]_vars

\* The tool ends, whatever the system does.
ToolEnds == <>(outcome # "")
=============================================================================
