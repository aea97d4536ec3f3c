------------------------------- MODULE Fsmon --------------------------------
(***************************************************************************)
(* homework2/samuel_1072hw2/hw2/0756706_hw2.cpp: a library preloaded into  *)
(* any program.  Each wrapper calls the real function and writes a line    *)
(* that names the descriptors and directories of the call; some names are  *)
(* read before the real call, the others after it, and other threads run   *)
(* in between.  The monitor has a descriptor of its own in the program's   *)
(* table and a map from open directories to their names.                   *)
(***************************************************************************)
EXTENDS Libc

CONSTANTS
    LogFile,  \* what MONITOR_OUTPUT names
    Outputs   \* how MONITOR_OUTPUT may be set

ASSUME FsmonAssumption ==
    /\ Outputs \subseteq {"unset", "writable", "unwritable"}
    /\ LogFile # None /\ LogFile # Tty
    /\ 2 \in Fd

VARIABLES
    alive,      \* FALSE after a segmentation fault of a wrapper
    output,     \* where the log is to go: Tty, LogFile or nowhere (None)
    stderr_fd,
    open_list,  \* a DIR* without an entry has None: readdir's operator[] adds
                \* an empty name, which no line tells from a missing entry
    said,       \* the name each thread's wrapper read before the real call
    line,       \* the line just written: its names, each beside the true one,
                \* and whether it is that of an address in reused
    reused,     \* history: directories at the address of one that was closed
                \* but whose entry was not erased yet
    taken       \* history: numbers the program took by dup2 without having
                \* been given them

monVars == <<alive, output, stderr_fd, open_list, said, line, reused, taken>>
vars == <<libcVars, monVars>>

Output == {Tty, LogFile, None}
Object == File \cup Dir \cup {Tty, LogFile, None, "<STDIN>", "<STDOUT>", "<STDERR>"}

\* Arguments and result are of the kind the operation asks for.
CallOK(c) ==
    /\ c.at # "program" =>
          /\ c.op \in OnFd => c.x \in Fd
          /\ c.op \in OnDir => c.x \in Ptr
          /\ c.op \in Opening => c.x \in File
          /\ c.op = "opendir" => c.x \in Dir
          /\ c.op = "dup2" => c.y \in Fd
    /\ c.at = "back" =>
          /\ c.op \in Opening \cup {"fdopen", "dup", "dup2"} =>
                c.ret \in Fd \cup {None}
          /\ c.op = "opendir" => c.ret \in Ptr \cup {None}

TypeOK ==
    /\ fds \in [Fd -> File \cup Output]
    /\ mine \subseteq Fd
    /\ dirs \in [Ptr -> Dir \cup {None}]
    /\ answer \subseteq Result
    /\ call \in [Thread -> Call] /\ \A t \in Thread : CallOK(call[t])
    /\ alive \in BOOLEAN
    /\ output \in Output
    /\ stderr_fd \in Fd \cup {None}
    /\ open_list \in [Ptr -> Dir \cup {None}]
    /\ said \in [Thread -> Object]
    /\ line \subseteq Object \X Object \X BOOLEAN
    /\ reused \subseteq Ptr
    /\ taken \subseteq Fd

\* The constructor: a duplicate of descriptor 2, or a file of its own, at the
\* lowest free number.  (Mutant: descriptor 2 itself.)
ConstructNoDup ==
    /\ stderr_fd = 2 /\ output = Tty
    /\ fds = [d \in Fd |-> IF d \in Std THEN Tty ELSE None]

Construct ==
    /\ output \in {IF o = "unset" THEN Tty
                   ELSE IF o = "writable" THEN LogFile ELSE None : o \in Outputs}
    /\ stderr_fd \in IF output = None THEN {None}
                     ELSE {d \in Fd \ Std : \A e \in Fd \ Std : d <= e}
    /\ fds = [d \in Fd |-> IF d \in Std THEN Tty
                           ELSE IF d = stderr_fd THEN output ELSE None]

MonitorInit ==
    /\ Construct
    /\ mine = Std
    /\ dirs = [p \in Ptr |-> None]
    /\ call = [t \in Thread |-> Idle] /\ answer = {}
    /\ alive = TRUE
    /\ open_list = [p \in Ptr |-> None]
    /\ said = [t \in Thread |-> None]
    /\ line = {} /\ reused = {} /\ taken = {}

-----------------------------------------------------------------------------
\* read_fd: 0, 1 and 2 have names of their own, whatever they are open on;
\* otherwise /proc/self/fd.  (Mutant: what readlink returns for what it read.)
StdName(d) == CASE d = 0 -> "<STDIN>" [] d = 1 -> "<STDOUT>" [] OTHER -> "<STDERR>"

ReadFdResult(d) == IF d \in Std THEN StdName(d) ELSE Done

ReadFd(d) == IF d \in Std THEN StdName(d) ELSE IF d = None THEN None ELSE fds[d]

\* The true name of a descriptor when the call acted on it.
TrueName(d, obj) ==
    IF d \in Std THEN StdName(d) ELSE IF d = None THEN None ELSE obj

\* close, fclose, dup and dup2 begin their line before the real call.
\* (Mutant: only dup and dup2.)
SaysBeforeButClose == {"dup", "dup2"}

SaysBefore == {"close", "dup", "dup2"}

\* The wrapper up to the real call.
Enter(t) ==
    /\ Ask(t)
    /\ said' = [said EXCEPT ![t] = IF call'[t].op \in SaysBefore
                                   THEN ReadFd(call'[t].x) ELSE None]
    /\ line' = {}
    /\ UNCHANGED <<alive, output, stderr_fd, open_list, reused, taken>>

\* The real function.
Real(t) ==
    /\ Answer(t) /\ line' = {}
    /\ taken' = IF call[t].op = "dup2" THEN taken \cup (mine' \ mine) ELSE taken
    /\ UNCHANGED <<alive, output, stderr_fd, open_list, said, reused>>

\* The names a wrapper writes.  (open writes nothing: its dprintf is commented
\* out.  chdir and the like only repeat their arguments.  The name of the
\* target of dup2, read at the same place as that of its source, is left out.)
FirstName(t) == IF call[t].op \in SaysBefore THEN said[t] ELSE ReadFd(call[t].x)

Names(t) ==
    LET c == call[t]
        first  == {<<FirstName(t), TrueName(c.x, c.obj), FALSE>>}
        result == {<<ReadFd(c.ret), TrueName(c.ret, c.obj), FALSE>>}
    IN CASE c.op \in {"creat", "fopen"} -> result
         [] c.op \in {"use", "close"} -> first
         [] c.op \in {"fdopen", "dup", "dup2"} -> first \cup result
         [] c.op \in OnDir -> {<<open_list[c.x], c.obj, c.x \in reused>>}
         [] OTHER -> {}

\* The operations that look a result up that may be -1 or NULL.
LooksUp == {"creat", "fopen", "fdopen", "dup", "dup2"}

NoLog == stderr_fd = None \/ fds[stderr_fd] = None

\* Whose error code a program may find after a failure: read_fd(-1) and a
\* dprintf to no descriptor set errno again, a dprintf to the log may.  (open
\* does neither.)
Errno(c) ==
    IF c.ret # None \/ c.op = "open" THEN {"call"}
    ELSE IF c.op \in LooksUp \/ NoLog THEN {"monitor"}
    ELSE {"call", "monitor"}

\* opendir stores the name (that of a null DIR* is never looked up); closedir
\* erases it, after the directory was closed.  (Mutant: opendir stores
\* nothing.)
Erased(p) == [open_list EXCEPT ![p] = None]

ListAfterClose(c) == IF c.op = "closedir" THEN Erased(c.x) ELSE open_list

ListAfter(c) ==
    CASE c.op = "opendir" /\ c.ret # None -> [open_list EXCEPT ![c.ret] = c.x]
      [] c.op = "closedir" -> Erased(c.x)
      [] OTHER -> open_list

Closing(p) == \E u \in Thread : /\ call[u].at = "back" /\ call[u].x = p
                                /\ call[u].op = "closedir"

ReusedAfter(c) ==
    IF c.op # "opendir" \/ c.ret = None THEN reused
    ELSE IF Closing(c.ret) THEN reused \cup {c.ret} ELSE reused \ {c.ret}

\* fileno(nullptr) of a failed fopen or fdopen, and of fflush(NULL).
Crashes(c) == c.op = "flushall" \/ (c.op \in {"fopen", "fdopen"} /\ c.ret = None)

\* Every wrapper returns what the real function returned.  (Mutant: dup2 the
\* number it was asked for.)
GivenTarget(c) == IF c.op = "dup2" THEN c.y ELSE c.ret

Given(c) == c.ret

\* The rest of the wrapper.
Leave(t) ==
    /\ call[t].at = "back" /\ ~Crashes(call[t])
    /\ call' = [call EXCEPT ![t] = Idle]
    /\ \E e \in Errno(call[t]) :
          answer' = {[to |-> t, ret |-> Given(call[t]), errno |-> e]}
    /\ line' = Names(t)
    /\ open_list' = ListAfter(call[t])
    /\ reused' = ReusedAfter(call[t])
    /\ said' = [said EXCEPT ![t] = None]
    /\ UNCHANGED <<fds, mine, dirs, alive, output, stderr_fd, taken>>

Crash(t) ==
    /\ call[t].at = "back" /\ Crashes(call[t])
    /\ alive' = FALSE
    /\ UNCHANGED <<libcVars, output, stderr_fd, open_list, said, line, reused, taken>>

MonitorNext ==
    \/ alive /\ \E t \in Thread : Enter(t) \/ Real(t) \/ Leave(t) \/ Crash(t)
    \/ ~alive /\ UNCHANGED vars

MonitorSpec == MonitorInit /\ [][MonitorNext]_vars

-----------------------------------------------------------------------------
(* Properties.                                                             *)

\* A line names what its call acted on, although other threads open, close
\* and duplicate descriptors between the real call and the look-up: every
\* name is read while the caller still has the descriptor or directory
\* (read_fd before close and dup2, after creat and dup).  Directories at an
\* address in reused are excepted: closedir erases after the real call.
NamesRight == \A l \in line : l[3] \/ l[1] = l[2]

\* Every open directory the program knows is in open_list under its name,
\* unless its entry fell to the late erase of a directory closed before.
DirsKnown ==
    \A p \in Ptr : dirs[p] # None /\ Idling(p) /\ p \notin reused
                   => open_list[p] = dirs[p]

\* The log goes where it was to go at the start, whatever the program does
\* with its own descriptors, 2 included: no line gets into another file.  The
\* one way to the log is a dup2 of the program to its very number.
LogApart ==
    stderr_fd # None /\ stderr_fd \notin taken => fds[stderr_fd] = output

\* The monitored program works as it may without the monitor, but for three
\* things: which free numbers it is given, the error code of a call that
\* failed, and that a wrapper may end it.
Seen == [d \in Fd |-> IF d \in mine THEN fds[d] ELSE None]

Roughly == INSTANCE Libc WITH
    fds <- Seen, Lowest <- FALSE,
    answer <- {[r EXCEPT !.errno = "call"] : r \in answer}

AsUsualButNumbers == Roughly!Spec
=============================================================================
