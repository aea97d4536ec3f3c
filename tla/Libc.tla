-------------------------------- MODULE Libc --------------------------------
(***************************************************************************)
(* The calls of the C library that fsmon watches, and a program of several *)
(* threads that makes them.  A call is asked for, answered by library and  *)
(* kernel at one moment, and returns to the program.  A FILE* is named by  *)
(* its descriptor (fileno).  The program is a correct one: it uses only    *)
(* what it was given, and never an object another of its calls is busy     *)
(* with.  dup2 it may ask to any number, as long as none of its threads is *)
(* about to be given one.  There is no monitor in this module.             *)
(***************************************************************************)
EXTENDS FiniteSets, Naturals

CONSTANTS
    Thread, Fd, File, Dir, Ptr,
    Tty,      \* what 0, 1 and 2 are open on at the start
    None,     \* no such thing: -1, NULL, a name that is not known
    Done,     \* the result of a call that gives nothing out
    CanFail,  \* the operations that may fail
    Lowest,   \* TRUE: the kernel gives the lowest free number; FALSE: any
    MaxOpen   \* bound: descriptors the program has at one time

ASSUME LibcAssumption ==
    /\ Fd \subseteq Nat /\ Lowest \in BOOLEAN
    /\ None \notin Fd \cup File \cup Dir \cup Ptr \cup {Tty, Done}

VARIABLES
    fds,   \* the descriptor table: what each descriptor is open on
    mine,  \* the descriptors the program was given and has not closed
    dirs,  \* the DIR objects: the directory each address is open on
    call,  \* the call each thread is in
    answer \* what a call that has just returned brought the program

libcVars == <<fds, mine, dirs, call, answer>>

\* stdin, stdout and stderr, as far as they are among the descriptors.
Std == Fd \cap 0 .. 2

Opening == {"open", "creat", "fopen"}
OnFd    == {"use", "fdopen", "close", "dup", "dup2"}
OnDir   == {"readdir", "closedir"}
Op      == Opening \cup OnFd \cup OnDir \cup {"opendir", "path", "flushall"}

Thing == Fd \cup File \cup Dir \cup Ptr \cup {None}

\* x and y are the arguments, obj what the library acted on.
Call == [at : {"program", "library", "back"}, op : Op \cup {None},
         x : Thing, y : Thing, obj : File \cup Dir \cup {Tty, None},
         ret : Thing \cup {Done}]

Idle == [at |-> "program", op |-> None, x |-> None, y |-> None,
         obj |-> None, ret |-> None]

\* errno tells whose error code the program finds if the call failed.
Result == [to : Thread, ret : Thing \cup {Done}, errno : {"call", "monitor"}]

Init ==
    /\ fds = [d \in Fd |-> IF d \in Std THEN Tty ELSE None]
    /\ mine = Std
    /\ dirs = [p \in Ptr |-> None]
    /\ call = [t \in Thread |-> Idle]
    /\ answer = {}

\* What a call in progress relies on.  After close, fclose or closedir is
\* answered its argument may be given out again.
InUse(c) ==
    IF c.at = "program" THEN {}
    ELSE {c.ret} \cup IF c.at = "back" /\ c.op \in {"close", "closedir"}
                      THEN {} ELSE {c.x, c.y}

Idling(x) == \A t \in Thread : x \notin InUse(call[t])

\* A call that will be given a number of the kernel's choice, and one that
\* takes a number the program does not have.
Coming(c) == c.at = "library" /\ c.op \in Opening \cup {"dup"}
Taking(c) == c.at = "library" /\ c.op = "dup2" /\ c.y \notin mine

NoneComing == \A t \in Thread : ~Coming(call[t])
NoneTaking == \A t \in Thread : ~Taking(call[t])

\* The bound leaves a descriptor for every call that will need one.
Room == Cardinality(mine) < MaxOpen
          - Cardinality({t \in Thread : Coming(call[t]) \/ Taking(call[t])})

\* What the kernel may choose.
Free(d) ==
    /\ fds[d] = None
    /\ Lowest => \A e \in Fd : fds[e] = None => d <= e

-----------------------------------------------------------------------------
Asks(t, op, x, y) ==
    /\ call' = [call EXCEPT ![t] = [Idle EXCEPT
                !.at = "library", !.op = op, !.x = x, !.y = y]]
    /\ answer' = {}

Ask(t) ==
    /\ call[t].at = "program"
    /\ \/ \E op \in Opening, f \in File :
             Room /\ NoneTaking /\ Asks(t, op, f, None)
       \/ \E op \in OnFd \ {"dup2"}, d \in mine :
             /\ Idling(d) /\ (op = "dup" => Room /\ NoneTaking)
             /\ Asks(t, op, d, None)
       \/ \E d \in mine, e \in Fd :
             /\ Idling(d) /\ Idling(e) /\ (e \notin mine => Room /\ NoneComing)
             /\ Asks(t, "dup2", d, e)
       \/ \E n \in Dir : Asks(t, "opendir", n, None)
       \/ \E op \in OnDir, p \in Ptr :
             dirs[p] # None /\ Idling(p) /\ Asks(t, op, p, None)
       \/ \E op \in {"path", "flushall"} : Asks(t, op, None, None)
    /\ UNCHANGED <<fds, mine, dirs>>

Answers(t, obj, ret) ==
    /\ call' = [call EXCEPT ![t].at = "back", ![t].obj = obj, ![t].ret = ret]
    /\ answer' = {}

\* open, creat, fopen.
AnswerOpen(t) ==
    /\ call[t].op \in Opening
    /\ \E d \in Fd :
          /\ Free(d)
          /\ fds' = [fds EXCEPT ![d] = call[t].x]
          /\ mine' = mine \cup {d}
          /\ Answers(t, call[t].x, d)
    /\ UNCHANGED dirs

\* read, write, pread, pwrite; fread, fwrite, fgetc, fgets, fscanf, fprintf,
\* fflush and the unlocked ones; fdopen.
AnswerUse(t) ==
    /\ \/ call[t].op = "use" /\ Answers(t, fds[call[t].x], Done)
       \/ call[t].op = "fdopen" /\ Answers(t, fds[call[t].x], call[t].x)
    /\ UNCHANGED <<fds, mine, dirs>>

\* close, fclose.
AnswerClose(t) ==
    /\ call[t].op = "close"
    /\ fds' = [fds EXCEPT ![call[t].x] = None]
    /\ mine' = mine \ {call[t].x}
    /\ Answers(t, fds[call[t].x], Done)
    /\ UNCHANGED dirs

AnswerDup(t) ==
    /\ \E d \in Fd :
          /\ \/ call[t].op = "dup" /\ Free(d)
             \/ call[t].op = "dup2" /\ d = call[t].y
          /\ fds' = [fds EXCEPT ![d] = fds[call[t].x]]
          /\ mine' = mine \cup {d}
          /\ Answers(t, fds[call[t].x], d)
    /\ UNCHANGED dirs

AnswerDir(t) ==
    /\ \/ /\ call[t].op = "opendir"
          /\ \E p \in Ptr :
                /\ dirs[p] = None
                /\ dirs' = [dirs EXCEPT ![p] = call[t].x]
                /\ Answers(t, call[t].x, p)
       \/ /\ call[t].op = "readdir"
          /\ Answers(t, dirs[call[t].x], Done) /\ UNCHANGED dirs
       \/ /\ call[t].op = "closedir"
          /\ dirs' = [dirs EXCEPT ![call[t].x] = None]
          /\ Answers(t, dirs[call[t].x], Done)
    /\ UNCHANGED <<fds, mine>>

\* stat, lstat, chdir, chown, chmod, remove, rename, link, unlink, readlink,
\* symlink, mkdir, rmdir; and fflush(NULL), which flushes every stream.
AnswerPath(t) ==
    /\ call[t].op \in {"path", "flushall"} /\ Answers(t, None, Done)
    /\ UNCHANGED <<fds, mine, dirs>>

Fails(t) ==
    /\ call[t].op \in CanFail
    /\ Answers(t, IF call[t].op \in OnFd THEN fds[call[t].x]
                  ELSE IF call[t].op \in OnDir THEN dirs[call[t].x] ELSE None,
               None)
    /\ UNCHANGED <<fds, mine, dirs>>

Answer(t) ==
    /\ call[t].at = "library"
    /\ \/ AnswerOpen(t) \/ AnswerUse(t) \/ AnswerClose(t) \/ AnswerDup(t)
       \/ AnswerDir(t) \/ AnswerPath(t) \/ Fails(t)

Return(t) ==
    /\ call[t].at = "back"
    /\ call' = [call EXCEPT ![t] = Idle]
    /\ answer' = {[to |-> t, ret |-> call[t].ret, errno |-> "call"]}
    /\ UNCHANGED <<fds, mine, dirs>>

Next == \E t \in Thread : Ask(t) \/ Answer(t) \/ Return(t)

Spec == Init /\ [][Next]_libcVars
=============================================================================
