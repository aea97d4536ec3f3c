----------------------------- MODULE FsmonProofs -----------------------------
(***************************************************************************)
(* Proofs about the monitor, for any number of threads, descriptors, files *)
(* and directories: its type invariant, the separation of the log from the *)
(* program, and that the monitored program behaves as it may without a     *)
(* monitor, but for numbers, error codes and the calls that end it.        *)
(* The second half is about the names fsmon writes: each line names what   *)
(* its call acted on, and open_list holds the name of every open directory.*)
(***************************************************************************)
EXTENDS Fsmon, TLAPS

-----------------------------------------------------------------------------
(* Type correctness.                                                       *)

\* The types of the library's variables alone, and of the monitor's alone.
LibcTypes ==
    /\ fds \in [Fd -> File \cup Output]
    /\ mine \subseteq Fd
    /\ dirs \in [Ptr -> Dir \cup {None}]
    /\ answer \subseteq Result
    /\ call \in [Thread -> Call] /\ \A t \in Thread : CallOK(call[t])

MonTypes ==
    /\ alive \in BOOLEAN
    /\ output \in Output
    /\ stderr_fd \in Fd \cup {None}
    /\ open_list \in [Ptr -> Dir \cup {None}]
    /\ said \in [Thread -> Object]
    /\ line \subseteq Object \X Object \X BOOLEAN
    /\ reused \subseteq Ptr
    /\ taken \subseteq Fd

\* TypeOK is both.
LEMMA TypeSplit == TypeOK <=> LibcTypes /\ MonTypes
BY DEF TypeOK, LibcTypes, MonTypes

\* One call changes, to one of the right kind.
LEMMA CallChange ==
    ASSUME LibcTypes, NEW t \in Thread, NEW c \in Call, CallOK(c),
           call' = [call EXCEPT ![t] = c]
    PROVE  call' \in [Thread -> Call] /\ \A u \in Thread : CallOK(call'[u])
BY DEF LibcTypes

\* The call of a thread that asks.
Asked(op, x, y) == [Idle EXCEPT !.at = "library", !.op = op, !.x = x, !.y = y]

LEMMA AskedType ==
    ASSUME NEW op \in Op, NEW x \in Thing, NEW y \in Thing
    PROVE  /\ Asked(op, x, y) \in Call
           /\ Asked(op, x, y).at = "library" /\ Asked(op, x, y).op = op
           /\ Asked(op, x, y).x = x /\ Asked(op, x, y).y = y
BY DEF Asked, Idle, Call, Thing

LEMMA AsksType ==
    ASSUME LibcTypes, NEW t \in Thread, NEW op \in Op, NEW x \in Thing, NEW y \in Thing,
           Asks(t, op, x, y),
           op \in OnFd => x \in Fd, op \in OnDir => x \in Ptr,
           op \in Opening => x \in File, op = "opendir" => x \in Dir,
           op = "dup2" => y \in Fd, UNCHANGED <<fds, mine, dirs>>
    PROVE  LibcTypes'
<1>1. call' = [call EXCEPT ![t] = Asked(op, x, y)] /\ answer' = {}
  BY DEF Asks, Asked
<1>2. Asked(op, x, y) \in Call /\ CallOK(Asked(op, x, y))
  BY AskedType DEF CallOK
<1>3. call' \in [Thread -> Call] /\ \A u \in Thread : CallOK(call'[u])
  BY <1>1, <1>2, CallChange
<1>4. QED BY <1>1, <1>3 DEF LibcTypes

\* A call that is answered.
Answered(c, obj, ret) == [c EXCEPT !.at = "back", !.obj = obj, !.ret = ret]

Acted == File \cup Dir \cup {Tty, None}

LEMMA AnsweredType ==
    ASSUME NEW c \in Call, NEW obj \in Acted, NEW ret \in Thing \cup {Done}
    PROVE  /\ Answered(c, obj, ret) \in Call
           /\ Answered(c, obj, ret).at = "back" /\ Answered(c, obj, ret).op = c.op
           /\ Answered(c, obj, ret).x = c.x /\ Answered(c, obj, ret).y = c.y
           /\ Answered(c, obj, ret).ret = ret /\ Answered(c, obj, ret).obj = obj
BY DEF Answered, Call, Acted

LEMMA AnswersType ==
    ASSUME LibcTypes, NEW t \in Thread, NEW obj \in Acted,
           NEW ret \in Thing \cup {Done}, Answers(t, obj, ret),
           call[t].at = "library",
           call[t].op \in Opening \cup {"fdopen", "dup", "dup2"} => ret \in Fd \cup {None},
           call[t].op = "opendir" => ret \in Ptr \cup {None}
    PROVE  /\ call' = [call EXCEPT ![t] = Answered(call[t], obj, ret)]
           /\ Answered(call[t], obj, ret).at # "library"
           /\ call' \in [Thread -> Call] /\ \A u \in Thread : CallOK(call'[u])
           /\ answer' \subseteq Result
<1>1. call' = [call EXCEPT ![t] = Answered(call[t], obj, ret)] /\ answer' = {}
  BY DEF Answers, Answered, LibcTypes
<1>2. call[t] \in Call /\ CallOK(call[t])
  BY DEF LibcTypes
<1>3. /\ Answered(call[t], obj, ret) \in Call /\ CallOK(Answered(call[t], obj, ret))
      /\ Answered(call[t], obj, ret).at # "library"
  BY <1>2, AnsweredType DEF CallOK
<1>4. QED BY <1>1, <1>3, CallChange

-----------------------------------------------------------------------------
(* Whose descriptors are whose.                                            *)

\* The descriptors a call in the library relies on.
Held(c) == IF c.at = "library" /\ c.op \in OnFd
           THEN IF c.op = "dup2" THEN {c.x, c.y} ELSE {c.x}
           ELSE {}

\* Of these, the one it acts on.
Acts(c) == IF c.at = "library" /\ c.op \in OnFd THEN {c.x} ELSE {}

LEMMA ActsHeld == ASSUME NEW c PROVE Acts(c) \subseteq Held(c)
BY DEF Acts, Held

\* The program's descriptors are open, its calls act on no other ones, a call
\* to which a number is coming finds no other that takes one, and no two calls
\* in the library rely on the same one.
Owned ==
    /\ \A d \in mine : fds[d] \in File \cup {Tty}
    /\ \A t \in Thread : Acts(call[t]) \subseteq mine
    /\ \A t, u \in Thread : Coming(call[u]) => Held(call[t]) \subseteq mine
    /\ \A t, u \in Thread : t # u => Held(call[t]) \cap Held(call[u]) = {}

\* The descriptor of the monitor is open on its output and not the program's,
\* unless the program took it.
Apart ==
    stderr_fd # None =>
        /\ output # None
        /\ stderr_fd \notin taken => stderr_fd \notin mine /\ fds[stderr_fd] = output

\* What the real function leaves of the monitor.
Took(t) ==
    /\ UNCHANGED <<stderr_fd, output>>
    /\ taken' = IF call[t].op = "dup2" THEN taken \cup (mine' \ mine) ELSE taken

\* Descriptors no call relies on may be taken by a new one.
LEMMA IdlingHeld ==
    ASSUME NEW x, Idling(x), NEW u \in Thread
    PROVE  x \notin Held(call[u])
BY DEF Idling, InUse, Held

\* Without a call that takes a number all rely on the program's descriptors.
LEMMA NoneTakingHeld ==
    ASSUME Owned, NoneTaking, NEW u \in Thread
    PROVE  Held(call[u]) \subseteq mine
BY DEF Owned, NoneTaking, Taking, Held, Acts

LEMMA AskOwned ==
    ASSUME LibcTypes, Owned, NEW t \in Thread, NEW op \in Op, NEW x \in Thing,
           NEW y \in Thing, Asks(t, op, x, y), UNCHANGED <<fds, mine, dirs>>,
           op \in OnFd => x \in mine /\ Idling(x),
           op = "dup2" => Idling(y) /\ (y \in mine \/ NoneComing),
           op \in Opening \cup {"dup"} => NoneTaking
    PROVE  Owned'
<1> DEFINE new == Asked(op, x, y)
<1>1. call' = [call EXCEPT ![t] = new]
  BY DEF Asks, Asked
<1>2. new.at = "library" /\ new.op = op /\ new.x = x /\ new.y = y
  BY AskedType
<1> HIDE DEF new
<1>3. call'[t] = new /\ \A u \in Thread \ {t} : call'[u] = call[u]
  BY <1>1 DEF LibcTypes
<1>4. Acts(new) \subseteq mine /\ \A u \in Thread : Held(new) \cap Held(call[u]) = {}
  BY <1>2, IdlingHeld DEF Held, Acts, OnFd
<1>5. \A u \in Thread : Acts(call'[u]) \subseteq mine
  BY <1>3, <1>4 DEF Owned
<1>6. \A u, v \in Thread : u # v => Held(call'[u]) \cap Held(call'[v]) = {}
  BY <1>3, <1>4 DEF Owned
<1>7. ASSUME NEW u \in Thread, NEW v \in Thread, Coming(call'[u])
      PROVE  Held(call'[v]) \subseteq mine
  <2>1. CASE u = t
    <3>1. op \in Opening \cup {"dup"}
      BY <1>2, <1>3, <1>7, <2>1 DEF Coming
    <3>2. Held(new) \subseteq mine
      BY <1>2, <3>1 DEF Held, OnFd, Opening
    <3>3. QED BY <1>3, <3>1, <3>2, NoneTakingHeld
  <2>2. CASE u # t
    <3>1. Coming(call[u])
      BY <1>3, <1>7, <2>2
    <3>2. Held(new) \subseteq mine
      BY <1>2, <3>1 DEF Held, OnFd, NoneComing
    <3>3. QED BY <1>3, <3>1, <3>2 DEF Owned
  <2>3. QED BY <2>1, <2>2
<1>8. QED BY <1>5, <1>6, <1>7 DEF Owned

\* Asking.
LEMMA AskKeeps ==
    ASSUME LibcTypes, Owned, NEW t \in Thread, Ask(t)
    PROVE  LibcTypes' /\ Owned'
<1> USE DEF Op, Opening, OnFd, OnDir, Thing
<1>1. mine \subseteq Fd /\ UNCHANGED <<fds, mine, dirs>>
  BY DEF LibcTypes, Ask
<1>2. ASSUME NEW op \in Opening, NEW f \in File, NoneTaking, Asks(t, op, f, None)
      PROVE  LibcTypes' /\ Owned'
  BY <1>1, <1>2, AsksType, AskOwned
<1>3. ASSUME NEW op \in OnFd \ {"dup2"}, NEW d \in mine, Idling(d),
             op = "dup" => NoneTaking, Asks(t, op, d, None)
      PROVE  LibcTypes' /\ Owned'
  BY <1>1, <1>3, AsksType, AskOwned
<1>4. ASSUME NEW d \in mine, NEW e \in Fd, Idling(d), Idling(e),
             e \in mine \/ NoneComing, Asks(t, "dup2", d, e)
      PROVE  LibcTypes' /\ Owned'
  BY <1>1, <1>4, AsksType, AskOwned
<1>5. ASSUME NEW n \in Dir, Asks(t, "opendir", n, None) PROVE LibcTypes' /\ Owned'
  BY <1>1, <1>5, AsksType, AskOwned
<1>6. ASSUME NEW op \in OnDir, NEW p \in Ptr, Asks(t, op, p, None)
      PROVE  LibcTypes' /\ Owned'
  BY <1>1, <1>6, AsksType, AskOwned
<1>7. ASSUME NEW op \in {"path", "flushall"}, Asks(t, op, None, None)
      PROVE  LibcTypes' /\ Owned'
  BY <1>1, <1>7, AsksType, AskOwned
<1>8. QED BY <1>2, <1>3, <1>4, <1>5, <1>6, <1>7 DEF Ask

\* Answering: the call of t relies on nothing afterwards, so that what it gave
\* back may go.
LEMMA OwnedAfter ==
    ASSUME LibcTypes, Owned, NEW t \in Thread, NEW c, c.at # "library",
           call' = [call EXCEPT ![t] = c],
           mine \ Held(call[t]) \subseteq mine',
           \A d \in mine' : fds'[d] \in File \cup {Tty}
    PROVE  Owned'
<1>1. call'[t] = c /\ \A u \in Thread \ {t} : call'[u] = call[u]
  BY DEF LibcTypes
<1>2. Held(c) = {} /\ Acts(c) = {} /\ ~Coming(c)
  BY DEF Held, Acts, Coming
<1>3. \A u \in Thread : Acts(call'[u]) \subseteq mine'
  BY <1>1, <1>2, ActsHeld DEF Owned
<1>4. \A u, v \in Thread : u # v => Held(call'[u]) \cap Held(call'[v]) = {}
  BY <1>1, <1>2 DEF Owned
<1>5. \A u, v \in Thread : Coming(call'[u]) => Held(call'[v]) \subseteq mine'
  BY <1>1, <1>2 DEF Owned
<1>6. QED BY <1>3, <1>4, <1>5 DEF Owned

\* A change of one descriptor that is not the monitor's, unless taken.
LEMMA ApartAfter ==
    ASSUME LibcTypes, MonTypes, Apart, NEW t \in Thread, Took(t),
           NEW d \in Fd, NEW v, stderr_fd \notin taken' => d # stderr_fd,
           fds' = [fds EXCEPT ![d] = v], mine' \subseteq mine \cup {d}
    PROVE  Apart'
BY DEF Apart, LibcTypes, MonTypes, Took

\* What the answers keep.
Keeps == LibcTypes' /\ Owned' /\ Apart'

LEMMA OpenKeeps ==
    ASSUME LibcTypes, MonTypes, Owned, Apart, NEW t \in Thread, Took(t),
           call[t].at = "library", AnswerOpen(t)
    PROVE  Keeps
<1>1. PICK d \in Fd : /\ fds[d] = None
                      /\ fds' = [fds EXCEPT ![d] = call[t].x]
                      /\ mine' = mine \cup {d}
                      /\ Answers(t, call[t].x, d)
  BY DEF AnswerOpen, Free
<1>2. call[t].x \in File
  BY DEF LibcTypes, CallOK, AnswerOpen
<1>3. /\ call' = [call EXCEPT ![t] = Answered(call[t], call[t].x, d)]
      /\ Answered(call[t], call[t].x, d).at # "library"
      /\ call' \in [Thread -> Call] /\ \A u \in Thread : CallOK(call'[u])
      /\ answer' \subseteq Result
  BY <1>1, <1>2, AnswersType DEF AnswerOpen, Opening, Thing, Acted
<1>4. LibcTypes'
  BY <1>1, <1>2, <1>3 DEF LibcTypes, AnswerOpen
<1>5. \A e \in mine' : fds'[e] \in File \cup {Tty}
  BY <1>1, <1>2 DEF Owned, LibcTypes
<1>6. Owned'
  BY <1>1, <1>3, <1>5, OwnedAfter
<1>7. stderr_fd \notin taken' => d # stderr_fd
  BY <1>1, LibcAssumption DEF Apart, Took, AnswerOpen, Opening
<1>8. QED BY <1>1, <1>4, <1>6, <1>7, ApartAfter DEF Keeps

\* The answers that leave the descriptors alone.
LEMMA StillKeeps ==
    ASSUME LibcTypes, MonTypes, Owned, Apart, NEW t \in Thread, Took(t),
           UNCHANGED <<fds, mine>>, dirs' \in [Ptr -> Dir \cup {None}],
           call[t].at = "library",
           NEW obj \in Acted, NEW ret \in Thing \cup {Done}, Answers(t, obj, ret),
           call[t].op \in Opening \cup {"fdopen", "dup", "dup2"} => ret \in Fd \cup {None},
           call[t].op = "opendir" => ret \in Ptr \cup {None}
    PROVE  Keeps
<1>1. /\ call' = [call EXCEPT ![t] = Answered(call[t], obj, ret)]
      /\ Answered(call[t], obj, ret).at # "library"
      /\ call' \in [Thread -> Call] /\ \A u \in Thread : CallOK(call'[u])
      /\ answer' \subseteq Result
  BY AnswersType
<1>2. LibcTypes'
  BY <1>1 DEF LibcTypes
<1>3. mine \ Held(call[t]) \subseteq mine' /\ \A d \in mine' : fds'[d] \in File \cup {Tty}
  BY DEF Owned
<1>4. Owned'
  BY <1>1, <1>3, OwnedAfter
<1>5. Apart'
  BY DEF Apart, Took
<1>6. QED BY <1>2, <1>4, <1>5 DEF Keeps

\* What a call with a descriptor acts on is the program's.
LEMMA HeldFd ==
    ASSUME LibcTypes, MonTypes, Owned, Apart, NEW t \in Thread,
           call[t].at = "library", call[t].op \in OnFd
    PROVE  /\ call[t].x \in mine /\ call[t].x \in Fd
           /\ stderr_fd \notin taken => call[t].x # stderr_fd
           /\ fds[call[t].x] \in File \cup {Tty}
<1>1. call[t].x \in mine
  BY DEF Owned, Acts
<1>2. mine \subseteq Fd /\ (stderr_fd \notin taken => stderr_fd \notin mine)
  BY LibcAssumption DEF LibcTypes, Apart
<1>3. QED BY <1>1, <1>2 DEF Owned

LEMMA UseKeeps ==
    ASSUME LibcTypes, MonTypes, Owned, Apart, NEW t \in Thread, Took(t),
           call[t].at = "library", AnswerUse(t)
    PROVE  Keeps
<1>1. UNCHANGED <<fds, mine>> /\ dirs' \in [Ptr -> Dir \cup {None}] /\ call[t].op \in OnFd
  BY DEF AnswerUse, LibcTypes, OnFd
<1>2. call[t].x \in Fd /\ fds[call[t].x] \in Acted
  BY <1>1, HeldFd DEF Acted
<1>3. CASE call[t].op = "use" /\ Answers(t, fds[call[t].x], Done)
  BY <1>1, <1>2, <1>3, StillKeeps DEF Opening
<1>4. CASE call[t].op = "fdopen" /\ Answers(t, fds[call[t].x], call[t].x)
  BY <1>1, <1>2, <1>4, StillKeeps DEF Thing
<1>5. QED BY <1>3, <1>4 DEF AnswerUse

LEMMA CloseKeeps ==
    ASSUME LibcTypes, MonTypes, Owned, Apart, NEW t \in Thread, Took(t),
           call[t].at = "library", AnswerClose(t)
    PROVE  Keeps
<1> DEFINE x == call[t].x
<1>1. /\ x \in Fd /\ x \in Held(call[t]) /\ fds[x] \in Acted
      /\ call[t].op = "close" /\ (stderr_fd \notin taken' => x # stderr_fd)
  BY HeldFd DEF AnswerClose, OnFd, Held, Acted, Took
<1>2. /\ call' = [call EXCEPT ![t] = Answered(call[t], fds[x], Done)]
      /\ Answered(call[t], fds[x], Done).at # "library"
      /\ call' \in [Thread -> Call] /\ \A u \in Thread : CallOK(call'[u])
      /\ answer' \subseteq Result
  BY <1>1, AnswersType DEF AnswerClose, Opening
<1>3. /\ fds' = [fds EXCEPT ![x] = None] /\ mine' = mine \ {x} /\ dirs' = dirs
  BY DEF AnswerClose
<1> HIDE DEF x
<1>4. LibcTypes'
  BY <1>1, <1>2, <1>3 DEF LibcTypes, Output
<1>5. mine \ Held(call[t]) \subseteq mine' /\ \A d \in mine' : fds'[d] \in File \cup {Tty}
  BY <1>1, <1>3 DEF Owned, LibcTypes
<1>6. Owned'
  BY <1>2, <1>5, OwnedAfter
<1>7. Apart'
  BY <1>1, <1>3, ApartAfter
<1>8. QED BY <1>4, <1>6, <1>7 DEF Keeps

LEMMA DupKeeps ==
    ASSUME LibcTypes, MonTypes, Owned, Apart, NEW t \in Thread, Took(t),
           call[t].at = "library", AnswerDup(t)
    PROVE  Keeps
<1> DEFINE x == call[t].x
<1>1. PICK d \in Fd : /\ \/ call[t].op = "dup" /\ fds[d] = None
                         \/ call[t].op = "dup2" /\ d = call[t].y
                      /\ fds' = [fds EXCEPT ![d] = fds[x]]
                      /\ mine' = mine \cup {d} /\ dirs' = dirs
                      /\ Answers(t, fds[x], d)
  BY DEF AnswerDup, Free
<1>2. x \in Fd /\ fds[x] \in File \cup {Tty}
  BY <1>1, HeldFd DEF OnFd
<1>9. stderr_fd \notin taken' => d # stderr_fd
  <2>1. CASE call[t].op = "dup"
    BY <1>1, <2>1, LibcAssumption DEF Took, Apart
  <2>2. CASE call[t].op = "dup2"
    <3>1. taken' = taken \cup ({d} \ mine)
      BY <1>1, <2>2 DEF Took
    <3>2. QED BY <3>1, LibcAssumption DEF Apart
  <2>3. QED BY <1>1, <2>1, <2>2
<1>3. /\ call' = [call EXCEPT ![t] = Answered(call[t], fds[x], d)]
      /\ Answered(call[t], fds[x], d).at # "library"
      /\ call' \in [Thread -> Call] /\ \A u \in Thread : CallOK(call'[u])
      /\ answer' \subseteq Result
  BY <1>1, <1>2, AnswersType DEF Acted, Thing
<1> HIDE DEF x
<1>4. LibcTypes'
  BY <1>1, <1>2, <1>3 DEF LibcTypes, Output
<1>5. mine \ Held(call[t]) \subseteq mine' /\ \A e \in mine' : fds'[e] \in File \cup {Tty}
  BY <1>1, <1>2 DEF Owned, LibcTypes
<1>6. Owned'
  BY <1>3, <1>5, OwnedAfter
<1>7. Apart'
  BY <1>1, <1>9, ApartAfter
<1>8. QED BY <1>4, <1>6, <1>7 DEF Keeps

LEMMA DirKeeps ==
    ASSUME LibcTypes, MonTypes, Owned, Apart, NEW t \in Thread, Took(t),
           call[t].at = "library", AnswerDir(t)
    PROVE  Keeps
<1>1. UNCHANGED <<fds, mine>> /\ dirs \in [Ptr -> Dir \cup {None}] /\ CallOK(call[t])
  BY DEF AnswerDir, LibcTypes
<1>2. ASSUME call[t].op = "opendir", NEW p \in Ptr,
             dirs' = [dirs EXCEPT ![p] = call[t].x], Answers(t, call[t].x, p)
      PROVE  Keeps
  <2>1. call[t].x \in Dir
    BY <1>1, <1>2 DEF CallOK
  <2>2. call[t].x \in Acted /\ dirs' \in [Ptr -> Dir \cup {None}]
    BY <1>1, <1>2, <2>1 DEF Acted
  <2>3. QED BY <1>1, <1>2, <2>2, StillKeeps DEF Thing, Opening
<1>3. ASSUME call[t].op \in OnDir PROVE call[t].x \in Ptr /\ dirs[call[t].x] \in Acted
  BY <1>1, <1>3 DEF CallOK, Acted
<1>4. CASE call[t].op = "readdir" /\ Answers(t, dirs[call[t].x], Done) /\ UNCHANGED dirs
  BY <1>1, <1>3, <1>4, StillKeeps DEF Opening, OnDir
<1>5. CASE /\ call[t].op = "closedir"
           /\ dirs' = [dirs EXCEPT ![call[t].x] = None]
           /\ Answers(t, dirs[call[t].x], Done)
  <2>1. dirs' \in [Ptr -> Dir \cup {None}]
    BY <1>1, <1>5
  <2>2. QED BY <1>1, <1>3, <1>5, <2>1, StillKeeps DEF Opening, OnDir
<1>6. QED BY <1>2, <1>4, <1>5 DEF AnswerDir

LEMMA FailsKeeps ==
    ASSUME LibcTypes, MonTypes, Owned, Apart, NEW t \in Thread, Took(t),
           call[t].at = "library", Fails(t)
    PROVE  Keeps
<1> DEFINE obj == IF call[t].op \in OnFd THEN fds[call[t].x]
                  ELSE IF call[t].op \in OnDir THEN dirs[call[t].x] ELSE None
<1>1. /\ UNCHANGED <<fds, mine>> /\ dirs' \in [Ptr -> Dir \cup {None}]
      /\ Answers(t, obj, None)
  BY DEF Fails, LibcTypes
<1>2. obj \in Acted
  <2>1. CASE call[t].op \in OnFd
    BY <2>1, HeldFd DEF Acted
  <2>2. CASE call[t].op \in OnDir /\ call[t].op \notin OnFd
    BY <2>2 DEF Acted, LibcTypes, CallOK
  <2>3. QED BY <2>1, <2>2 DEF Acted
<1> HIDE DEF obj
<1>3. QED BY <1>1, <1>2, StillKeeps DEF Thing

\* Every answer.
LEMMA AnswerKeeps ==
    ASSUME LibcTypes, MonTypes, Owned, Apart, NEW t \in Thread, Took(t), Answer(t)
    PROVE  Keeps
<1>1. CASE AnswerPath(t)
  <2>1. UNCHANGED <<fds, mine>> /\ dirs' \in [Ptr -> Dir \cup {None}]
    BY <1>1 DEF AnswerPath, LibcTypes
  <2>2. QED BY <1>1, <2>1, StillKeeps DEF Answer, AnswerPath, Acted, Opening
<1>2. QED
  BY <1>1, OpenKeeps, UseKeeps, CloseKeeps, DupKeeps, DirKeeps, FailsKeeps DEF Answer

-----------------------------------------------------------------------------
(* What the wrappers write and keep.                                       *)

\* A name is a file, a directory, a terminal or nothing, never a number.
LEMMA StdNameType == ASSUME NEW d PROVE StdName(d) \in Object
BY DEF StdName, Object

LEMMA ReadFdType ==
    ASSUME LibcTypes, NEW d \in Fd \cup {None}
    PROVE  ReadFd(d) \in Object
<1>1. CASE d \in Std
  BY <1>1, StdNameType DEF ReadFd
<1>2. CASE d \notin Std
  BY <1>2 DEF ReadFd, LibcTypes, Output, Object
<1>3. QED BY <1>1, <1>2

LEMMA TripleType ==
    ASSUME NEW a \in Object, NEW b \in Object, NEW S, NEW e
    PROVE  <<a, b, e \in S>> \in Object \X Object \X BOOLEAN
<1>1. CASE e \in S
  <2>1. (e \in S) = TRUE
    BY <1>1
  <2>2. QED BY <2>1
<1>2. CASE e \notin S
  <2>1. (e \in S) = FALSE
    BY <1>2
  <2>2. QED BY <2>1
<1>3. QED BY <1>1, <1>2

LEMMA NamesType ==
    ASSUME LibcTypes, MonTypes, NEW t \in Thread, call[t].at = "back"
    PROVE  Names(t) \subseteq Object \X Object \X BOOLEAN
<1> DEFINE c == call[t]
<1>1. c \in Call /\ CallOK(c) /\ c.at = "back"
  BY DEF LibcTypes
<1>2. c.obj \in Object /\ \A d : TrueName(d, c.obj) \in Object
  <2>1. c.obj \in Object
    BY <1>1 DEF Call, Object
  <2>2. QED BY <2>1, StdNameType DEF TrueName, Object
<1>3. ASSUME c.op \in OnFd
      PROVE  <<FirstName(t), TrueName(c.x, c.obj), FALSE>> \in Object \X Object \X BOOLEAN
  <2>1. FirstName(t) \in Object
    BY <1>1, <1>3, ReadFdType DEF FirstName, MonTypes, CallOK
  <2>2. QED BY <1>2, <2>1
<1>4. ASSUME c.op \in {"creat", "fopen", "fdopen", "dup", "dup2"}
      PROVE  <<ReadFd(c.ret), TrueName(c.ret, c.obj), FALSE>> \in Object \X Object \X BOOLEAN
  <2>1. c.ret \in Fd \cup {None}
    BY <1>1, <1>4 DEF CallOK, Opening
  <2>2. QED BY <1>2, <2>1, ReadFdType
<1>5. ASSUME c.op \in OnDir
      PROVE  <<open_list[c.x], c.obj, c.x \in reused>> \in Object \X Object \X BOOLEAN
  <2>1. open_list[c.x] \in Object
    BY <1>1, <1>5 DEF CallOK, MonTypes, Object
  <2>2. QED BY <1>2, <2>1, TripleType
<1>6. CASE c.op \in {"creat", "fopen"}
  <2>1. Names(t) = {<<ReadFd(c.ret), TrueName(c.ret, c.obj), FALSE>>}
    BY <1>6 DEF Names, OnDir
  <2>2. QED BY <1>4, <1>6, <2>1
<1>7. CASE c.op \in {"use", "close"}
  <2>1. Names(t) = {<<FirstName(t), TrueName(c.x, c.obj), FALSE>>}
    BY <1>7 DEF Names, OnDir
  <2>2. QED BY <1>3, <1>7, <2>1 DEF OnFd
<1>8. CASE c.op \in {"fdopen", "dup", "dup2"}
  <2>1. Names(t) = {<<FirstName(t), TrueName(c.x, c.obj), FALSE>>}
                   \cup {<<ReadFd(c.ret), TrueName(c.ret, c.obj), FALSE>>}
    BY <1>8 DEF Names, OnDir
  <2>2. QED BY <1>3, <1>4, <1>8, <2>1 DEF OnFd
<1>9. CASE c.op \in OnDir
  <2>1. Names(t) = {<<open_list[c.x], c.obj, c.x \in reused>>}
    BY <1>9 DEF Names, OnDir
  <2>2. QED BY <1>5, <1>9, <2>1
<1>10. CASE c.op \notin {"creat", "fopen", "use", "close", "fdopen", "dup", "dup2"} \cup OnDir
  <2>1. Names(t) = {}
    BY <1>10 DEF Names
  <2>2. QED BY <2>1
<1>11. QED BY <1>6, <1>7, <1>8, <1>9, <1>10

\* The wrapper up to the real call, and the rest of it.
LEMMA EnterTypes ==
    ASSUME LibcTypes, MonTypes, LibcTypes', NEW t \in Thread, Enter(t)
    PROVE  MonTypes'
<1>1. call'[t].op \in SaysBefore => call'[t].x \in Fd \/ call'[t].at = "program"
  BY DEF LibcTypes, CallOK, SaysBefore, OnFd
<1>2. call'[t].at = "library"
  <2>1. \E op, x, y : Asks(t, op, x, y)
    BY DEF Enter, Ask
  <2>2. QED BY <2>1 DEF Asks, LibcTypes, Idle
<1>3. said' \in [Thread -> Object]
  <2>1. (IF call'[t].op \in SaysBefore THEN ReadFd(call'[t].x) ELSE None) \in Object
    BY <1>1, <1>2, ReadFdType DEF Object
  <2>2. QED BY <2>1 DEF Enter, MonTypes
<1>4. QED BY <1>3 DEF Enter, MonTypes

LEMMA LeaveTypes ==
    ASSUME LibcTypes, MonTypes, NEW t \in Thread, Leave(t)
    PROVE  LibcTypes' /\ MonTypes'
<1>1. /\ call[t] \in Call /\ CallOK(call[t]) /\ call[t].at = "back"
  BY DEF LibcTypes, Leave
<1>2. Idle \in Call /\ CallOK(Idle)
  BY DEF Idle, Call, Thing, CallOK
<1>3. call' \in [Thread -> Call] /\ \A u \in Thread : CallOK(call'[u])
  BY <1>2, CallChange DEF Leave
<1>4. answer' \subseteq Result
  <2>1. call[t].ret \in Thing \cup {Done}
    BY <1>1 DEF Call
  <2>2. \A e \in Errno(call[t]) : e \in {"call", "monitor"}
    BY DEF Errno
  <2>3. QED BY <2>1, <2>2 DEF Leave, Result, Given
<1>5. LibcTypes'
  BY <1>3, <1>4 DEF Leave, LibcTypes
<1>6. line' \subseteq Object \X Object \X BOOLEAN
  BY <1>1, NamesType DEF Leave
<1>7. open_list' \in [Ptr -> Dir \cup {None}]
  <2>1. call[t].op = "opendir" /\ call[t].ret # None =>
          call[t].ret \in Ptr /\ call[t].x \in Dir
    BY <1>1 DEF CallOK
  <2>2. QED BY <2>1 DEF Leave, ListAfter, Erased, MonTypes
<1>8. reused' \subseteq Ptr
  <2>1. call[t].op = "opendir" /\ call[t].ret # None => call[t].ret \in Ptr
    BY <1>1 DEF CallOK
  <2>2. QED BY <2>1 DEF Leave, ReusedAfter, MonTypes
<1>9. said' \in [Thread -> Object]
  BY DEF Leave, MonTypes, Object
<1>10. MonTypes'
  BY <1>6, <1>7, <1>8, <1>9 DEF Leave, MonTypes
<1>11. QED BY <1>5, <1>10

-----------------------------------------------------------------------------
(* The invariant of the monitored program.                                 *)

Inv == TypeOK /\ Owned /\ Apart

LEMMA InvInit == MonitorInit => Inv
<1> SUFFICES ASSUME MonitorInit PROVE Inv
  OBVIOUS
<1> USE LibcAssumption, FsmonAssumption
<1>1. output \in Output
  BY DEF MonitorInit, Construct, Output
<1>2. stderr_fd \in Fd \cup {None}
      /\ (stderr_fd # None => stderr_fd \notin Std /\ output # None)
  BY DEF MonitorInit, Construct
<1>3. fds \in [Fd -> File \cup Output] /\ (\A d \in Std : d \in Fd /\ fds[d] = Tty)
      /\ (stderr_fd # None => fds[stderr_fd] = output)
  BY <1>1, <1>2 DEF MonitorInit, Construct, Output, Std
<1>4. /\ Idle \in Call /\ CallOK(Idle)
      /\ Held(Idle) = {} /\ Acts(Idle) = {} /\ ~Coming(Idle)
  BY DEF Idle, Call, Thing, CallOK, Held, Acts, Coming
<1>5. LibcTypes
  BY <1>3, <1>4 DEF LibcTypes, MonitorInit
<1>6. MonTypes
  BY <1>1, <1>2 DEF MonTypes, MonitorInit, Object
<1>7. Owned
  BY <1>3, <1>4 DEF Owned, MonitorInit
<1>8. Apart
  BY <1>2, <1>3 DEF Apart, MonitorInit
<1>9. QED BY <1>5, <1>6, <1>7, <1>8, TypeSplit DEF Inv

LEMMA InvNext == Inv /\ [MonitorNext]_vars => Inv'
<1> SUFFICES ASSUME Inv, [MonitorNext]_vars PROVE Inv'
  OBVIOUS
<1>1. LibcTypes /\ MonTypes /\ Owned /\ Apart
  BY TypeSplit DEF Inv
<1>2. ASSUME LibcTypes', MonTypes', Owned', Apart' PROVE Inv'
  BY <1>2, TypeSplit DEF Inv, TypeOK, LibcTypes, MonTypes
<1>3. ASSUME NEW t \in Thread, Enter(t) PROVE Inv'
  <2>1. LibcTypes' /\ Owned'
    BY <1>1, <1>3, AskKeeps DEF Enter
  <2>2. MonTypes'
    BY <1>1, <1>3, <2>1, EnterTypes
  <2>3. Apart'
    BY <1>1, <1>3 DEF Enter, Ask, Apart
  <2>4. QED BY <1>2, <2>1, <2>2, <2>3
<1>4. ASSUME NEW t \in Thread, Real(t) PROVE Inv'
  <2>1. LibcTypes' /\ Owned' /\ Apart'
    BY <1>1, <1>4, AnswerKeeps DEF Real, Keeps, Took
  <2>2. MonTypes'
    BY <1>1, <1>4, <2>1 DEF Real, MonTypes, LibcTypes
  <2>3. QED BY <1>2, <2>1, <2>2
<1>5. ASSUME NEW t \in Thread, Leave(t) PROVE Inv'
  <2>1. LibcTypes' /\ MonTypes'
    BY <1>1, <1>5, LeaveTypes
  <2>2. Owned'
    <3>1. Idle.at # "library" /\ call' = [call EXCEPT ![t] = Idle]
          /\ UNCHANGED <<fds, mine>>
      BY <1>5 DEF Leave, Idle
    <3>2. mine \ Held(call[t]) \subseteq mine' /\ \A d \in mine' : fds'[d] \in File \cup {Tty}
      BY <1>1, <3>1 DEF Owned
    <3>3. QED BY <1>1, <3>1, <3>2, OwnedAfter
  <2>3. Apart'
    BY <1>1, <1>5 DEF Leave, Apart
  <2>4. QED BY <1>2, <2>1, <2>2, <2>3
<1>6. ASSUME NEW t \in Thread, Crash(t) PROVE Inv'
  <2>1. LibcTypes' /\ Owned' /\ Apart'
    BY <1>1, <1>6 DEF Crash, libcVars, LibcTypes, Owned, Apart
  <2>2. MonTypes'
    BY <1>1, <1>6 DEF Crash, MonTypes
  <2>3. QED BY <1>2, <2>1, <2>2
<1>7. CASE UNCHANGED vars
  BY <1>7 DEF vars, libcVars, monVars, Inv, TypeOK, Owned, Apart
<1>8. QED BY <1>3, <1>4, <1>5, <1>6, <1>7 DEF MonitorNext

\* Every variable of program, library and monitor stays in its type, for any
\* number of threads and however their wrappers interleave.
THEOREM TypeCorrect == MonitorSpec => []TypeOK
<1>1. Inv => TypeOK
  BY DEF Inv
<1>2. QED BY <1>1, InvInit, InvNext, PTL DEF MonitorSpec

\* No call of the program, from whatever thread, closes or replaces the
\* descriptor the monitor writes to, but a dup2 to the number it has: whatever
\* else the program opens, duplicates, closes or redirects, to numbers it was
\* given or took, the log goes on going where it went (Construct, dup2).
THEOREM LogSeparate == MonitorSpec => []LogApart
<1>1. Inv => LogApart
  BY DEF Inv, Apart, LogApart
<1>2. QED BY <1>1, InvInit, InvNext, PTL DEF MonitorSpec

-----------------------------------------------------------------------------
(* The monitored program behaves as it may without the monitor.            *)

\* What the abstract library shares with the detailed one.
LEMMA Same ==
    ASSUME NEW t, NEW op, NEW x, NEW y
    PROVE  /\ Roughly!Opening = Opening /\ Roughly!OnFd = OnFd
           /\ Roughly!OnDir = OnDir /\ Roughly!Idle = Idle /\ Roughly!Std = Std
           /\ Asks(t, op, x, y) => Roughly!Asks(t, op, x, y)
           /\ Answers(t, x, y) => Roughly!Answers(t, x, y)
           /\ Roughly!Idling(x) = Idling(x)
           /\ Roughly!NoneComing = NoneComing /\ Roughly!NoneTaking = NoneTaking
           /\ Roughly!Room = Room
<1>1. /\ Roughly!Opening = Opening /\ Roughly!OnFd = OnFd
      /\ Roughly!OnDir = OnDir /\ Roughly!Idle = Idle /\ Roughly!Std = Std
  BY DEF Roughly!Opening, Roughly!OnFd, Roughly!OnDir, Roughly!Idle, Roughly!Std,
         Opening, OnFd, OnDir, Idle, Std
<1>2. Asks(t, op, x, y) => Roughly!Asks(t, op, x, y)
  BY <1>1 DEF Roughly!Asks, Asks
<1>3. Answers(t, x, y) => Roughly!Answers(t, x, y)
  BY DEF Roughly!Answers, Answers
<1>4. Roughly!Idling(x) = Idling(x)
  BY DEF Roughly!Idling, Roughly!InUse, Idling, InUse
<1>5. \A c : Roughly!Coming(c) = Coming(c) /\ Roughly!Taking(c) = Taking(c)
  BY <1>1 DEF Roughly!Coming, Coming, Roughly!Taking, Taking
<1>6. Roughly!NoneComing = NoneComing /\ Roughly!NoneTaking = NoneTaking
  BY <1>5 DEF Roughly!NoneComing, NoneComing, Roughly!NoneTaking, NoneTaking
<1>7. Roughly!Room = Room
  <2> DEFINE coming == {u \in Thread : Coming(call[u]) \/ Taking(call[u])}
  <2>1. Room = (Cardinality(mine) < MaxOpen - Cardinality(coming))
    BY Zenon DEF Room
  <2>2. \A S : Roughly!Cardinality(S) = Cardinality(S)
    BY Zenon DEF Roughly!Cardinality, Cardinality
  <2>3. coming = {u \in Thread : Roughly!Coming(call[u]) \/ Roughly!Taking(call[u])}
    BY <1>5
  <2>4. Roughly!Room = (Cardinality(mine) < MaxOpen - Cardinality(coming))
    BY <2>2, <2>3, Zenon DEF Roughly!Room
  <2>5. QED BY <2>1, <2>4
<1>8. QED BY <1>1, <1>2, <1>3, <1>4, <1>6, <1>7

\* The abstract descriptor table, and when a step leaves it alone.
LEMMA SeenFds ==
    ASSUME NEW d \in mine, LibcTypes
    PROVE  d \in Fd /\ Seen \in [Fd -> File \cup Output] /\ Seen[d] = fds[d]
BY LibcAssumption DEF Seen, LibcTypes, Output

LEMMA SeenStill ==
    ASSUME UNCHANGED <<fds, mine>>
    PROVE  Seen' = Seen
BY DEF Seen

\* A descriptor the program gets, and one it gives back.
LEMMA SeenGets ==
    ASSUME LibcTypes, NEW d \in Fd, NEW v, fds' = [fds EXCEPT ![d] = v],
           mine' = mine \cup {d}
    PROVE  Seen' = [Seen EXCEPT ![d] = v]
BY DEF Seen, LibcTypes

LEMMA SeenGives ==
    ASSUME LibcTypes, NEW d \in Fd, fds' = [fds EXCEPT ![d] = None],
           mine' = mine \ {d}
    PROVE  Seen' = [Seen EXCEPT ![d] = None]
BY DEF Seen, LibcTypes

\* The wrapper up to the real call asks for it.
LEMMA AskAsUsual ==
    ASSUME NEW t \in Thread, Ask(t)
    PROVE  Roughly!Ask(t)
<1>1. Seen' = Seen /\ UNCHANGED <<mine, dirs>> /\ call[t].at = "program"
  BY SeenStill DEF Ask
<1>2. \/ \E op \in Roughly!Opening, f \in File :
              Roughly!Room /\ Roughly!NoneTaking /\ Roughly!Asks(t, op, f, None)
      \/ \E op \in Roughly!OnFd \ {"dup2"}, d \in mine :
              /\ Roughly!Idling(d)
              /\ op = "dup" => Roughly!Room /\ Roughly!NoneTaking
              /\ Roughly!Asks(t, op, d, None)
      \/ \E d \in mine, e \in Fd :
              /\ Roughly!Idling(d) /\ Roughly!Idling(e)
              /\ e \notin mine => Roughly!Room /\ Roughly!NoneComing
              /\ Roughly!Asks(t, "dup2", d, e)
      \/ \E n \in Dir : Roughly!Asks(t, "opendir", n, None)
      \/ \E op \in Roughly!OnDir, p \in Ptr :
              dirs[p] # None /\ Roughly!Idling(p) /\ Roughly!Asks(t, op, p, None)
      \/ \E op \in {"path", "flushall"} : Roughly!Asks(t, op, None, None)
  BY Same, Zenon DEF Ask
<1>3. QED BY <1>1, <1>2 DEF Roughly!Ask, Seen

\* The real function answers the same on the descriptors the program sees.
LEMMA AnswerAsUsual ==
    ASSUME Inv, NEW t \in Thread, Answer(t)
    PROVE  Roughly!Answer(t)
<1>1. LibcTypes /\ MonTypes /\ Owned /\ Apart /\ call[t].at = "library"
  BY TypeSplit DEF Inv, Answer
<1>2. ASSUME call[t].op \in OnFd
      PROVE  call[t].x \in mine /\ call[t].x \in Fd /\ Seen[call[t].x] = fds[call[t].x]
  BY <1>1, <1>2, HeldFd, SeenFds
<1>3. CASE AnswerOpen(t)
  <2>1. PICK d \in Fd : /\ fds[d] = None
                        /\ fds' = [fds EXCEPT ![d] = call[t].x]
                        /\ mine' = mine \cup {d}
                        /\ Answers(t, call[t].x, d)
    BY <1>3 DEF AnswerOpen, Free
  <2>2. Roughly!Free(d) /\ Seen' = [Seen EXCEPT ![d] = call[t].x]
    BY <1>1, <2>1, SeenGets DEF Seen, Roughly!Free
  <2>3. call[t].op \in Roughly!Opening /\ dirs' = dirs
        /\ Roughly!Answers(t, call[t].x, d)
    BY <1>3, <2>1, Same DEF AnswerOpen
  <2>4. Roughly!AnswerOpen(t)
    BY <2>1, <2>2, <2>3 DEF Roughly!AnswerOpen, Seen
  <2>5. QED BY <1>1, <2>4 DEF Roughly!Answer
<1>4. CASE AnswerUse(t)
  <2>1. call[t].op \in OnFd /\ UNCHANGED <<fds, mine, dirs>>
    BY <1>4 DEF AnswerUse, OnFd
  <2>2. Seen' = Seen /\ Seen[call[t].x] = fds[call[t].x]
    BY <1>2, <2>1, SeenStill
  <2>3. \/ call[t].op = "use" /\ Answers(t, Seen[call[t].x], Done)
        \/ call[t].op = "fdopen" /\ Answers(t, Seen[call[t].x], call[t].x)
    BY <1>4, <2>2 DEF AnswerUse
  <2>6. \/ call[t].op = "use" /\ Roughly!Answers(t, Seen[call[t].x], Done)
        \/ call[t].op = "fdopen" /\ Roughly!Answers(t, Seen[call[t].x], call[t].x)
    <3>1. CASE call[t].op = "use" /\ Answers(t, Seen[call[t].x], Done)
      BY <3>1 DEF Answers, Roughly!Answers
    <3>2. CASE call[t].op = "fdopen" /\ Answers(t, Seen[call[t].x], call[t].x)
      BY <3>2 DEF Answers, Roughly!Answers
    <3>3. QED BY <2>3, <3>1, <3>2
  <2>4. Roughly!AnswerUse(t)
    BY <2>1, <2>2, <2>6 DEF Roughly!AnswerUse, Seen
  <2>5. QED BY <1>1, <2>4 DEF Roughly!Answer
<1>5. CASE AnswerClose(t)
  <2>1. call[t].op = "close" /\ call[t].op \in OnFd /\ dirs' = dirs
    BY <1>5 DEF AnswerClose, OnFd
  <2>2. Seen[call[t].x] = fds[call[t].x] /\ Seen' = [Seen EXCEPT ![call[t].x] = None]
    BY <1>1, <1>2, <1>5, <2>1, SeenGives DEF AnswerClose
  <2>3. mine' = mine \ {call[t].x} /\ Roughly!Answers(t, Seen[call[t].x], Done)
    BY <1>5, <2>2, Same DEF AnswerClose
  <2>4. Roughly!AnswerClose(t)
    BY <2>1, <2>2, <2>3 DEF Roughly!AnswerClose, Seen
  <2>5. QED BY <1>1, <2>4 DEF Roughly!Answer
<1>6. CASE AnswerDup(t)
  <2>1. PICK d \in Fd : /\ \/ call[t].op = "dup" /\ fds[d] = None
                           \/ call[t].op = "dup2" /\ d = call[t].y
                        /\ fds' = [fds EXCEPT ![d] = fds[call[t].x]]
                        /\ mine' = mine \cup {d} /\ dirs' = dirs
                        /\ Answers(t, fds[call[t].x], d)
    BY <1>6 DEF AnswerDup, Free
  <2>2. Seen[call[t].x] = fds[call[t].x]
    BY <1>2, <2>1 DEF OnFd
  <2>3. /\ Seen' = [Seen EXCEPT ![d] = Seen[call[t].x]]
        /\ call[t].op = "dup" => Roughly!Free(d)
    BY <1>1, <2>1, <2>2, SeenGets DEF Seen, Roughly!Free
  <2>4. Roughly!Answers(t, Seen[call[t].x], d)
    BY <2>1, <2>2, Same
  <2>5. Roughly!AnswerDup(t)
    BY <2>1, <2>3, <2>4 DEF Roughly!AnswerDup, Seen
  <2>6. QED BY <1>1, <2>5 DEF Roughly!Answer
<1>7. CASE AnswerDir(t)
  <2>1. Seen' = Seen /\ mine' = mine
    BY <1>7, SeenStill DEF AnswerDir
  <2>2. Roughly!AnswerDir(t)
    BY <1>7, <2>1, Same DEF AnswerDir, Roughly!AnswerDir, Seen
  <2>3. QED BY <1>1, <2>2 DEF Roughly!Answer
<1>8. CASE AnswerPath(t)
  <2>1. Seen' = Seen /\ mine' = mine /\ dirs' = dirs
    BY <1>8, SeenStill DEF AnswerPath
  <2>2. Roughly!AnswerPath(t)
    BY <1>8, <2>1, Same DEF AnswerPath, Roughly!AnswerPath, Seen
  <2>3. QED BY <1>1, <2>2 DEF Roughly!Answer
<1>9. CASE Fails(t)
  <2>1. Seen' = Seen /\ mine' = mine /\ dirs' = dirs /\ call[t].op \in CanFail
    BY <1>9, SeenStill DEF Fails
  <2>2. Roughly!Answers(t, IF call[t].op \in Roughly!OnFd THEN Seen[call[t].x]
                               ELSE IF call[t].op \in Roughly!OnDir
                                    THEN dirs[call[t].x] ELSE None, None)
    <3>1. CASE call[t].op \in OnFd
      BY <1>2, <1>9, <3>1, Same DEF Fails
    <3>2. CASE call[t].op \notin OnFd
      BY <1>9, <3>2, Same DEF Fails
    <3>3. QED BY <3>1, <3>2
  <2>3. Roughly!Fails(t)
    BY <2>1, <2>2 DEF Roughly!Fails, Seen
  <2>4. QED BY <1>1, <2>3 DEF Roughly!Answer
<1>10. QED
  BY <1>3, <1>4, <1>5, <1>6, <1>7, <1>8, <1>9 DEF Answer

\* The rest of the wrapper returns what the library answered.
LEMMA LeaveAsUsual ==
    ASSUME NEW t \in Thread, Leave(t)
    PROVE  Roughly!Return(t)
<1>1. Seen' = Seen /\ mine' = mine /\ dirs' = dirs /\ call[t].at = "back"
      /\ call' = [call EXCEPT ![t] = Roughly!Idle]
  BY SeenStill, Same DEF Leave
<1>2. PICK e : answer' = {[to |-> t, ret |-> call[t].ret, errno |-> e]}
  BY DEF Leave, Given
<1>3. {[r EXCEPT !.errno = "call"] : r \in answer'}
        = {[to |-> t, ret |-> call[t].ret, errno |-> "call"]}
  BY <1>2
<1>4. QED BY <1>1, <1>3 DEF Roughly!Return, Seen

\* A program under the monitor gets answers it may get without it, for any
\* number of threads and whatever numbers they duplicate to, until a wrapper
\* ends it: only the free numbers it is given and the error codes of failed
\* calls may be others (the wrappers).
THEOREM MonitoredAsUsual == MonitorSpec => AsUsualButNumbers
<1>1. MonitorInit => Roughly!Init
  <2> SUFFICES ASSUME MonitorInit PROVE Roughly!Init
    OBVIOUS
  <2>1. Seen = [d \in Fd |-> IF d \in Std THEN Tty ELSE None]
    BY LibcAssumption DEF Seen, MonitorInit, Construct
  <2>2. {[r EXCEPT !.errno = "call"] : r \in answer} = {}
    BY DEF MonitorInit
  <2>3. QED BY <2>1, <2>2, Same DEF Roughly!Init, MonitorInit, Seen
<1>2. Inv /\ [MonitorNext]_vars => [Roughly!Next]_Roughly!libcVars
  <2> SUFFICES ASSUME Inv, [MonitorNext]_vars
               PROVE  [Roughly!Next]_Roughly!libcVars
    OBVIOUS
  <2>1. ASSUME NEW t \in Thread, Enter(t) PROVE Roughly!Next
    BY <2>1, AskAsUsual DEF Enter, Roughly!Next
  <2>2. ASSUME NEW t \in Thread, Real(t) PROVE Roughly!Next
    BY <2>2, AnswerAsUsual DEF Real, Roughly!Next
  <2>3. ASSUME NEW t \in Thread, Leave(t) PROVE Roughly!Next
    BY <2>3, LeaveAsUsual DEF Roughly!Next
  <2>4. CASE UNCHANGED libcVars
    BY <2>4, SeenStill DEF libcVars, Roughly!libcVars, Seen
  <2>5. QED
    BY <2>1, <2>2, <2>3, <2>4 DEF MonitorNext, Crash, vars
<1>3. QED
  BY <1>1, <1>2, InvInit, InvNext, PTL DEF MonitorSpec, AsUsualButNumbers, Roughly!Spec

-----------------------------------------------------------------------------
(* The names of descriptors.                                               *)

\* The descriptors a wrapper looks up after its real call.
Reads(c) ==
    IF c.at # "back" THEN {}
    ELSE (IF c.op \in {"use", "fdopen"} THEN {c.x} ELSE {})
         \cup (IF c.op \in Opening \cup {"fdopen", "dup", "dup2"} THEN {c.ret} \ {None}
               ELSE {})

\* They are still open on what the call acted on.
ReadsRight == \A t \in Thread : \A d \in Reads(call[t]) :
                  d \in mine /\ fds[d] = call[t].obj

\* No call of another thread in the library relies on them.
Alone == \A t, u \in Thread : t # u => Reads(call[t]) \cap Held(call[u]) = {}

\* A name read before the real call is the right one, before and after.
SaidRight == \A t \in Thread : call[t].op \in SaysBefore =>
    /\ call[t].at = "library" => said[t] = ReadFd(call[t].x)
    /\ call[t].at = "back" => said[t] = TrueName(call[t].x, call[t].obj)

FdInv == ReadsRight /\ Alone /\ SaidRight

\* Nobody relies on anything in the program, and an idle descriptor is not
\* looked up.
LEMMA IdlingReads ==
    ASSUME NEW x, Idling(x), NEW u \in Thread
    PROVE  x \notin Reads(call[u])
BY DEF Idling, InUse, Reads

LEMMA FdAsk ==
    ASSUME LibcTypes, FdInv, NEW t \in Thread, NEW op \in Op, NEW x \in Thing,
           NEW y \in Thing, Asks(t, op, x, y), UNCHANGED <<fds, mine>>,
           op \in OnFd => Idling(x), op = "dup2" => Idling(y),
           said' = [said EXCEPT ![t] = IF op \in SaysBefore THEN ReadFd(x) ELSE None],
           said \in [Thread -> Object]
    PROVE  FdInv'
<1> DEFINE new == Asked(op, x, y)
<1>1. call' = [call EXCEPT ![t] = new]
  BY DEF Asks, Asked
<1>2. new.at = "library" /\ new.op = op /\ new.x = x /\ new.y = y
  BY AskedType
<1> HIDE DEF new
<1>3. call'[t] = new /\ \A u \in Thread \ {t} : call'[u] = call[u] /\ said'[u] = said[u]
  BY <1>1 DEF LibcTypes
<1>4. Reads(new) = {} /\ \A u \in Thread : Reads(call[u]) \cap Held(new) = {}
  BY <1>2, IdlingReads DEF Reads, Held, OnFd
<1>5. ReadsRight'
  BY <1>3, <1>4 DEF FdInv, ReadsRight
<1>6. Alone'
  BY <1>3, <1>4 DEF FdInv, Alone
<1>7. ASSUME NEW u \in Thread, call'[u].op \in SaysBefore
      PROVE  /\ call'[u].at = "library" => said'[u] = ReadFd(call'[u].x)
             /\ call'[u].at = "back" => said'[u] = TrueName(call'[u].x, call'[u].obj)
  <2>1. CASE u = t
    BY <1>2, <1>3, <1>7, <2>1
  <2>2. CASE u # t
    BY <1>3, <1>7, <2>2 DEF FdInv, SaidRight
  <2>3. QED BY <2>1, <2>2
<1>8. SaidRight'
  BY <1>7 DEF SaidRight, ReadFd
<1>9. QED BY <1>5, <1>6, <1>8 DEF FdInv

\* What an answer has to respect: the descriptors of other calls, and that the
\* ones looked up now are open on what it acted on.
LEMMA FdAnswer ==
    ASSUME LibcTypes, Owned, FdInv, NEW t \in Thread, call[t].at = "library",
           NEW obj \in Acted, NEW ret \in Thing \cup {Done},
           Answers(t, obj, ret), UNCHANGED said,
           \A u \in Thread \ {t} : \A d \in Reads(call[u]) \cup Acts(call[u]) :
               d \in mine' /\ fds'[d] = fds[d],
           \A d \in Reads(Answered(call[t], obj, ret)) :
               /\ d \in mine' /\ fds'[d] = obj
               /\ \A u \in Thread \ {t} : d \notin Held(call[u]),
           call[t].op \in SaysBefore => obj = fds[call[t].x]
    PROVE  FdInv'
<1> DEFINE new == Answered(call[t], obj, ret)
<1>1. call' = [call EXCEPT ![t] = new]
  BY DEF Answers, Answered, LibcTypes
<1>2. /\ new.at = "back" /\ new.op = call[t].op /\ new.x = call[t].x /\ new.obj = obj
      /\ Held(new) = {}
  BY AnsweredType DEF LibcTypes, Held
<1>3. /\ \A d \in Reads(new) : d \in mine' /\ fds'[d] = obj
      /\ \A d \in Reads(new) : \A u \in Thread \ {t} : d \notin Held(call[u])
  OBVIOUS
<1> HIDE DEF new
<1>4. call'[t] = new /\ \A u \in Thread \ {t} : call'[u] = call[u]
  BY <1>1 DEF LibcTypes
<1>5. ReadsRight'
  BY <1>2, <1>3, <1>4 DEF FdInv, ReadsRight
<1>6. Alone'
  BY <1>2, <1>3, <1>4 DEF FdInv, Alone
<1>7. ASSUME NEW u \in Thread, call'[u].op \in SaysBefore
      PROVE  /\ call'[u].at = "library" => said'[u] = ReadFd(call[u].x)'
             /\ call'[u].at = "back" => said'[u] = TrueName(call'[u].x, call'[u].obj)
  <2>1. CASE u = t
    <3>1. call[t].op \in OnFd /\ call[t].x \in Fd /\ call[t].x # None
      BY <1>2, <1>4, <1>7, <2>1, LibcAssumption DEF SaysBefore, OnFd, LibcTypes, CallOK
    <3>2. said[t] = ReadFd(call[t].x) /\ obj = fds[call[t].x]
      BY <1>2, <1>4, <1>7, <2>1 DEF FdInv, SaidRight
    <3>3. said[t] = TrueName(call[t].x, obj)
      BY <3>1, <3>2 DEF ReadFd, TrueName
    <3>4. QED BY <1>2, <1>4, <2>1, <3>3
  <2>2. CASE u # t
    <3>1. call'[u] = call[u]
      BY <1>4, <2>2
    <3>2. CASE call[u].at = "library"
      <4>1. call[u].x \in Acts(call[u])
        BY <1>7, <3>1, <3>2 DEF Acts, SaysBefore, OnFd
      <4>2. fds'[call[u].x] = fds[call[u].x]
        BY <2>2, <4>1
      <4>3. said'[u] = ReadFd(call[u].x)
        BY <1>7, <3>1, <3>2 DEF FdInv, SaidRight
      <4>4. ReadFd(call[u].x)' = ReadFd(call[u].x)
        BY <3>1, <4>2 DEF ReadFd
      <4>5. QED BY <3>1, <3>2, <4>3, <4>4
    <3>3. CASE call[u].at # "library"
      <4>1. call[u].at = "back" => said'[u] = TrueName(call[u].x, call[u].obj)
        BY <1>7, <3>1 DEF FdInv, SaidRight
      <4>2. QED BY <3>1, <3>3, <4>1
    <3>4. QED BY <3>2, <3>3
  <2>3. QED BY <2>1, <2>2
<1>8. SaidRight'
  BY <1>7 DEF SaidRight
<1>9. QED BY <1>5, <1>6, <1>8 DEF FdInv

\* The descriptors two kinds of answers may change: one that was free, and one
\* the call itself relies on.  Neither is another call's.
LEMMA FreeIsNobodys ==
    ASSUME LibcTypes, Owned, FdInv, NEW d \in Fd, fds[d] = None, NEW u \in Thread,
           NEW t \in Thread, Coming(call[t])
    PROVE  d \notin Reads(call[u]) \cup Held(call[u])
<1>1. d \notin mine
  <2>1. fds[d] \notin File \cup {Tty}
    BY LibcAssumption
  <2>2. QED BY <2>1 DEF Owned
<1>2. QED BY <1>1 DEF Owned, FdInv, ReadsRight

LEMMA HeldIsNobodyElses ==
    ASSUME Owned, FdInv, NEW t \in Thread, NEW d \in Held(call[t]),
           NEW u \in Thread \ {t}
    PROVE  d \notin Reads(call[u]) \cup Held(call[u])
BY DEF Owned, FdInv, Alone

\* What others rely on is the program's.
LEMMA OthersMine ==
    ASSUME LibcTypes, Owned, FdInv, NEW u \in Thread,
           NEW d \in Reads(call[u]) \cup Acts(call[u])
    PROVE  d \in mine /\ d \in Fd
BY DEF Owned, FdInv, ReadsRight, LibcTypes

LEMMA FdOpen ==
    ASSUME LibcTypes, Owned, FdInv, NEW t \in Thread, call[t].at = "library",
           AnswerOpen(t), UNCHANGED said
    PROVE  FdInv'
<1>1. PICK d \in Fd : /\ fds[d] = None
                      /\ fds' = [fds EXCEPT ![d] = call[t].x]
                      /\ mine' = mine \cup {d}
                      /\ Answers(t, call[t].x, d)
  BY DEF AnswerOpen, Free
<1>2. call[t].op \in Opening /\ call[t].x \in File /\ call[t] \in Call
  BY DEF LibcTypes, CallOK, AnswerOpen
<1>3. Reads(Answered(call[t], call[t].x, d)) \subseteq {d}
  BY <1>1, <1>2, AnsweredType DEF Reads, Opening, Acted, Thing
<1>4. fds'[d] = call[t].x
  BY <1>1 DEF LibcTypes
<1>10. \A u \in Thread : d \notin Reads(call[u]) \cup Held(call[u])
  BY <1>1, <1>2, FreeIsNobodys DEF Coming
<1>5. ASSUME NEW u \in Thread \ {t}, NEW e \in Reads(call[u]) \cup Acts(call[u])
      PROVE  e \in mine' /\ fds'[e] = fds[e]
  BY <1>1, <1>5, <1>10, ActsHeld, OthersMine DEF LibcTypes
<1>6. call[t].op \notin SaysBefore
  BY <1>2 DEF Opening, SaysBefore
<1>7. d \in mine' /\ \A u \in Thread \ {t} : d \notin Held(call[u])
  BY <1>1, <1>10
<1>8. call[t].x \in Acted /\ d \in Thing \cup {Done}
  BY <1>2 DEF Acted, Thing
<1>9. QED BY <1>1, <1>3, <1>4, <1>5, <1>6, <1>7, <1>8, FdAnswer

\* Answers that change no descriptor: what the wrapper looks up afterwards is
\* at most the descriptor the call relied on.
LEMMA FdStill ==
    ASSUME LibcTypes, Owned, FdInv, NEW t \in Thread, call[t].at = "library",
           UNCHANGED <<fds, mine, said>>,
           NEW obj \in Acted, NEW ret \in Thing \cup {Done}, Answers(t, obj, ret),
           call[t].op \in OnFd => obj = fds[call[t].x],
           \/ ret = None
           \/ call[t].op \notin Opening \cup {"fdopen", "dup", "dup2"}
           \/ (call[t].op = "fdopen" /\ ret = call[t].x)
    PROVE  FdInv'
<1>1. call[t] \in Call
  BY DEF LibcTypes
<1>2. ASSUME NEW d \in Reads(Answered(call[t], obj, ret))
      PROVE  d \in Acts(call[t]) /\ fds[d] = obj
  <2>1. d = call[t].x /\ call[t].op \in {"use", "fdopen"}
    BY <1>1, <1>2, AnsweredType DEF Reads, Opening
  <2>2. QED BY <2>1 DEF Acts, OnFd
<1>3. \A u \in Thread \ {t} : \A d \in Reads(call[u]) \cup Acts(call[u]) :
          d \in mine' /\ fds'[d] = fds[d]
  BY OthersMine
<1>4. ASSUME NEW d \in Reads(Answered(call[t], obj, ret))
      PROVE  /\ d \in mine' /\ fds'[d] = obj
             /\ \A u \in Thread \ {t} : d \notin Held(call[u])
  BY <1>2, ActsHeld, HeldIsNobodyElses, OthersMine
<1>5. call[t].op \in SaysBefore => obj = fds[call[t].x]
  BY DEF SaysBefore, OnFd
<1>6. QED BY <1>3, <1>4, <1>5, FdAnswer

LEMMA FdClose ==
    ASSUME LibcTypes, MonTypes, Owned, Apart, FdInv, NEW t \in Thread,
           call[t].at = "library", AnswerClose(t), UNCHANGED said
    PROVE  FdInv'
<1> DEFINE x == call[t].x
<1>1. /\ call[t].op = "close" /\ x \in Fd /\ x \in Held(call[t]) /\ fds[x] \in Acted
      /\ call[t] \in Call
  BY HeldFd DEF AnswerClose, OnFd, Held, Acted, LibcTypes
<1>2. /\ fds' = [fds EXCEPT ![x] = None] /\ mine' = mine \ {x}
      /\ Answers(t, fds[x], Done)
  BY DEF AnswerClose
<1>3. Reads(Answered(call[t], fds[x], Done)) = {}
  BY <1>1, AnsweredType DEF Reads, Opening
<1>4. \A u \in Thread \ {t} : \A d \in Reads(call[u]) \cup Acts(call[u]) :
          d \in mine' /\ fds'[d] = fds[d]
  BY <1>1, <1>2, ActsHeld, HeldIsNobodyElses, OthersMine DEF LibcTypes
<1>5. QED BY <1>1, <1>2, <1>3, <1>4, FdAnswer

LEMMA FdDup ==
    ASSUME LibcTypes, MonTypes, Owned, Apart, FdInv, NEW t \in Thread,
           call[t].at = "library", AnswerDup(t), UNCHANGED said
    PROVE  FdInv'
<1> DEFINE x == call[t].x
<1>1. PICK d \in Fd : /\ \/ call[t].op = "dup" /\ fds[d] = None
                         \/ call[t].op = "dup2" /\ d = call[t].y
                      /\ fds' = [fds EXCEPT ![d] = fds[x]]
                      /\ mine' = mine \cup {d}
                      /\ Answers(t, fds[x], d)
  BY DEF AnswerDup, Free
<1>2. x \in Fd /\ fds[x] \in Acted /\ call[t] \in Call
  BY <1>1, HeldFd DEF OnFd, Acted, LibcTypes
<1>3. Reads(Answered(call[t], fds[x], d)) \subseteq {d}
  BY <1>1, <1>2, AnsweredType DEF Reads, Opening, Thing
<1>4. \A u \in Thread \ {t} : d \notin Reads(call[u]) \cup Held(call[u])
  BY <1>1, FreeIsNobodys, HeldIsNobodyElses DEF Held, OnFd, Coming
<1>5. \A u \in Thread \ {t} : \A e \in Reads(call[u]) \cup Acts(call[u]) :
          e \in mine' /\ fds'[e] = fds[e]
  BY <1>1, <1>4, ActsHeld, OthersMine DEF LibcTypes
<1>6. d \in mine' /\ fds'[d] = fds[x]
  BY <1>1 DEF LibcTypes
<1>7. d \in Thing \cup {Done}
  BY DEF Thing
<1>8. QED BY <1>1, <1>2, <1>3, <1>4, <1>5, <1>6, <1>7, FdAnswer

\* Every answer.
LEMMA FdReal ==
    ASSUME LibcTypes, MonTypes, Owned, Apart, FdInv, NEW t \in Thread,
           Answer(t), UNCHANGED said
    PROVE  FdInv'
<1>1. call[t].at = "library" /\ CallOK(call[t]) /\ call[t] \in Call
  BY DEF Answer, LibcTypes
<1>2. ASSUME call[t].op \in OnFd PROVE call[t].x \in Fd /\ fds[call[t].x] \in Acted
  BY <1>1, <1>2, HeldFd DEF Acted
<1>3. CASE AnswerUse(t)
  <2>1. call[t].op \in OnFd /\ UNCHANGED <<fds, mine>>
    BY <1>3 DEF AnswerUse, OnFd
  <2>2. CASE call[t].op = "use" /\ Answers(t, fds[call[t].x], Done)
    BY <1>1, <1>2, <2>1, <2>2, FdStill DEF Opening
  <2>3. CASE call[t].op = "fdopen" /\ Answers(t, fds[call[t].x], call[t].x)
    BY <1>1, <1>2, <2>1, <2>3, FdStill DEF Thing
  <2>4. QED BY <1>3, <2>2, <2>3 DEF AnswerUse
<1>4. CASE AnswerDir(t)
  <2>1. /\ UNCHANGED <<fds, mine>> /\ call[t].op \in {"opendir", "readdir", "closedir"}
        /\ dirs \in [Ptr -> Dir \cup {None}]
    BY <1>4 DEF AnswerDir, LibcTypes
  <2>2. call[t].op \notin OnFd \cup Opening \cup {"fdopen", "dup", "dup2"}
    BY <2>1 DEF OnFd, Opening
  <2>3. PICK obj \in Acted, ret \in Thing \cup {Done} : Answers(t, obj, ret)
    <3>1. CASE call[t].op = "opendir"
      BY <1>1, <1>4, <3>1 DEF AnswerDir, CallOK, Acted, Thing
    <3>2. CASE call[t].op # "opendir"
      <4>1. call[t].x \in Ptr /\ Answers(t, dirs[call[t].x], Done)
        BY <1>1, <1>4, <2>1, <3>2 DEF AnswerDir, CallOK, OnDir
      <4>2. QED BY <2>1, <4>1 DEF Acted
    <3>3. QED BY <3>1, <3>2
  <2>4. QED BY <1>1, <2>1, <2>2, <2>3, FdStill
<1>5. CASE AnswerPath(t)
  <2>1. /\ UNCHANGED <<fds, mine>> /\ Answers(t, None, Done)
        /\ call[t].op \notin OnFd \cup Opening \cup {"fdopen", "dup", "dup2"}
    BY <1>5 DEF AnswerPath, OnFd, Opening
  <2>2. None \in Acted
    BY DEF Acted
  <2>3. QED BY <1>1, <2>1, <2>2, FdStill
<1>6. CASE Fails(t)
  <2> DEFINE obj == IF call[t].op \in OnFd THEN fds[call[t].x]
                    ELSE IF call[t].op \in OnDir THEN dirs[call[t].x] ELSE None
  <2>1. UNCHANGED <<fds, mine>> /\ Answers(t, obj, None)
    BY <1>6 DEF Fails
  <2>2. obj \in Acted
    <3>1. CASE call[t].op \in OnDir
      BY <1>1, <1>2, <3>1 DEF Acted, LibcTypes, CallOK
    <3>2. CASE call[t].op \notin OnDir
      BY <1>2, <3>2 DEF Acted
    <3>3. QED BY <3>1, <3>2
  <2>3. call[t].op \in OnFd => obj = fds[call[t].x]
    OBVIOUS
  <2> HIDE DEF obj
  <2>4. None \in Thing \cup {Done}
    BY DEF Thing
  <2>5. QED BY <1>1, <2>1, <2>2, <2>3, <2>4, FdStill
<1>7. QED BY <1>1, <1>3, <1>4, <1>5, <1>6, FdOpen, FdClose, FdDup DEF Answer

\* A call that has returned looks nothing up any more.
LEMMA FdLeave ==
    ASSUME LibcTypes, MonTypes, FdInv, NEW t \in Thread, Leave(t)
    PROVE  FdInv'
<1>1. Idle.at = "program" /\ Reads(Idle) = {} /\ Held(Idle) = {}
  BY DEF Idle, Reads, Held
<1>2. call'[t] = Idle /\ \A u \in Thread \ {t} : call'[u] = call[u] /\ said'[u] = said[u]
  BY DEF Leave, LibcTypes, MonTypes
<1>3. UNCHANGED <<fds, mine>>
  BY DEF Leave
<1>4. ReadsRight'
  BY <1>1, <1>2, <1>3 DEF FdInv, ReadsRight
<1>5. Alone'
  BY <1>1, <1>2 DEF FdInv, Alone
<1>6. ASSUME NEW u \in Thread, call'[u].op \in SaysBefore
      PROVE  /\ call'[u].at = "library" => said'[u] = ReadFd(call'[u].x)
             /\ call'[u].at = "back" => said'[u] = TrueName(call'[u].x, call'[u].obj)
  <2>1. CASE u = t
    BY <1>1, <1>2, <2>1
  <2>2. CASE u # t
    BY <1>2, <1>6, <2>2 DEF FdInv, SaidRight
  <2>3. QED BY <2>1, <2>2
<1>7. SaidRight'
  BY <1>3, <1>6 DEF SaidRight, ReadFd
<1>8. QED BY <1>4, <1>5, <1>7 DEF FdInv

\* What a program asks for.
LEMMA AskWhat ==
    ASSUME LibcTypes, NEW t \in Thread, Ask(t)
    PROVE  \E op \in Op : \E x \in Thing : \E y \in Thing :
              /\ Asks(t, op, x, y)
              /\ op \in OnFd => Idling(x)
              /\ op = "dup2" => Idling(y)
              /\ op \in OnDir => x \in Ptr /\ dirs[x] # None /\ Idling(x)
<1> USE DEF Op, Opening, OnFd, OnDir, Thing
<1>1. mine \subseteq Fd
  BY DEF LibcTypes
<1>2. CASE \E op \in Opening, f \in File : Asks(t, op, f, None)
  BY <1>2
<1>3. CASE \E op \in OnFd \ {"dup2"}, d \in mine : Idling(d) /\ Asks(t, op, d, None)
  BY <1>1, <1>3
<1>4. CASE \E d \in mine, e \in Fd : Idling(d) /\ Idling(e) /\ Asks(t, "dup2", d, e)
  BY <1>1, <1>4
<1>5. CASE \E n \in Dir : Asks(t, "opendir", n, None)
  BY <1>5
<1>6. CASE \E op \in OnDir, p \in Ptr : dirs[p] # None /\ Idling(p) /\ Asks(t, op, p, None)
  BY <1>6
<1>7. CASE \E op \in {"path", "flushall"} : Asks(t, op, None, None)
  BY <1>7
<1>8. QED BY <1>2, <1>3, <1>4, <1>5, <1>6, <1>7 DEF Ask

\* A wrapper begins.
LEMMA FdEnter ==
    ASSUME LibcTypes, MonTypes, Owned, FdInv, NEW t \in Thread, Enter(t)
    PROVE  FdInv'
<1>1. PICK op \in Op, x \in Thing, y \in Thing :
         /\ Asks(t, op, x, y)
         /\ op \in OnFd => Idling(x)
         /\ op = "dup2" => Idling(y)
  BY AskWhat DEF Enter
<1>2. call'[t] = Asked(op, x, y) /\ call'[t].op = op /\ call'[t].x = x
  <2>1. call' = [call EXCEPT ![t] = Asked(op, x, y)]
    BY <1>1 DEF Asks, Asked
  <2>2. QED BY <2>1, AskedType DEF LibcTypes
<1>3. /\ said' = [said EXCEPT ![t] = IF op \in SaysBefore THEN ReadFd(x) ELSE None]
      /\ UNCHANGED <<fds, mine>> /\ said \in [Thread -> Object]
  BY <1>2 DEF Enter, Ask, MonTypes
<1>4. QED BY <1>1, <1>3, FdAsk

-----------------------------------------------------------------------------
(* Directories.                                                            *)

\* closedir of an open DIR* does not fail.
ClosedirWorks == "closedir" \notin CanFail

\* The calls that have opened a directory, or closed one, and not returned.
Opens(c, p)  == c.at = "back" /\ c.op = "opendir" /\ c.ret = p
Closes(c, p) == c.at = "back" /\ c.op = "closedir" /\ c.x = p

Opened(p) == \E t \in Thread : Opens(call[t], p)
Closed(p) == \E t \in Thread : Closes(call[t], p)

\* The addresses a call relies on.
DirUse(c) ==
    IF \/ c.at = "library" /\ c.op \in OnDir
       \/ c.at = "back" /\ c.op = "readdir" THEN {c.x}
    ELSE IF c.at = "back" /\ c.op = "opendir" THEN {c.ret} \ {None}
    ELSE {}

\* There is an open directory, and no other call uses it.
DirsOwned ==
    /\ \A t \in Thread : \A p \in DirUse(call[t]) : p \in Ptr /\ dirs[p] # None
    /\ \A t, u \in Thread : t # u => DirUse(call[t]) \cap DirUse(call[u]) = {}

\* What a call acted on is the directory at its address.
DirActed == \A t \in Thread : call[t].at = "back" =>
    /\ call[t].op = "readdir" => call[t].obj = dirs[call[t].x]
    /\ call[t].op = "opendir" /\ call[t].ret # None => call[t].x = dirs[call[t].ret]

\* The list knows every open directory but those at the addresses of reused,
\* which are all at which a directory is open while an older one is erased.
Listed == \A p \in Ptr : dirs[p] # None /\ ~Opened(p) =>
    /\ p \notin reused => open_list[p] = dirs[p]
    /\ Closed(p) => p \in reused

\* The entry of a closed directory stays until its wrapper erases it, unless
\* another wrapper of the same address does or did so first.
ClosedListed == \A t \in Thread : \A p \in Ptr : Closes(call[t], p) /\ p \notin reused =>
    /\ open_list[p] = call[t].obj
    /\ \A u \in Thread \ {t} : ~Closes(call[u], p)

DirInv == DirsOwned /\ DirActed /\ Listed /\ ClosedListed

\* Asking for a directory, or for anything else.
LEMMA DirAsk ==
    ASSUME LibcTypes, DirInv, NEW t \in Thread, NEW op \in Op, NEW x \in Thing,
           NEW y \in Thing, Asks(t, op, x, y), call[t].at = "program",
           UNCHANGED <<dirs, open_list, reused>>,
           op \in OnDir => x \in Ptr /\ dirs[x] # None /\ Idling(x)
    PROVE  DirInv'
<1> DEFINE new == Asked(op, x, y)
<1>1. call' = [call EXCEPT ![t] = new]
  BY DEF Asks, Asked
<1>2. new.at = "library" /\ new.op = op /\ new.x = x
  BY AskedType
<1> HIDE DEF new
<1>3. call'[t] = new /\ \A u \in Thread \ {t} : call'[u] = call[u]
  BY <1>1 DEF LibcTypes
<1>4. DirUse(new) \subseteq {x} /\ (DirUse(new) # {} => op \in OnDir)
  BY <1>2 DEF DirUse
<1>5. ASSUME op \in OnDir, NEW u \in Thread PROVE x \notin DirUse(call[u])
  BY <1>5 DEF Idling, InUse, DirUse
<1>6. \A p : /\ ~Opens(new, p) /\ ~Opens(call[t], p)
             /\ ~Closes(new, p) /\ ~Closes(call[t], p)
  BY <1>2 DEF Opens, Closes
<1>7. DirsOwned'
  BY <1>3, <1>4, <1>5 DEF DirInv, DirsOwned
<1>8. DirActed'
  BY <1>2, <1>3 DEF DirInv, DirActed
<1>9. \A p : (Opened(p)' <=> Opened(p)) /\ (Closed(p)' <=> Closed(p))
  BY <1>3, <1>6 DEF Opened, Closed
<1>10. Listed'
  BY <1>9 DEF DirInv, Listed
<1>11. ClosedListed'
  BY <1>3, <1>6 DEF DirInv, ClosedListed
<1>12. QED BY <1>7, <1>8, <1>10, <1>11 DEF DirInv

LEMMA DirEnter ==
    ASSUME LibcTypes, DirInv, NEW t \in Thread, Enter(t)
    PROVE  DirInv'
<1>1. PICK op \in Op, x \in Thing, y \in Thing :
         /\ Asks(t, op, x, y)
         /\ op \in OnDir => x \in Ptr /\ dirs[x] # None /\ Idling(x)
  BY AskWhat DEF Enter
<1>2. call[t].at = "program" /\ UNCHANGED <<dirs, open_list, reused>>
  BY DEF Enter, Ask
<1>3. QED BY <1>1, <1>2, DirAsk

\* One call is answered; the others are as they were.
LEMMA OneAnswered ==
    ASSUME LibcTypes, NEW t \in Thread, call[t].at = "library", NEW obj \in Acted,
           NEW ret \in Thing \cup {Done}, Answers(t, obj, ret)
    PROVE  /\ call'[t].at = "back" /\ call'[t].op = call[t].op /\ call'[t].x = call[t].x
           /\ call'[t].obj = obj /\ call'[t].ret = ret
           /\ \A u \in Thread \ {t} : call'[u] = call[u]
<1>1. call' = [call EXCEPT ![t] = Answered(call[t], obj, ret)]
  BY DEF Answers, Answered, LibcTypes
<1>2. QED BY <1>1, AnsweredType DEF LibcTypes

\* Answers that open and close no directory.
LEMMA DirStill ==
    ASSUME LibcTypes, DirInv, NEW t \in Thread, call[t].at = "library",
           UNCHANGED <<dirs, open_list, reused>>,
           NEW obj \in Acted, NEW ret \in Thing \cup {Done}, Answers(t, obj, ret),
           call[t].op # "closedir",
           call[t].op = "opendir" => ret = None,
           call[t].op = "readdir" => obj = dirs[call[t].x]
    PROVE  DirInv'
<1>1. /\ call'[t].at = "back" /\ call'[t].op = call[t].op /\ call'[t].x = call[t].x
      /\ call'[t].obj = obj /\ call'[t].ret = ret
      /\ \A u \in Thread \ {t} : call'[u] = call[u]
  BY OneAnswered
<1>2. DirUse(call'[t]) \subseteq DirUse(call[t])
  BY <1>1 DEF DirUse, OnDir
<1>3. \A p \in Ptr : /\ ~Opens(call'[t], p) /\ ~Opens(call[t], p)
                     /\ ~Closes(call'[t], p) /\ ~Closes(call[t], p)
  BY <1>1, LibcAssumption DEF Opens, Closes
<1>4. DirsOwned'
  BY <1>1, <1>2 DEF DirInv, DirsOwned
<1>5. DirActed'
  BY <1>1 DEF DirInv, DirActed
<1>6. \A p \in Ptr : (Opened(p)' <=> Opened(p)) /\ (Closed(p)' <=> Closed(p))
  BY <1>1, <1>3 DEF Opened, Closed
<1>7. Listed'
  BY <1>6 DEF DirInv, Listed
<1>8. ClosedListed'
  BY <1>1, <1>3 DEF DirInv, ClosedListed
<1>9. QED BY <1>4, <1>5, <1>7, <1>8 DEF DirInv

\* opendir: the address was free, and belongs to this call until it returns.
LEMMA DirOpen ==
    ASSUME LibcTypes, DirInv, NEW t \in Thread, call[t].at = "library",
           UNCHANGED <<open_list, reused>>, call[t].op = "opendir",
           NEW p \in Ptr, dirs[p] = None, dirs' = [dirs EXCEPT ![p] = call[t].x],
           Answers(t, call[t].x, p)
    PROVE  DirInv'
<1>1. call[t].x \in Dir /\ call[t].x # None /\ p # None
  BY LibcAssumption DEF LibcTypes, CallOK
<1>2. /\ call'[t].at = "back" /\ call'[t].op = "opendir" /\ call'[t].x = call[t].x
      /\ call'[t].ret = p
      /\ \A u \in Thread \ {t} : call'[u] = call[u]
  BY <1>1, OneAnswered DEF Acted, Thing
<1>3. dirs'[p] = call[t].x /\ \A q \in Ptr \ {p} : dirs'[q] = dirs[q]
  BY DEF LibcTypes
<1>4. DirUse(call[t]) = {} /\ DirUse(call'[t]) = {p}
  BY <1>1, <1>2 DEF DirUse, OnDir
<1>5. \A u \in Thread : p \notin DirUse(call[u])
  BY DEF DirInv, DirsOwned
<1>6. DirsOwned'
  BY <1>1, <1>2, <1>3, <1>4, <1>5 DEF DirInv, DirsOwned
<1>7. ASSUME NEW u \in Thread, call'[u].at = "back"
      PROVE  /\ call'[u].op = "readdir" => call'[u].obj = dirs'[call'[u].x]
             /\ call'[u].op = "opendir" /\ call'[u].ret # None
                  => call'[u].x = dirs'[call'[u].ret]
  <2>1. CASE u = t
    BY <1>2, <1>3, <2>1
  <2>2. CASE u # t
    <3>1. call'[u] = call[u]
      BY <1>2, <2>2
    <3>2. /\ call[u].op = "readdir" => call[u].x \in DirUse(call[u])
          /\ call[u].op = "opendir" /\ call[u].ret # None => call[u].ret \in DirUse(call[u])
      BY <1>7, <3>1 DEF DirUse, OnDir
    <3>3. \A q \in DirUse(call[u]) : dirs'[q] = dirs[q]
      BY <1>3, <1>5 DEF DirInv, DirsOwned
    <3>4. /\ call[u].op = "readdir" => call[u].obj = dirs[call[u].x]
          /\ call[u].op = "opendir" /\ call[u].ret # None => call[u].x = dirs[call[u].ret]
      BY <1>7, <3>1 DEF DirInv, DirActed
    <3>5. QED BY <3>1, <3>2, <3>3, <3>4
  <2>3. QED BY <2>1, <2>2
<1>8. DirActed'
  BY <1>7 DEF DirActed
<1>9. \A q \in Ptr : Closed(q)' <=> Closed(q)
  BY <1>2 DEF Closed, Closes
<1>10. Opened(p)' /\ \A q \in Ptr \ {p} : Opened(q)' <=> Opened(q)
  BY <1>2 DEF Opened, Opens
<1>11. Listed'
  BY <1>3, <1>9, <1>10 DEF DirInv, Listed
<1>12. \A q \in Ptr : ~Closes(call[t], q) /\ ~Closes(call'[t], q)
  BY <1>2 DEF Closes
<1>13. ClosedListed'
  BY <1>2, <1>12 DEF DirInv, ClosedListed
<1>14. QED BY <1>6, <1>8, <1>11, <1>13 DEF DirInv

\* closedir: the directory was listed, or its address is in reused.
LEMMA DirClose ==
    ASSUME LibcTypes, DirInv, NEW t \in Thread, call[t].at = "library",
           UNCHANGED <<open_list, reused>>, call[t].op = "closedir",
           dirs' = [dirs EXCEPT ![call[t].x] = None],
           Answers(t, dirs[call[t].x], Done)
    PROVE  DirInv'
<1> DEFINE p == call[t].x
<1>1. p \in Ptr /\ dirs[p] \in Acted /\ p \in DirUse(call[t])
  <2>1. CallOK(call[t]) /\ dirs \in [Ptr -> Dir \cup {None}]
    BY DEF LibcTypes
  <2>2. p \in Ptr
    BY <2>1 DEF CallOK, OnDir
  <2>3. QED BY <2>1, <2>2 DEF Acted, DirUse, OnDir
<1>2. /\ call'[t].at = "back" /\ call'[t].op = "closedir" /\ call'[t].x = p
      /\ call'[t].obj = dirs[p]
      /\ \A u \in Thread \ {t} : call'[u] = call[u]
  BY <1>1, OneAnswered
<1>3. dirs[p] # None /\ \A u \in Thread \ {t} : p \notin DirUse(call[u])
  BY <1>1 DEF DirInv, DirsOwned
<1>4. DirUse(call'[t]) = {}
  BY <1>2 DEF DirUse, OnDir
<1>5. dirs' = [dirs EXCEPT ![p] = None]
  OBVIOUS
<1> HIDE DEF p
<1>6. dirs'[p] = None /\ \A q \in Ptr \ {p} : dirs'[q] = dirs[q]
  BY <1>1, <1>5 DEF LibcTypes
<1>7. DirsOwned'
  BY <1>2, <1>3, <1>4, <1>6 DEF DirInv, DirsOwned
<1>8. ASSUME NEW u \in Thread, call'[u].at = "back"
      PROVE  /\ call'[u].op = "readdir" => call'[u].obj = dirs'[call'[u].x]
             /\ call'[u].op = "opendir" /\ call'[u].ret # None
                  => call'[u].x = dirs'[call'[u].ret]
  <2>1. CASE u = t
    BY <1>2, <2>1
  <2>2. CASE u # t
    <3>1. call'[u] = call[u]
      BY <1>2, <2>2
    <3>2. /\ call[u].op = "readdir" => call[u].x \in DirUse(call[u])
          /\ call[u].op = "opendir" /\ call[u].ret # None => call[u].ret \in DirUse(call[u])
      BY <1>8, <3>1 DEF DirUse, OnDir
    <3>3. \A q \in DirUse(call[u]) : dirs'[q] = dirs[q]
      BY <1>3, <1>6, <2>2 DEF DirInv, DirsOwned
    <3>4. /\ call[u].op = "readdir" => call[u].obj = dirs[call[u].x]
          /\ call[u].op = "opendir" /\ call[u].ret # None => call[u].x = dirs[call[u].ret]
      BY <1>8, <3>1 DEF DirInv, DirActed
    <3>5. QED BY <3>1, <3>2, <3>3, <3>4
  <2>3. QED BY <2>1, <2>2
<1>9. DirActed'
  BY <1>8 DEF DirActed
<1>10. \A q \in Ptr : Opened(q)' <=> Opened(q)
  BY <1>2 DEF Opened, Opens
<1>11. \A q \in Ptr \ {p} : Closed(q)' <=> Closed(q)
  BY <1>2 DEF Closed, Closes, OnDir
<1>12. Listed'
  BY <1>6, <1>10, <1>11 DEF DirInv, Listed
<1>13. ~Opened(p)
  <2>1. ASSUME NEW u \in Thread, Opens(call[u], p) PROVE FALSE
    <3>1. p # None /\ p \in DirUse(call[u])
      BY <1>1, <2>1, LibcAssumption DEF Opens, DirUse, OnDir
    <3>2. u # t
      BY <2>1 DEF Opens
    <3>3. QED BY <1>3, <3>1, <3>2
  <2>2. QED BY <2>1 DEF Opened
<1>14. p \notin reused => open_list[p] = dirs[p] /\ ~Closed(p)
  BY <1>1, <1>3, <1>13 DEF DirInv, Listed
<1>15. ASSUME NEW u \in Thread, NEW q \in Ptr, Closes(call'[u], q), q \notin reused
       PROVE  /\ open_list[q] = call'[u].obj
              /\ \A v \in Thread \ {u} : ~Closes(call'[v], q)
  <2>1. CASE u = t
    <3>1. q = p
      BY <1>2, <1>15, <2>1 DEF Closes
    <3>2. QED BY <1>2, <1>14, <1>15, <2>1, <3>1 DEF Closed
  <2>2. CASE u # t
    <3>1. Closes(call[u], q) /\ call'[u] = call[u]
      BY <1>2, <1>15, <2>2
    <3>2. q # p
      BY <1>14, <1>15, <3>1 DEF Closed
    <3>3. ~Closes(call'[t], q)
      BY <1>2, <3>2 DEF Closes
    <3>4. QED BY <1>2, <1>15, <3>1, <3>3 DEF DirInv, ClosedListed
  <2>3. QED BY <2>1, <2>2
<1>16. ClosedListed'
  BY <1>15 DEF ClosedListed
<1>17. QED BY <1>7, <1>9, <1>12, <1>16 DEF DirInv

\* Every answer.
LEMMA DirReal ==
    ASSUME ClosedirWorks, LibcTypes, MonTypes, Owned, Apart, DirInv, NEW t \in Thread,
           Answer(t), UNCHANGED <<open_list, reused>>
    PROVE  DirInv'
<1>1. call[t].at = "library" /\ CallOK(call[t]) /\ dirs \in [Ptr -> Dir \cup {None}]
      /\ mine \subseteq Fd
  BY DEF Answer, LibcTypes
<1>2. ASSUME call[t].op \in OnFd
      PROVE  call[t].x \in Fd /\ fds[call[t].x] \in Acted
  BY <1>1, <1>2, HeldFd DEF Acted
<1>3. CASE AnswerOpen(t) \/ AnswerUse(t) \/ AnswerClose(t) \/ AnswerDup(t) \/ AnswerPath(t)
  <2>1. dirs' = dirs /\ call[t].op \notin {"opendir", "readdir", "closedir"}
    BY <1>3 DEF AnswerOpen, AnswerUse, AnswerClose, AnswerDup, AnswerPath, Opening
  <2>2. PICK obj \in Acted, ret \in Thing \cup {Done} : Answers(t, obj, ret)
    <3>1. CASE AnswerOpen(t)
      <4>1. call[t].x \in File
        BY <1>1, <3>1 DEF AnswerOpen, CallOK
      <4>2. QED BY <3>1, <4>1 DEF AnswerOpen, Acted, Thing
    <3>2. CASE AnswerUse(t)
      <4>1. call[t].op \in OnFd
        BY <3>2 DEF AnswerUse, OnFd
      <4>2. QED BY <1>2, <3>2, <4>1 DEF AnswerUse, Thing
    <3>3. CASE AnswerClose(t)
      BY <1>2, <3>3 DEF AnswerClose, OnFd
    <3>4. CASE AnswerDup(t)
      <4>1. PICK d \in Fd : Answers(t, fds[call[t].x], d)
                            /\ call[t].op \in {"dup", "dup2"}
        BY <3>4 DEF AnswerDup
      <4>2. QED BY <1>2, <4>1 DEF OnFd, Thing
    <3>5. CASE AnswerPath(t)
      BY <3>5 DEF AnswerPath, Acted
    <3>6. QED BY <1>3, <3>1, <3>2, <3>3, <3>4, <3>5
  <2>3. QED BY <1>1, <2>1, <2>2, DirStill
<1>4. CASE AnswerDir(t)
  <2>1. ASSUME call[t].op = "opendir", NEW p \in Ptr, dirs[p] = None,
               dirs' = [dirs EXCEPT ![p] = call[t].x], Answers(t, call[t].x, p)
        PROVE  DirInv'
    BY <1>1, <2>1, DirOpen
  <2>2. CASE call[t].op = "readdir" /\ Answers(t, dirs[call[t].x], Done) /\ UNCHANGED dirs
    <3>1. dirs[call[t].x] \in Acted
      BY <1>1, <2>2 DEF CallOK, OnDir, Acted
    <3>2. QED BY <1>1, <2>2, <3>1, DirStill
  <2>3. CASE /\ call[t].op = "closedir"
             /\ dirs' = [dirs EXCEPT ![call[t].x] = None]
             /\ Answers(t, dirs[call[t].x], Done)
    BY <1>1, <2>3, DirClose
  <2>4. QED BY <1>4, <2>1, <2>2, <2>3 DEF AnswerDir
<1>5. CASE Fails(t)
  <2> DEFINE obj == IF call[t].op \in OnFd THEN fds[call[t].x]
                    ELSE IF call[t].op \in OnDir THEN dirs[call[t].x] ELSE None
  <2>1. UNCHANGED dirs /\ Answers(t, obj, None) /\ call[t].op # "closedir"
    BY <1>5 DEF Fails, ClosedirWorks
  <2>2. obj \in Acted
    <3>1. CASE call[t].op \in OnDir
      BY <1>1, <1>2, <3>1 DEF Acted, CallOK
    <3>2. CASE call[t].op \notin OnDir
      BY <1>2, <3>2 DEF Acted
    <3>3. QED BY <3>1, <3>2
  <2>3. call[t].op = "readdir" => obj = dirs[call[t].x]
    BY DEF OnFd, OnDir
  <2> HIDE DEF obj
  <2>4. None \in Thing \cup {Done}
    BY DEF Thing
  <2>5. QED BY <1>1, <2>1, <2>2, <2>3, <2>4, DirStill
<1>6. QED BY <1>3, <1>4, <1>5 DEF Answer

\* Returning from a call that neither opened nor closed a directory.
LEMMA DirLeaveOther ==
    ASSUME LibcTypes, DirInv, NEW t \in Thread, call' = [call EXCEPT ![t] = Idle],
           UNCHANGED <<dirs, open_list, reused>>,
           \A p \in Ptr : ~Opens(call[t], p) /\ ~Closes(call[t], p)
    PROVE  DirInv'
<1>1. call'[t] = Idle /\ \A u \in Thread \ {t} : call'[u] = call[u]
  BY DEF LibcTypes
<1>2. Idle.at = "program" /\ DirUse(Idle) = {}
      /\ \A p : ~Opens(Idle, p) /\ ~Closes(Idle, p)
  BY DEF Idle, DirUse, Opens, Closes
<1>3. DirsOwned'
  BY <1>1, <1>2 DEF DirInv, DirsOwned
<1>4. DirActed'
  BY <1>1, <1>2 DEF DirInv, DirActed
<1>5. \A p \in Ptr : (Opened(p)' <=> Opened(p)) /\ (Closed(p)' <=> Closed(p))
  BY <1>1, <1>2 DEF Opened, Closed
<1>6. Listed'
  BY <1>5 DEF DirInv, Listed
<1>7. ClosedListed'
  BY <1>1, <1>2 DEF DirInv, ClosedListed
<1>8. QED BY <1>3, <1>4, <1>6, <1>7 DEF DirInv

\* Returning from opendir: the entry is made, and the address is in reused if
\* an older entry is still to be erased.
LEMMA DirLeaveOpen ==
    ASSUME LibcTypes, MonTypes, DirInv, NEW t \in Thread, Leave(t),
           NEW p \in Ptr, Opens(call[t], p)
    PROVE  DirInv'
<1>1. call'[t] = Idle /\ (\A u \in Thread \ {t} : call'[u] = call[u]) /\ UNCHANGED dirs
  BY DEF Leave, LibcTypes
<1>2. Idle.at = "program" /\ DirUse(Idle) = {}
      /\ \A q : ~Opens(Idle, q) /\ ~Closes(Idle, q)
  BY DEF Idle, DirUse, Opens, Closes
<1>3. p # None /\ call[t].op = "opendir" /\ call[t].ret = p /\ call[t].at = "back"
  BY LibcAssumption DEF Opens
<1>4. /\ open_list' = [open_list EXCEPT ![p] = call[t].x]
      /\ reused' = IF Closing(p) THEN reused \cup {p} ELSE reused \ {p}
  BY <1>3 DEF Leave, ListAfter, ReusedAfter
<1>5. open_list'[p] = call[t].x /\ \A q \in Ptr \ {p} : open_list'[q] = open_list[q]
  BY <1>4 DEF MonTypes
<1>6. Closing(p) <=> Closed(p)
  BY DEF Closing, Closed, Closes
<1>7. \A q \in Ptr : ~Closes(call[t], q)
  BY <1>3 DEF Closes
<1>8. \A q \in Ptr : Closed(q)' <=> Closed(q)
  BY <1>1, <1>2, <1>7 DEF Closed
<1>9. \A q \in Ptr \ {p} : Opened(q)' <=> Opened(q)
  BY <1>1, <1>2, <1>3 DEF Opened, Opens
<1>10. dirs[p] = call[t].x
  BY <1>3 DEF DirInv, DirActed
<1>11. DirsOwned'
  BY <1>1, <1>2 DEF DirInv, DirsOwned
<1>12. DirActed'
  BY <1>1, <1>2 DEF DirInv, DirActed
<1>13. Listed'
  BY <1>1, <1>4, <1>5, <1>6, <1>8, <1>9, <1>10 DEF DirInv, Listed
<1>14. ASSUME NEW u \in Thread, NEW q \in Ptr, Closes(call'[u], q), q \notin reused'
       PROVE  /\ open_list'[q] = call'[u].obj
              /\ \A v \in Thread \ {u} : ~Closes(call'[v], q)
  <2>1. u # t /\ call'[u] = call[u] /\ Closes(call[u], q)
    BY <1>1, <1>2, <1>14
  <2>2. q # p
    BY <1>4, <1>6, <1>14, <2>1 DEF Closed
  <2>3. q \notin reused /\ open_list'[q] = open_list[q]
    BY <1>4, <1>5, <1>14, <2>2
  <2>4. QED BY <1>1, <1>2, <2>1, <2>3 DEF DirInv, ClosedListed
<1>15. ClosedListed'
  BY <1>14 DEF ClosedListed
<1>16. QED BY <1>11, <1>12, <1>13, <1>15 DEF DirInv

\* Returning from closedir: the entry is erased; a directory opened at its
\* address in the meantime has its address in reused.
LEMMA DirLeaveClose ==
    ASSUME LibcTypes, MonTypes, DirInv, NEW t \in Thread, Leave(t),
           NEW p \in Ptr, Closes(call[t], p)
    PROVE  DirInv'
<1>1. call'[t] = Idle /\ (\A u \in Thread \ {t} : call'[u] = call[u]) /\ UNCHANGED dirs
  BY DEF Leave, LibcTypes
<1>2. Idle.at = "program" /\ DirUse(Idle) = {}
      /\ \A q : ~Opens(Idle, q) /\ ~Closes(Idle, q)
  BY DEF Idle, DirUse, Opens, Closes
<1>3. call[t].op = "closedir" /\ call[t].x = p
  BY DEF Closes
<1>4. open_list' = [open_list EXCEPT ![p] = None] /\ reused' = reused
  BY <1>3 DEF Leave, ListAfter, ReusedAfter, Erased
<1>5. \A q \in Ptr \ {p} : open_list'[q] = open_list[q]
  BY <1>4 DEF MonTypes
<1>6. \A q \in Ptr : Opened(q)' <=> Opened(q)
  BY <1>1, <1>2, <1>3 DEF Opened, Opens
<1>7. \A q \in Ptr : Closed(q)' => Closed(q)
  BY <1>1, <1>2 DEF Closed
<1>8. DirsOwned'
  BY <1>1, <1>2 DEF DirInv, DirsOwned
<1>9. DirActed'
  BY <1>1, <1>2 DEF DirInv, DirActed
<1>10. Closed(p)
  BY DEF Closed
<1>11. dirs[p] # None /\ ~Opened(p) => p \in reused
  BY <1>10 DEF DirInv, Listed
<1>12. Listed'
  BY <1>1, <1>4, <1>5, <1>6, <1>7, <1>11 DEF DirInv, Listed
<1>13. ASSUME NEW u \in Thread, NEW q \in Ptr, Closes(call'[u], q), q \notin reused'
       PROVE  /\ open_list'[q] = call'[u].obj
              /\ \A v \in Thread \ {u} : ~Closes(call'[v], q)
  <2>1. u # t /\ call'[u] = call[u] /\ Closes(call[u], q) /\ q \notin reused
    BY <1>1, <1>2, <1>4, <1>13
  <2>2. q # p
    BY <2>1 DEF DirInv, ClosedListed
  <2>3. open_list'[q] = open_list[q]
    BY <1>5, <2>2
  <2>4. QED BY <1>1, <1>2, <2>1, <2>3 DEF DirInv, ClosedListed
<1>14. ClosedListed'
  BY <1>13 DEF ClosedListed
<1>15. QED BY <1>8, <1>9, <1>12, <1>14 DEF DirInv

LEMMA DirLeave ==
    ASSUME LibcTypes, MonTypes, DirInv, NEW t \in Thread, Leave(t)
    PROVE  DirInv'
<1>1. CASE \E p \in Ptr : Opens(call[t], p)
  BY <1>1, DirLeaveOpen
<1>2. CASE \E p \in Ptr : Closes(call[t], p)
  BY <1>2, DirLeaveClose
<1>3. CASE \A p \in Ptr : ~Opens(call[t], p) /\ ~Closes(call[t], p)
  <2>1. call[t].at = "back" /\ CallOK(call[t])
    BY DEF Leave, LibcTypes
  <2>2. call[t].op # "closedir" /\ (call[t].op = "opendir" => call[t].ret = None)
    BY <1>3, <2>1 DEF CallOK, Opens, Closes, OnDir
  <2>3. UNCHANGED <<dirs, open_list, reused>> /\ call' = [call EXCEPT ![t] = Idle]
    BY <2>2 DEF Leave, ListAfter, ReusedAfter
  <2>4. QED BY <1>3, <2>3, DirLeaveOther
<1>4. QED BY <1>1, <1>2, <1>3

-----------------------------------------------------------------------------
(* The names of a line.                                                    *)

LEMMA LeaveNames ==
    ASSUME LibcTypes, MonTypes, FdInv, DirInv, NEW t \in Thread, call[t].at = "back"
    PROVE  \A l \in Names(t) : l[3] \/ l[1] = l[2]
<1> DEFINE c == call[t]
<1>1. CallOK(c) /\ c.at = "back" /\ mine \subseteq Fd
  BY DEF LibcTypes
<1>2. ASSUME c.op \in {"use", "fdopen"} PROVE FirstName(t) = TrueName(c.x, c.obj)
  <2>1. c.x \in Fd /\ c.x # None
    BY <1>1, <1>2, LibcAssumption DEF CallOK, OnFd
  <2>2. fds[c.x] = c.obj
    BY <1>1, <1>2 DEF FdInv, ReadsRight, Reads
  <2>3. FirstName(t) = ReadFd(c.x)
    BY <1>2 DEF FirstName, SaysBefore
  <2>4. QED BY <2>1, <2>2, <2>3 DEF ReadFd, TrueName
<1>3. ASSUME c.op \in SaysBefore PROVE FirstName(t) = TrueName(c.x, c.obj)
  BY <1>1, <1>3 DEF FdInv, SaidRight, FirstName
<1>4. ASSUME c.op \in {"creat", "fopen", "fdopen", "dup", "dup2"}
      PROVE  ReadFd(c.ret) = TrueName(c.ret, c.obj)
  <2>1. CASE c.ret = None
    BY <2>1 DEF ReadFd, TrueName
  <2>2. CASE c.ret # None
    <3>1. c.ret \in Reads(c)
      BY <1>1, <1>4, <2>2 DEF Reads, Opening
    <3>2. fds[c.ret] = c.obj
      BY <3>1 DEF FdInv, ReadsRight
    <3>3. QED BY <2>2, <3>2 DEF ReadFd, TrueName
  <2>3. QED BY <2>1, <2>2
<1>5. ASSUME c.op \in OnDir, c.x \notin reused PROVE open_list[c.x] = c.obj
  <2>1. c.x \in Ptr
    BY <1>1, <1>5 DEF CallOK
  <2>2. CASE c.op = "readdir"
    <3>1. c.x \in DirUse(c)
      BY <1>1, <2>2 DEF DirUse
    <3>2. dirs[c.x] # None /\ c.obj = dirs[c.x]
      BY <1>1, <2>2, <3>1 DEF DirInv, DirsOwned, DirActed
    <3>3. ~Opened(c.x)
      <4>1. ASSUME NEW u \in Thread, Opens(call[u], c.x) PROVE FALSE
        <5>1. c.x \in DirUse(call[u])
          BY <2>1, <4>1, LibcAssumption DEF Opens, DirUse, OnDir
        <5>2. u # t
          BY <2>2, <4>1 DEF Opens
        <5>3. QED BY <3>1, <5>1, <5>2 DEF DirInv, DirsOwned
      <4>2. QED BY <4>1 DEF Opened
    <3>4. QED BY <1>5, <2>1, <3>2, <3>3 DEF DirInv, Listed
  <2>3. CASE c.op = "closedir"
    BY <1>1, <1>5, <2>1, <2>3 DEF DirInv, ClosedListed, Closes
  <2>4. QED BY <1>5, <2>2, <2>3 DEF OnDir
<1>6. CASE c.op \in {"creat", "fopen"}
  <2>1. Names(t) = {<<ReadFd(c.ret), TrueName(c.ret, c.obj), FALSE>>}
    BY <1>6 DEF Names, OnDir
  <2>2. QED BY <1>4, <1>6, <2>1
<1>7. CASE c.op \in {"use", "close"}
  <2>1. Names(t) = {<<FirstName(t), TrueName(c.x, c.obj), FALSE>>}
    BY <1>7 DEF Names, OnDir
  <2>2. QED BY <1>2, <1>3, <1>7, <2>1 DEF SaysBefore
<1>8. CASE c.op \in {"fdopen", "dup", "dup2"}
  <2>1. Names(t) = {<<FirstName(t), TrueName(c.x, c.obj), FALSE>>}
                   \cup {<<ReadFd(c.ret), TrueName(c.ret, c.obj), FALSE>>}
    BY <1>8 DEF Names, OnDir
  <2>2. FirstName(t) = TrueName(c.x, c.obj) /\ ReadFd(c.ret) = TrueName(c.ret, c.obj)
    BY <1>2, <1>3, <1>4, <1>8 DEF SaysBefore
  <2>3. ASSUME NEW l \in Names(t) PROVE l[1] = l[2]
    <3>1. CASE l = <<FirstName(t), TrueName(c.x, c.obj), FALSE>>
      BY <2>2, <3>1
    <3>2. CASE l = <<ReadFd(c.ret), TrueName(c.ret, c.obj), FALSE>>
      BY <2>2, <3>2
    <3>3. QED BY <2>1, <2>3, <3>1, <3>2
  <2>4. QED BY <2>3
<1>9. CASE c.op \in OnDir
  <2>1. Names(t) = {<<open_list[c.x], c.obj, c.x \in reused>>}
    BY <1>9 DEF Names, OnDir
  <2>2. c.x \in reused \/ open_list[c.x] = c.obj
    BY <1>5, <1>9
  <2>3. ASSUME NEW l \in Names(t) PROVE l[3] \/ l[1] = l[2]
    <3>1. l = <<open_list[c.x], c.obj, c.x \in reused>>
      BY <2>1, <2>3
    <3>2. l[1] = open_list[c.x] /\ l[2] = c.obj /\ l[3] = (c.x \in reused)
      BY <3>1
    <3>3. QED BY <2>2, <3>2
  <2>4. QED BY <2>3
<1>10. CASE c.op \notin {"creat", "fopen", "use", "close", "fdopen", "dup", "dup2"} \cup OnDir
  <2>1. Names(t) = {}
    BY <1>10 DEF Names
  <2>2. QED BY <2>1
<1>11. QED BY <1>6, <1>7, <1>8, <1>9, <1>10

-----------------------------------------------------------------------------
(* The theorems.                                                           *)

NamesInv == Inv /\ FdInv /\ DirInv /\ NamesRight

LEMMA NamesInit == MonitorInit => FdInv /\ DirInv /\ NamesRight
<1> SUFFICES ASSUME MonitorInit PROVE FdInv /\ DirInv /\ NamesRight
  OBVIOUS
<1>1. \A t \in Thread : /\ call[t].at = "program"
                        /\ Reads(call[t]) = {} /\ DirUse(call[t]) = {}
                        /\ \A p : ~Opens(call[t], p) /\ ~Closes(call[t], p)
  BY DEF MonitorInit, Idle, Reads, DirUse, Opens, Closes
<1>2. (\A p \in Ptr : dirs[p] = None) /\ line = {}
  BY DEF MonitorInit
<1>3. FdInv
  BY <1>1 DEF FdInv, ReadsRight, Alone, SaidRight
<1>4. DirsOwned /\ DirActed
  BY <1>1 DEF DirsOwned, DirActed
<1>5. Listed /\ ClosedListed
  BY <1>1, <1>2 DEF Listed, ClosedListed
<1>6. QED BY <1>2, <1>3, <1>4, <1>5 DEF DirInv, NamesRight

LEMMA NamesNext == ClosedirWorks /\ NamesInv /\ [MonitorNext]_vars
                   => FdInv' /\ DirInv' /\ NamesRight'
<1> SUFFICES ASSUME ClosedirWorks, NamesInv, [MonitorNext]_vars
             PROVE  FdInv' /\ DirInv' /\ NamesRight'
  OBVIOUS
<1>1. LibcTypes /\ MonTypes /\ Owned /\ Apart /\ FdInv /\ DirInv /\ NamesRight
  BY TypeSplit DEF NamesInv, Inv
<1>2. ASSUME NEW t \in Thread, Enter(t) PROVE FdInv' /\ DirInv' /\ NamesRight'
  <2>1. line' = {}
    BY <1>2 DEF Enter
  <2>2. QED BY <1>1, <1>2, <2>1, FdEnter, DirEnter DEF NamesRight
<1>3. ASSUME NEW t \in Thread, Real(t) PROVE FdInv' /\ DirInv' /\ NamesRight'
  <2>1. Answer(t) /\ UNCHANGED said /\ UNCHANGED <<open_list, reused>> /\ line' = {}
        /\ UNCHANGED <<stderr_fd, output>>
    BY <1>3 DEF Real
  <2>2. QED BY <1>1, <2>1, FdReal, DirReal DEF NamesRight
<1>4. ASSUME NEW t \in Thread, Leave(t) PROVE FdInv' /\ DirInv' /\ NamesRight'
  <2>1. call[t].at = "back" /\ line' = Names(t)
    BY <1>4 DEF Leave
  <2>2. NamesRight'
    BY <1>1, <2>1, LeaveNames DEF NamesRight
  <2>3. QED BY <1>1, <1>4, <2>2, FdLeave, DirLeave
<1>5. CASE UNCHANGED <<libcVars, said, open_list, reused, line>>
  <2>1. UNCHANGED <<fds, mine, dirs, call, said, open_list, reused, line>>
    BY <1>5 DEF libcVars
  <2>2. FdInv'
    BY <1>1, <2>1 DEF FdInv, ReadsRight, Alone, SaidRight, ReadFd
  <2>3. DirInv'
    BY <1>1, <2>1 DEF DirInv, DirsOwned, DirActed, Listed, ClosedListed, Opened, Closed
  <2>4. QED BY <1>1, <2>1, <2>2, <2>3 DEF NamesRight
<1>6. ASSUME NEW t \in Thread, Crash(t) PROVE FdInv' /\ DirInv' /\ NamesRight'
  BY <1>5, <1>6 DEF Crash
<1>7. CASE UNCHANGED vars
  BY <1>5, <1>7 DEF vars, monVars
<1>8. QED BY <1>2, <1>3, <1>4, <1>6, <1>7 DEF MonitorNext

LEMMA NamesAlways == ASSUME ClosedirWorks PROVE MonitorSpec => []NamesInv
<1>1. MonitorInit => NamesInv
  BY InvInit, NamesInit DEF NamesInv
<1>2. NamesInv /\ [MonitorNext]_vars => NamesInv'
  BY InvNext, NamesNext DEF NamesInv
<1>3. QED BY <1>1, <1>2, PTL DEF MonitorSpec

\* Every name in every line is that of what the call acted on, for any number
\* of threads and wherever they interleave (read_fd and open_list in the
\* wrappers).
THEOREM LinesNameTheTruth == ASSUME ClosedirWorks PROVE MonitorSpec => []NamesRight
<1>1. NamesInv => NamesRight
  BY DEF NamesInv
<1>2. QED BY <1>1, NamesAlways, PTL

\* open_list knows every open directory by its name, but for those at an
\* address whose earlier entry was erased late (closedir).
THEOREM DirectoriesKnown == ASSUME ClosedirWorks PROVE MonitorSpec => []DirsKnown
<1>1. NamesInv => DirsKnown
  <2> SUFFICES ASSUME NamesInv, NEW p \in Ptr, dirs[p] # None, Idling(p), p \notin reused
               PROVE  open_list[p] = dirs[p]
    BY DEF DirsKnown
  <2>1. ~Opened(p)
    BY DEF Idling, InUse, Opened, Opens
  <2>2. QED BY <2>1 DEF NamesInv, DirInv, Listed
<1>2. QED BY <1>1, NamesAlways, PTL
=============================================================================
